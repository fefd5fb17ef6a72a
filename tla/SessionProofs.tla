---------------------------- MODULE SessionProofs ----------------------------
(***************************************************************************)
(* Theorems about SessionNetwork, for any channels, frames and widths of   *)
(* the numbers, and for a network that loses, reorders and repeats.        *)
(*                                                                         *)
(* SessionInv says of the reorder buffer what the code relies on: a view   *)
(* was taken of a whole ordered frame, the one its key names, which had    *)
(* been processed.  NumbersInv relates next_expected_seq to the datagrams  *)
(* that were accepted.                                                     *)
(***************************************************************************)
EXTENDS SessionNetwork, SequenceTheorems, FiniteSetTheorems, TLAPS

(* What a client sends: an ordered frame has no sequence index.            *)
SentFrame == {f \in Frame : f.kind = "ordered" => f.sqx = 0}

Datagram == [num : 0 .. NumberMod - 1, frames : Seq(SentFrame) \ {<<>>}]

ClientTyped ==
  /\ network \in Seq(Datagram)
  /\ log \in Seq(Seq(SentFrame) \ {<<>>})
  /\ order_index \in [Channels -> Nat]
  /\ sequence_index \in [Channels -> Nat]

ServerTyped ==
  /\ next_expected_seq \in 0 .. NumberMod - 1
  /\ missing_packets \subseteq 0 .. NumberMod - 1
  /\ ordered_next \in [Channels -> Nat]
  /\ sequenced_next \in [Channels -> Nat]
  /\ memory \in Seq(SentFrame)
  /\ frames \in Seq(SentFrame)
  /\ pos \in 0 .. Len(frames) /\ (pos = 0 <=> frames = <<>>)
  /\ processed \in Seq(Frame \cup {Garbage})
  /\ accepted \in Seq(0 .. NumberMod - 1)
  /\ status \in {"up", "down"}

(* A buffered frame stands where its key says, and has been processed.     *)
Buffered ==
  \A k \in DOMAIN oof :
     /\ oof[k] \in Seq(SentFrame)
     /\ oof[k] # <<>>
     /\ KeyOf(Last(oof[k])) = k
     /\ Last(oof[k]).kind = "ordered" /\ ~Last(oof[k]).split
     /\ Last(oof[k]) \in ToSet(processed)

SessionInv == ClientTyped /\ ServerTyped /\ Buffered

-----------------------------------------------------------------------------
(* The assumptions on the constants, in the form the proofs use them.      *)
LEMMA Widths ==
  /\ NumberMod \in Nat \ {0}
  /\ IndexMod \in Nat \ {0}
  /\ KeyBase \in Nat \ {0}
  /\ IndexMod <= KeyBase
  /\ Channels \subseteq Nat /\ AnyChannel \in Channels
BY WidthsAssumption, ChannelsAssumption DEF AnyChannel

(* Remainders are in range.                                                *)
LEMMA ModuloRange ==
  ASSUME NEW x \in Nat, NEW n \in Nat \ {0}
  PROVE  x % n \in 0 .. n - 1
OBVIOUS

(* A small number is its own remainder.                                    *)
LEMMA ModuloSmall ==
  ASSUME NEW x \in Nat, NEW n \in Nat \ {0}, x < n
  PROVE  x % n = x
OBVIOUS

(* None of the 32 channels is clipped, and a key is shifted back to its    *)
(* channel ...                                                             *)
LEMMA KeyChannel ==
  ASSUME NEW c \in Channels, NEW i \in 0 .. IndexMod - 1
  PROVE  /\ construct_order_key(c, i) = c * KeyBase + i
         /\ construct_order_key(c, i) \div KeyBase = c
<1>1. c \in 0 .. 31
  BY ChannelsAssumption DEF MAX_ORDER_CHANNELS
<1>2. c % 32 = c
  BY <1>1
<1>3. construct_order_key(c, i) = c * KeyBase + i
  BY <1>2 DEF construct_order_key, MAX_ORDER_CHANNELS
<1>4. (c * KeyBase + i) \div KeyBase = c
  BY <1>1, Widths
<1>. QED  BY <1>3, <1>4

(* ... and so stands for one channel and one index.                        *)
LEMMA KeyInjective ==
  ASSUME NEW c \in Channels, NEW i \in 0 .. IndexMod - 1,
         NEW d \in Channels, NEW j \in 0 .. IndexMod - 1,
         construct_order_key(c, i) = construct_order_key(d, j)
  PROVE  c = d /\ i = j
<1>1. c = d
  BY KeyChannel
<1>2. c * KeyBase \in Nat
  BY Widths
<1>3. c * KeyBase + i = c * KeyBase + j
  BY <1>1, KeyChannel
<1>. QED  BY <1>1, <1>2, <1>3

(* Two ordered whole frames with one key are the same frame.               *)
LEMMA SameKeySameFrame ==
  ASSUME NEW f \in SentFrame, NEW g \in SentFrame,
         f.kind = "ordered", g.kind = "ordered", ~f.split, ~g.split,
         KeyOf(f) = KeyOf(g)
  PROVE  f = g
<1>1. f.kind \notin WithoutOrder /\ g.kind \notin WithoutOrder
  BY DEF WithoutOrder
<1>2. /\ f \in [kind : FrameKinds \ WithoutOrder, ch : Channels, idx : 0 .. IndexMod - 1,
                sqx : 0 .. IndexMod - 1, split : BOOLEAN]
      /\ g \in [kind : FrameKinds \ WithoutOrder, ch : Channels, idx : 0 .. IndexMod - 1,
                sqx : 0 .. IndexMod - 1, split : BOOLEAN]
  BY <1>1 DEF SentFrame, Frame
<1>3. f.ch = g.ch /\ f.idx = g.idx
  BY <1>2, KeyInjective DEF KeyOf
<1>4. f.sqx = 0 /\ g.sqx = 0
  BY DEF SentFrame
<1>. QED  BY <1>2, <1>3, <1>4

-----------------------------------------------------------------------------
(* A sequence without one of its elements.                                 *)
LEMMA RemoveAtType ==
  ASSUME NEW S, NEW s \in Seq(S), NEW i \in 1 .. Len(s)
  PROVE  RemoveAt(s, i) \in Seq(S)
<1>1. SubSeq(s, 1, i - 1) \in Seq(S)
  BY SubSeqProperties, ElementOfSeq, LenProperties
<1>2. SubSeq(s, i + 1, Len(s)) \in Seq(S)
  BY SubSeqProperties, ElementOfSeq, LenProperties
<1>. QED  BY <1>1, <1>2, ConcatProperties DEF RemoveAt

(* The first elements of a sequence.                                       *)
LEMMA PrefixType ==
  ASSUME NEW S, NEW s \in Seq(S), NEW n \in 0 .. Len(s)
  PROVE  /\ SubSeq(s, 1, n) \in Seq(S)
         /\ Len(SubSeq(s, 1, n)) = n
         /\ \A i \in 1 .. n : SubSeq(s, 1, n)[i] = s[i]
<1>1. \A i \in 1 .. n : s[i] \in S
  BY ElementOfSeq, LenProperties
<1>2. Len(s) \in Nat
  BY LenProperties
<1>. QED  BY <1>1, <1>2, SubSeqProperties

(* Before counts.                                                          *)
LEMMA BeforeType ==
  ASSUME NEW choice, NEW n \in Int, NEW kind, NEW c
  PROVE  Before(choice, n, kind, c) \in Nat
<1>. DEFINE chosen == {j \in 1 .. n : choice[j][1] = kind /\ choice[j][2] = c}
<1>1. chosen \in SUBSET (1 .. n)
  OBVIOUS
<1>2. IsFiniteSet(1 .. n)
  BY FS_Interval
<1>. HIDE DEF chosen
<1>3. Cardinality(chosen) \in Nat
  BY <1>1, <1>2, FS_Subset, FS_CardinalityType
<1>. QED  BY <1>3 DEF Before, chosen

(* What the client makes is a frame, with indices that have wrapped.       *)
LEMMA FrameOfType ==
  ASSUME ClientTyped, NEW n \in 1 .. MaxFrames, NEW choice \in [1 .. n -> Offers],
         NEW i \in 1 .. n
  PROVE  FrameOf(choice, i) \in SentFrame
<1>. DEFINE kind == choice[i][1]
            c == choice[i][2]
            split == choice[i][3]
<1>1. kind \in FrameKinds /\ c \in Channels /\ split \in BOOLEAN
  BY NetworkAssumption DEF Offers
<1>. DEFINE a == Before(choice, i - 1, "ordered", c)
            b == Before(choice, i - 1, kind, c)
<1>2. a \in Nat /\ b \in Nat
  BY BeforeType, NetworkAssumption
<1>3. Len(log) * MaxFrames + i \in Nat
  <2>1. Len(log) \in Nat /\ MaxFrames \in Nat
    BY LenProperties, NetworkAssumption DEF ClientTyped
  <2>2. Len(log) * MaxFrames \in Nat
    BY <2>1
  <2>. QED  BY <2>2
<1>4. FrameOf(choice, i) =
        [kind |-> kind, ch |-> c,
         idx |-> IF kind \in WithoutOrder THEN Len(log) * MaxFrames + i
                 ELSE (order_index[c] + a) % IndexMod,
         sqx |-> IF kind # "sequenced" THEN 0 ELSE (sequence_index[c] + b) % IndexMod,
         split |-> split]
  BY DEF FrameOf
<1>. HIDE DEF kind, c, split, a, b
<1>5. order_index[c] + a \in Nat /\ sequence_index[c] + b \in Nat
  BY <1>1, <1>2 DEF ClientTyped
<1>6. /\ (order_index[c] + a) % IndexMod \in 0 .. IndexMod - 1
      /\ (sequence_index[c] + b) % IndexMod \in 0 .. IndexMod - 1
  BY <1>5, ModuloRange, Widths
<1>7. 0 \in 0 .. IndexMod - 1
  BY Widths
<1>8. CASE kind \in WithoutOrder
  <2>1. kind # "sequenced" /\ kind # "ordered"
    BY <1>8 DEF WithoutOrder
  <2>. QED  BY <1>1, <1>3, <1>4, <1>8, <2>1 DEF SentFrame, Frame
<1>9. CASE kind \notin WithoutOrder
  BY <1>1, <1>4, <1>6, <1>7, <1>9 DEF SentFrame, Frame
<1>. QED  BY <1>8, <1>9

-----------------------------------------------------------------------------
(* The invariant holds initially.                                          *)
LEMMA SessionInitially == Init => SessionInv
<1>. SUFFICES ASSUME Init PROVE SessionInv
  OBVIOUS
<1>. USE Widths DEF Init, SessionInit
<1>1. ClientTyped
  BY DEF ClientTyped
<1>2. ServerTyped
  BY DEF ServerTyped
<1>3. Buffered
  BY DEF Buffered
<1>. QED  BY <1>1, <1>2, <1>3 DEF SessionInv

(* What is sent is a datagram, and logged.                                 *)
LEMMA SendStep ==
  ASSUME ClientTyped, NEW fs \in Seq(SentFrame) \ {<<>>}, Send(fs)
  PROVE  /\ network' \in Seq(Datagram)
         /\ log' \in Seq(Seq(SentFrame) \ {<<>>})
<1>1. Len(log) \in Nat
  BY LenProperties DEF ClientTyped
<1>2. Len(log) % NumberMod \in 0 .. NumberMod - 1
  BY <1>1, ModuloRange, Widths
<1>3. [num |-> Len(log) % NumberMod, frames |-> fs] \in Datagram
  BY <1>2 DEF Datagram
<1>. QED  BY <1>3, AppendProperties DEF Send, ClientTyped

(* What the client and the network do keeps ClientTyped.                   *)
LEMMA NetworkStep ==
  ASSUME ClientTyped, SendNew \/ SendAgain \/ Deliver \/ Lose
  PROVE  ClientTyped'
<1>1. CASE SendNew
  <2>0. PICK n \in 1 .. MaxFrames : \E choice \in [1 .. n -> Offers] :
          /\ Send([i \in 1 .. n |-> FrameOf(choice, i)])
          /\ order_index' = [c \in Channels |->
                               order_index[c] + Before(choice, n, "ordered", c)]
          /\ sequence_index' = [c \in Channels |->
                                  sequence_index[c] + Before(choice, n, "sequenced", c)]
    BY <1>1 DEF SendNew
  <2>1. PICK choice \in [1 .. n -> Offers] :
          /\ Send([i \in 1 .. n |-> FrameOf(choice, i)])
          /\ order_index' = [c \in Channels |->
                               order_index[c] + Before(choice, n, "ordered", c)]
          /\ sequence_index' = [c \in Channels |->
                                  sequence_index[c] + Before(choice, n, "sequenced", c)]
    BY <2>0
  <2>. DEFINE fs == [i \in 1 .. n |-> FrameOf(choice, i)]
  <2>2. n \in Nat \ {0}
    BY NetworkAssumption
  <2>3. \A i \in 1 .. n : FrameOf(choice, i) \in SentFrame
    BY FrameOfType
  <2>4. fs \in Seq(SentFrame) \ {<<>>}
    BY <2>2, <2>3
  <2>5. \A c \in Channels : /\ Before(choice, n, "ordered", c) \in Nat
                            /\ Before(choice, n, "sequenced", c) \in Nat
    BY <2>2, BeforeType
  <2>. HIDE DEF fs
  <2>6. network' \in Seq(Datagram) /\ log' \in Seq(Seq(SentFrame) \ {<<>>})
    BY <2>1, <2>4, SendStep DEF fs
  <2>. QED  BY <2>1, <2>5, <2>6 DEF ClientTyped
<1>2. CASE SendAgain
  <2>1. PICK f \in SentFrames : f.kind = "ordered" /\ Send(<<f>>)
    BY <1>2 DEF SendAgain
  <2>2. f \in SentFrame
    <3>1. PICK i \in 1 .. Len(log) : f \in ToSet(log[i])
      BY <2>1 DEF SentFrames
    <3>2. log[i] \in Seq(SentFrame)
      BY <3>1 DEF ClientTyped
    <3>. QED  BY <3>1, <3>2, LenProperties, ElementOfSeq DEF ToSet
  <2>3. <<f>> \in Seq(SentFrame) \ {<<>>}
    BY <2>2
  <2>4. network' \in Seq(Datagram) /\ log' \in Seq(Seq(SentFrame) \ {<<>>})
    BY <2>1, <2>3, SendStep
  <2>. QED  BY <1>2, <2>4 DEF SendAgain, ClientTyped
<1>3. CASE Deliver
  BY <1>3, RemoveAtType DEF Deliver, ClientTyped
<1>4. CASE Lose
  BY <1>4, RemoveAtType DEF Lose, ClientTyped
<1>. QED  BY <1>1, <1>2, <1>3, <1>4

(* What the loop reaches of a datagram.                                    *)
LEMMA ReachedType ==
  ASSUME NEW fs \in Seq(SentFrame) \ {<<>>}
  PROVE  Reached(fs) \in Seq(SentFrame)
<1>1. Len(fs) \in Nat \ {0} /\ Len(fs) - 1 \in 0 .. Len(fs)
  BY EmptySeq
<1>. QED  BY <1>1, PrefixType DEF Reached

(* The new frames, and those of an earlier datagram behind them.           *)
LEMMA ReceivedType ==
  ASSUME ServerTyped, NEW fs \in Seq(SentFrame)
  PROVE  Received(fs) \in Seq(SentFrame)
<1>1. memory \in Seq(SentFrame) /\ Len(fs) \in Nat /\ Len(memory) \in Nat
  BY LenProperties DEF ServerTyped
<1>2. SubSeq(memory, Len(fs) + 1, Len(memory)) \in Seq(SentFrame)
  BY <1>1, SubSeqProperties, ElementOfSeq
<1>. QED  BY <1>1, <1>2, ConcatProperties DEF Received

(* The header of a datagram.                                               *)
LEMMA DeliverStep ==
  ASSUME SessionInv, NEW d \in Datagram, process_packet(d.num, d.frames)
  PROVE  ServerTyped' /\ Buffered'
<1>1. d.num \in 0 .. NumberMod - 1 /\ d.frames \in Seq(SentFrame) \ {<<>>}
  BY DEF Datagram
<1>. DEFINE num == d.num
            fs == d.frames
<1>. HIDE DEF num, fs
<1>2. memory' \in Seq(SentFrame)
  BY <1>1, ReceivedType DEF process_packet, SessionInv, fs
<1>3. Reached(fs) \in Seq(SentFrame)
  BY <1>1, ReachedType DEF fs
<1>4. UNCHANGED <<ordered_next, sequenced_next, oof, processed, status>>
  BY DEF process_packet
<1>5. Buffered'
  BY <1>4 DEF SessionInv, Buffered
<1>6. CASE IsLate(num)
  <2>1. UNCHANGED <<next_expected_seq, missing_packets, accepted, frames, pos>>
    BY <1>6 DEF process_packet, num, fs
  <2>. QED  BY <1>2, <1>4, <1>5, <2>1 DEF SessionInv, ServerTyped
<1>7. CASE ~IsLate(num)
  <2>1. /\ missing_packets' = missing_packets \cup Missed(num)
        /\ next_expected_seq' = (next_expected_seq + 1) % NumberMod
        /\ accepted' = Append(accepted, num)
        /\ frames' = Reached(fs)
        /\ pos' = IF Reached(fs) = <<>> THEN 0 ELSE 1
    BY <1>7 DEF process_packet, num, fs
  <2>2. Missed(num) \subseteq 0 .. NumberMod - 1
    BY <1>1, Widths DEF Missed, num, SessionInv, ServerTyped
  <2>3. next_expected_seq' \in 0 .. NumberMod - 1
    BY <2>1, ModuloRange, Widths DEF SessionInv, ServerTyped
  <2>4. accepted' \in Seq(0 .. NumberMod - 1)
    BY <1>1, <2>1, AppendProperties DEF SessionInv, ServerTyped, num
  <2>5. pos' \in 0 .. Len(frames') /\ (pos' = 0 <=> frames' = <<>>)
    BY <1>3, <2>1, EmptySeq
  <2>. QED  BY <1>2, <1>3, <1>4, <1>5, <2>1, <2>2, <2>3, <2>4, <2>5
            DEF SessionInv, ServerTyped
<1>. QED  BY <1>5, <1>6, <1>7

-----------------------------------------------------------------------------
(* The loop is at a frame of the datagram.                                 *)
LEMMA AtHand ==
  ASSUME ServerTyped, pos # 0
  PROVE  frames[pos] \in SentFrame /\ pos \in 1 .. Len(frames)
BY ElementOfSeq, LenProperties DEF ServerTyped

(* The loop goes on to the next frame or ends.                             *)
LEMMA NextFrameType ==
  ASSUME ServerTyped, pos # 0, NextFrame
  PROVE  frames' \in Seq(SentFrame) /\ pos' \in 0 .. Len(frames') /\ (pos' = 0 <=> frames' = <<>>)
<1>1. pos \in 1 .. Len(frames) /\ Len(frames) \in Nat /\ frames \in Seq(SentFrame)
  BY AtHand, LenProperties DEF ServerTyped
<1>2. CASE pos = Len(frames)
  <2>1. pos' = 0 /\ frames' = <<>>
    BY <1>2 DEF NextFrame
  <2>. QED  BY <2>1, EmptySeq
<1>3. CASE pos # Len(frames)
  <2>1. pos' = pos + 1 /\ frames' = frames /\ frames # <<>>
    BY <1>3 DEF NextFrame, ServerTyped
  <2>. QED  BY <1>1, <1>3, <2>1
<1>. QED  BY <1>2, <1>3

(* Payloads are only ever added.                                           *)
LEMMA ProcessDataStep ==
  ASSUME ServerTyped, NEW payloads \in Seq(Frame \cup {Garbage}), process_data(payloads)
  PROVE  /\ processed' \in Seq(Frame \cup {Garbage})
         /\ ToSet(processed') = ToSet(processed) \cup ToSet(payloads)
<1>1. processed \in Seq(Frame \cup {Garbage})
  BY DEF ServerTyped
<1>2. /\ processed' \in Seq(Frame \cup {Garbage})
      /\ Len(processed') = Len(processed) + Len(payloads)
      /\ \A i \in 1 .. Len(processed) + Len(payloads) : processed'[i] =
            IF i <= Len(processed) THEN processed[i] ELSE payloads[i - Len(processed)]
  BY <1>1, ConcatProperties DEF process_data
<1>3. /\ DOMAIN processed = 1 .. Len(processed) /\ Len(processed) \in Nat
      /\ DOMAIN processed' = 1 .. Len(processed')
      /\ DOMAIN payloads = 1 .. Len(payloads) /\ Len(payloads) \in Nat
  BY <1>1, <1>2, LenProperties
<1>4. ASSUME NEW x \in ToSet(processed') PROVE x \in ToSet(processed) \cup ToSet(payloads)
  <2>1. PICK i \in 1 .. Len(processed) + Len(payloads) : x = processed'[i]
    BY <1>2, <1>3, <1>4 DEF ToSet
  <2>2. CASE i <= Len(processed)
    BY <1>2, <1>3, <2>1, <2>2 DEF ToSet
  <2>3. CASE i > Len(processed)
    <3>1. i - Len(processed) \in DOMAIN payloads /\ x = payloads[i - Len(processed)]
      BY <1>2, <1>3, <2>1, <2>3
    <3>. QED  BY <3>1 DEF ToSet
  <2>. QED  BY <1>3, <2>2, <2>3
<1>5. ASSUME NEW x \in ToSet(processed) PROVE x \in ToSet(processed')
  <2>1. PICK i \in 1 .. Len(processed) : x = processed[i]
    BY <1>3, <1>5 DEF ToSet
  <2>2. i \in DOMAIN processed' /\ processed'[i] = x
    BY <1>2, <1>3, <2>1
  <2>. QED  BY <2>2 DEF ToSet
<1>6. ASSUME NEW x \in ToSet(payloads) PROVE x \in ToSet(processed')
  <2>1. PICK i \in 1 .. Len(payloads) : x = payloads[i]
    BY <1>3, <1>6 DEF ToSet
  <2>2. i + Len(processed) \in DOMAIN processed' /\ processed'[i + Len(processed)] = x
    BY <1>2, <1>3, <2>1
  <2>. QED  BY <2>2 DEF ToSet
<1>. QED  BY <1>2, <1>4, <1>5, <1>6

(* What is kept of the buffer stays processed.                             *)
LEMMA BufferedKept ==
  ASSUME Buffered, ToSet(processed) \subseteq ToSet(processed'),
         DOMAIN oof' \subseteq DOMAIN oof,
         \A k \in DOMAIN oof' : oof'[k] = oof[k]
  PROVE  Buffered'
BY DEF Buffered

(* A view of the receive buffer shows a frame or garbage.                  *)
LEMMA StoredType ==
  ASSUME ServerTyped, NEW upto \in Seq(SentFrame), upto # <<>>
  PROVE  Stored(upto) \in Frame \cup {Garbage}
<1>1. Len(upto) \in Nat \ {0} /\ memory \in Seq(SentFrame) /\ Len(memory) \in Nat
  BY EmptySeq, LenProperties DEF ServerTyped
<1>2. Len(memory) >= Len(upto) => memory[Len(upto)] \in SentFrame
  BY <1>1, ElementOfSeq
<1>. QED  BY <1>2 DEF Stored, SentFrame

(* The counters of the channels.                                           *)
LEMMA CountersType ==
  ASSUME SessionInv, process_frame
  PROVE  ordered_next' \in [Channels -> Nat] /\ sequenced_next' \in [Channels -> Nat]
<1>. DEFINE f == frames[pos]
<1>0. ServerTyped /\ pos # 0
  BY DEF SessionInv, process_frame
<1>1. f \in SentFrame
  BY <1>0, AtHand
<1>2. f \in Frame /\ f.ch \in Channels /\ f.sqx \in Nat
  BY <1>1, Widths DEF SentFrame, Frame
<1>3. ordered_next \in [Channels -> Nat] /\ sequenced_next \in [Channels -> Nat]
  BY <1>0 DEF ServerTyped
<1>. HIDE DEF f
<1>4. CASE Unhandled(f) \/ PlainFrame(f) \/ SequencedAborts(f) \/ OrderedLate(f)
  BY <1>3, <1>4 DEF Unhandled, PlainFrame, SequencedAborts, OrderedLate
<1>5. CASE SequencedFrame(f)
  BY <1>2, <1>3, <1>5 DEF SequencedFrame
<1>6. CASE OrderedInTurn(f)
  <2>1. PICK n \in Nat : ordered_next' = [ordered_next EXCEPT ![f.ch] = @ + 1 + n]
    <3>1. CASE KeyOf(f) \in DOMAIN oof
      <4>1. ordered_next' = [ordered_next EXCEPT ![f.ch] = @ + 1 + Len(<<Stored(oof[KeyOf(f)])>>)]
        BY <1>6, <3>1 DEF OrderedInTurn
      <4>2. Len(<<Stored(oof[KeyOf(f)])>>) \in Nat
        OBVIOUS
      <4>. QED  BY <4>1, <4>2
    <3>2. CASE KeyOf(f) \notin DOMAIN oof
      <4>1. ordered_next' = [ordered_next EXCEPT ![f.ch] = @ + 1 + Len(<<>>)]
        BY <1>6, <3>2 DEF OrderedInTurn
      <4>2. Len(<<>>) \in Nat
        OBVIOUS
      <4>. QED  BY <4>1, <4>2
    <3>. QED  BY <3>1, <3>2
  <2>2. sequenced_next' = sequenced_next
    BY <1>6 DEF OrderedInTurn
  <2>3. \A m \in Nat : m + 1 + n \in Nat
    OBVIOUS
  <2>. QED  BY <1>2, <1>3, <2>1, <2>2, <2>3
<1>7. CASE OrderedEarly(f) \/ OrderedClash(f)
  <2>1. /\ sequenced_next' = [sequenced_next EXCEPT ![f.ch] = 0]
        /\ ordered_next' = ordered_next
    BY <1>7 DEF OrderedEarly, OrderedClash
  <2>. QED  BY <1>2, <1>3, <2>1
<1>. QED  BY <1>4, <1>5, <1>6, <1>7 DEF process_frame, f

(* The payloads, and the frames that are kept for later.                   *)
LEMMA PayloadsStep ==
  ASSUME SessionInv, process_frame
  PROVE  processed' \in Seq(Frame \cup {Garbage}) /\ Buffered'
<1>. DEFINE f == frames[pos]
<1>0. ServerTyped /\ Buffered /\ pos # 0
  BY DEF SessionInv, process_frame
<1>1. f \in SentFrame /\ f \in Frame /\ pos \in 1 .. Len(frames)
  BY <1>0, AtHand DEF SentFrame
<1>2. processed \in Seq(Frame \cup {Garbage})
  BY <1>0 DEF ServerTyped
<1>3. <<f>> \in Seq(Frame \cup {Garbage}) /\ ToSet(<<f>>) = {f}
  BY <1>1 DEF ToSet
<1>. HIDE DEF f
<1>4. CASE UNCHANGED <<oof, processed>>
  BY <1>0, <1>2, <1>4, BufferedKept
<1>5. CASE oof' = oof /\ process_data(<<f>>)
  BY <1>0, <1>3, <1>5, ProcessDataStep, BufferedKept
<1>6. CASE OrderedInTurn(f)
  <2>1. PICK drained \in Seq(Frame \cup {Garbage}) :
          /\ process_data(<<f>> \o drained \o <<f>>)
          /\ oof' = [k \in DOMAIN oof \ {KeyOf(f)} |-> oof[k]]
    <3>1. CASE KeyOf(f) \in DOMAIN oof
      <4>1. Stored(oof[KeyOf(f)]) \in Frame \cup {Garbage}
        BY <1>0, <3>1, StoredType DEF Buffered
      <4>2. <<Stored(oof[KeyOf(f)])>> \in Seq(Frame \cup {Garbage})
        BY <4>1
      <4>. QED  BY <1>6, <3>1, <4>2 DEF OrderedInTurn
    <3>2. CASE KeyOf(f) \notin DOMAIN oof
      <4>1. <<>> \in Seq(Frame \cup {Garbage})
        OBVIOUS
      <4>. QED  BY <1>6, <3>2, <4>1 DEF OrderedInTurn
    <3>. QED  BY <3>1, <3>2
  <2>2. <<f>> \o drained \o <<f>> \in Seq(Frame \cup {Garbage})
    BY <1>3, ConcatProperties
  <2>3. processed' \in Seq(Frame \cup {Garbage}) /\ ToSet(processed) \subseteq ToSet(processed')
    BY <1>0, <2>1, <2>2, ProcessDataStep
  <2>4. DOMAIN oof' \subseteq DOMAIN oof /\ \A k \in DOMAIN oof' : oof'[k] = oof[k]
    BY <2>1
  <2>. QED  BY <1>0, <2>3, <2>4, BufferedKept
<1>7. CASE OrderedEarly(f)
  <2>1. /\ f.kind = "ordered" /\ ~f.split
        /\ process_data(<<f>>)
        /\ oof' = [k \in DOMAIN oof \cup {KeyOf(f)} |->
                     IF k = KeyOf(f) THEN SubSeq(frames, 1, pos) ELSE oof[k]]
    BY <1>7 DEF OrderedEarly
  <2>2. processed' \in Seq(Frame \cup {Garbage}) /\ ToSet(processed') = ToSet(processed) \cup {f}
    BY <1>0, <1>3, <2>1, ProcessDataStep
  <2>. DEFINE seen == SubSeq(frames, 1, pos)
  <2>3. seen \in Seq(SentFrame) /\ seen # <<>> /\ Last(seen) = f
    <3>1. frames \in Seq(SentFrame) /\ pos \in 0 .. Len(frames)
      BY <1>0 DEF ServerTyped
    <3>2. seen \in Seq(SentFrame) /\ Len(seen) = pos /\ seen[pos] = frames[pos]
      BY <1>1, <3>1, PrefixType
    <3>. QED  BY <1>0, <3>2, EmptySeq DEF Last, f
  <2>. HIDE DEF seen
  <2>4. ASSUME NEW k \in DOMAIN oof'
        PROVE  /\ oof'[k] \in Seq(SentFrame)
               /\ oof'[k] # <<>>
               /\ KeyOf(Last(oof'[k])) = k
               /\ Last(oof'[k]).kind = "ordered" /\ ~Last(oof'[k]).split
               /\ Last(oof'[k]) \in ToSet(processed')
    <3>1. CASE k = KeyOf(f)
      <4>1. oof'[k] = seen
        BY <2>1, <2>4, <3>1 DEF seen
      <4>. QED  BY <2>1, <2>2, <2>3, <3>1, <4>1
    <3>2. CASE k # KeyOf(f)
      <4>1. k \in DOMAIN oof /\ oof'[k] = oof[k]
        BY <2>1, <2>4, <3>2
      <4>. QED  BY <1>0, <2>2, <4>1 DEF Buffered
    <3>. QED  BY <3>1, <3>2
  <2>. QED  BY <2>2, <2>4 DEF Buffered
<1>8. \/ UNCHANGED <<oof, processed>>
      \/ oof' = oof /\ process_data(<<f>>)
      \/ OrderedInTurn(f)
      \/ OrderedEarly(f)
  <2>1. CASE Unhandled(f) \/ SequencedAborts(f) \/ OrderedLate(f) \/ OrderedClash(f)
    BY <2>1 DEF Unhandled, SequencedAborts, OrderedLate, OrderedClash
  <2>2. CASE PlainFrame(f) \/ SequencedFrame(f)
    BY <2>2 DEF PlainFrame, SequencedFrame
  <2>. QED  BY <2>1, <2>2 DEF process_frame, f
<1>. QED  BY <1>4, <1>5, <1>6, <1>7, <1>8

(* A turn of the loop keeps ServerTyped and Buffered.                      *)
LEMMA FrameStep ==
  ASSUME SessionInv, process_frame
  PROVE  ServerTyped' /\ Buffered'
<1>. DEFINE f == frames[pos]
<1>1. UNCHANGED numberVars
  BY DEF process_frame
<1>2. NextFrame \/ UNCHANGED <<frames, pos>>
  BY DEF process_frame, Unhandled, PlainFrame, SequencedAborts, SequencedFrame,
         OrderedInTurn, OrderedLate, OrderedEarly, OrderedClash
<1>3. status' \in {"up", "down"}
  BY DEF process_frame, Unhandled, PlainFrame, SequencedAborts, SequencedFrame,
         OrderedInTurn, OrderedLate, OrderedEarly, OrderedClash, Terminate
<1>4. /\ frames' \in Seq(SentFrame)
      /\ pos' \in 0 .. Len(frames') /\ (pos' = 0 <=> frames' = <<>>)
  <2>1. CASE NextFrame
    BY <2>1, NextFrameType DEF SessionInv, process_frame
  <2>2. CASE UNCHANGED <<frames, pos>>
    BY <2>2 DEF SessionInv, ServerTyped
  <2>. QED  BY <1>2, <2>1, <2>2
<1>5. ordered_next' \in [Channels -> Nat] /\ sequenced_next' \in [Channels -> Nat]
  BY CountersType
<1>6. processed' \in Seq(Frame \cup {Garbage}) /\ Buffered'
  BY PayloadsStep
<1>. QED  BY <1>1, <1>3, <1>4, <1>5, <1>6 DEF numberVars, SessionInv, ServerTyped

(* Every step keeps the invariant.                                         *)
LEMMA SessionStep == SessionInv /\ [Next]_vars => SessionInv'
<1>. SUFFICES ASSUME SessionInv, [Next]_vars PROVE SessionInv'
  OBVIOUS
<1>1. CASE SendNew \/ SendAgain \/ Lose
  <2>1. ClientTyped'
    BY <1>1, NetworkStep DEF SessionInv
  <2>2. UNCHANGED sessionVars
    BY <1>1 DEF SendNew, SendAgain, Lose
  <2>. QED  BY <2>1, <2>2 DEF SessionInv, ServerTyped, Buffered, sessionVars
<1>2. CASE Deliver
  <2>1. ClientTyped'
    BY <1>2, NetworkStep DEF SessionInv
  <2>2. PICK i \in 1 .. Len(network) : process_packet(network[i].num, network[i].frames)
    BY <1>2 DEF Deliver
  <2>3. network[i] \in Datagram
    BY <2>2 DEF SessionInv, ClientTyped
  <2>. QED  BY <2>1, <2>2, <2>3, DeliverStep DEF SessionInv
<1>3. CASE ProcessFrame
  BY <1>3, FrameStep DEF ProcessFrame, networkVars, SessionInv, ClientTyped
<1>4. CASE OtherTraffic
  <2>1. memory' \in Seq(SentFrame)
    BY <1>4 DEF OtherTraffic, ReceiveElsewhere
  <2>. QED  BY <1>4, <2>1 DEF OtherTraffic, ReceiveElsewhere, networkVars, SessionInv,
                             ClientTyped, ServerTyped, Buffered
<1>5. CASE UNCHANGED vars
  BY <1>5 DEF vars, sessionVars, networkVars, SessionInv, ClientTyped, ServerTyped, Buffered
<1>. QED  BY <1>1, <1>2, <1>3, <1>4, <1>5 DEF Next

(* SessionInv holds always: the types, and what the reorder buffer holds.  *)
THEOREM SessionInvariant == Spec => []SessionInv
BY SessionInitially, SessionStep, PTL DEF Spec

(* The counters stay in range, and what is buffered stands under its key,  *)
(* for any number of datagrams and any network.                            *)
THEOREM SessionTypes == Spec => []TypeOK
<1>1. SessionInv => TypeOK
  <2>. SUFFICES ASSUME SessionInv PROVE TypeOK
    OBVIOUS
  <2>1. SentFrame \subseteq Frame
    BY DEF SentFrame
  <2>2. memory \in Seq(Frame) /\ frames \in Seq(Frame)
    BY <2>1, SeqMonotonic DEF SessionInv, ServerTyped
  <2>3. \A k \in DOMAIN oof : oof[k] \in Seq(Frame)
    BY <2>1, SeqMonotonic DEF SessionInv, Buffered
  <2>. QED  BY <2>2, <2>3 DEF SessionInv, ServerTyped, Buffered, TypeOK
<1>. QED  BY <1>1, SessionInvariant, PTL

-----------------------------------------------------------------------------
(* The turn of a frame on one channel leaves the others alone.             *)
LEMMA OtherChannelKept ==
  ASSUME SessionInv, process_frame, NEW c \in Channels, frames[pos].ch # c
  PROVE  ChannelState(c)' = ChannelState(c)
<1>. DEFINE f == frames[pos]
<1>1. f \in SentFrame
  BY AtHand DEF SessionInv, process_frame
<1>2. f.kind = "ordered" => f.ch \in Channels /\ f.idx \in 0 .. IndexMod - 1
  BY <1>1 DEF SentFrame, Frame, WithoutOrder
<1>3. ASSUME f.kind = "ordered" PROVE KeyOf(f) \div KeyBase # c
  BY <1>2, <1>3, KeyChannel DEF KeyOf
<1>. HIDE DEF f
<1>4. ordered_next'[c] = ordered_next[c] /\ sequenced_next'[c] = sequenced_next[c]
  <2>1. ordered_next \in [Channels -> Nat] /\ sequenced_next \in [Channels -> Nat]
    BY DEF SessionInv, ServerTyped
  <2>2. f.ch # c
    BY DEF f
  <2>3. CASE Unhandled(f) \/ PlainFrame(f) \/ SequencedAborts(f) \/ OrderedLate(f)
    BY <2>3 DEF Unhandled, PlainFrame, SequencedAborts, OrderedLate
  <2>4. CASE SequencedFrame(f)
    BY <2>1, <2>2, <2>4 DEF SequencedFrame
  <2>5. CASE OrderedInTurn(f)
    BY <2>1, <2>2, <2>5 DEF OrderedInTurn
  <2>6. CASE OrderedEarly(f)
    BY <2>1, <2>2, <2>6 DEF OrderedEarly
  <2>7. CASE OrderedClash(f)
    BY <2>1, <2>2, <2>7 DEF OrderedClash
  <2>. QED  BY <2>3, <2>4, <2>5, <2>6, <2>7 DEF process_frame, f
<1>5. \/ oof' = oof
      \/ f.kind = "ordered" /\ oof' = [k \in DOMAIN oof \ {KeyOf(f)} |-> oof[k]]
      \/ f.kind = "ordered" /\ oof' = [k \in DOMAIN oof \cup {KeyOf(f)} |->
                                         IF k = KeyOf(f) THEN SubSeq(frames, 1, pos) ELSE oof[k]]
  <2>1. CASE \/ Unhandled(f) \/ PlainFrame(f) \/ SequencedAborts(f) \/ SequencedFrame(f)
             \/ OrderedLate(f) \/ OrderedClash(f)
    BY <2>1 DEF Unhandled, PlainFrame, SequencedAborts, SequencedFrame, OrderedLate, OrderedClash
  <2>2. CASE OrderedInTurn(f)
    BY <2>2 DEF OrderedInTurn
  <2>3. CASE OrderedEarly(f)
    BY <2>3 DEF OrderedEarly
  <2>. QED  BY <2>1, <2>2, <2>3 DEF process_frame, f
<1>6. BufferedOn(c)' = BufferedOn(c) /\ \A k \in BufferedOn(c) : oof'[k] = oof[k]
  BY <1>3, <1>5 DEF BufferedOn
<1>7. [k \in BufferedOn(c) |-> oof[k]]' = [k \in BufferedOn(c) |-> oof[k]]
  BY <1>6
<1>. QED  BY <1>4, <1>7 DEF ChannelState

(* A frame changes the counters and the buffered frames of no channel but  *)
(* its own, although one map holds the frames of all: the five bits of the *)
(* key that construct_order_key leaves to the channel are enough for the   *)
(* 32 channels RakNet has (ChannelsAssumption).                            *)
THEOREM ChannelsIsolated == Spec => ChannelIsolation
<1>1. SessionInv /\ [Next]_vars =>
        [\A c \in Channels :
           (pos = 0 \/ frames[pos].ch # c) => ChannelState(c)' = ChannelState(c)]_vars
  <2>. SUFFICES ASSUME SessionInv, Next, NEW c \in Channels, pos = 0 \/ frames[pos].ch # c
                PROVE  ChannelState(c)' = ChannelState(c)
    OBVIOUS
  <2>1. CASE SendNew \/ SendAgain \/ Deliver \/ Lose \/ OtherTraffic
    <3>1. UNCHANGED <<ordered_next, sequenced_next, oof>>
      BY <2>1 DEF SendNew, SendAgain, Deliver, Lose, OtherTraffic, process_packet,
                  ReceiveElsewhere, sessionVars
    <3>. QED  BY <3>1 DEF ChannelState, BufferedOn
  <2>2. CASE ProcessFrame
    BY <2>2, OtherChannelKept DEF ProcessFrame, process_frame
  <2>. QED  BY <2>1, <2>2 DEF Next
<1>. QED  BY <1>1, SessionInvariant, PTL DEF Spec, ChannelIsolation

(* On the 32 channels RakNet has, only a frame that comes a second time    *)
(* can end the process (the logic_error of the reorder buffer), or a       *)
(* sequenced one.                                                          *)
THEOREM OnlyRepeatsTerminate == Spec => DownOnlyOnRepeat
<1>1. SessionInv /\ [Next]_vars =>
        [status' = "down" => \/ frames[pos].kind = "sequenced"
                             \/ frames[pos] \in ToSet(processed)]_vars
  <2>. SUFFICES ASSUME SessionInv, Next, status' = "down"
                PROVE  frames[pos].kind = "sequenced" \/ frames[pos] \in ToSet(processed)
    OBVIOUS
  <2>. DEFINE f == frames[pos]
  <2>1. status = "up"
    BY DEF Next
  <2>2. process_frame
    BY <2>1 DEF Next, SendNew, SendAgain, Deliver, Lose, OtherTraffic, ProcessFrame,
                process_packet, ReceiveElsewhere, sessionVars
  <2>3. f \in SentFrame
    BY <2>2, AtHand DEF SessionInv, process_frame
  <2>. HIDE DEF f
  <2>4. SequencedAborts(f) \/ OrderedClash(f)
    BY <2>1, <2>2 DEF process_frame, f, Unhandled, PlainFrame, SequencedFrame, OrderedInTurn,
                      OrderedLate, OrderedEarly
  <2>5. CASE SequencedAborts(f)
    BY <2>5 DEF SequencedAborts, f
  <2>6. CASE OrderedClash(f)
    <3>1. f.kind = "ordered" /\ ~f.split /\ KeyOf(f) \in DOMAIN oof
      BY <2>6 DEF OrderedClash
    <3>. DEFINE g == Last(oof[KeyOf(f)])
    <3>2. /\ g.kind = "ordered" /\ ~g.split /\ KeyOf(g) = KeyOf(f)
          /\ g \in ToSet(processed)
          /\ oof[KeyOf(f)] \in Seq(SentFrame) /\ oof[KeyOf(f)] # <<>>
      BY <3>1 DEF SessionInv, Buffered
    <3>3. g \in SentFrame
      BY <3>2, EmptySeq, ElementOfSeq DEF Last
    <3>. HIDE DEF g
    <3>4. g = f
      BY <2>3, <3>1, <3>2, <3>3, SameKeySameFrame
    <3>. QED  BY <3>2, <3>4 DEF f
  <2>. QED  BY <2>4, <2>5, <2>6
<1>. QED  BY <1>1, SessionInvariant, PTL DEF Spec, DownOnlyOnRepeat

-----------------------------------------------------------------------------
(***************************************************************************)
(* The numbers of datagrams, before they wrap.  The check against          *)
(* next_expected_seq is so weak because that counts what came; the j-th    *)
(* datagram that is accepted has the number j - 1 or a greater one.  So if *)
(* there is no gap below it, it is where it belongs, and is new.           *)
(***************************************************************************)
SentSoFar == {d \in Datagram : d.num < Len(log)}

NumbersInv ==
  Len(log) < NumberMod =>
    /\ next_expected_seq = Len(accepted)
    /\ network \in Seq(SentSoFar)
    /\ \A j \in 1 .. Len(accepted) : j - 1 <= accepted[j] /\ accepted[j] < Len(log)
    /\ \A m \in missing_packets : \E i \in 1 .. Len(accepted) : i <= m /\ m < accepted[i]

(* The accepted numbers are a sequence of naturals.                        *)
LEMMA AcceptedFacts ==
  ASSUME ServerTyped
  PROVE  Len(accepted) \in Nat /\ \A j \in 1 .. Len(accepted) : accepted[j] \in Nat
<1>1. accepted \in Seq(0 .. NumberMod - 1)
  BY DEF ServerTyped
<1>2. 0 .. NumberMod - 1 \subseteq Nat
  BY Widths
<1>. QED  BY <1>1, <1>2, ElementOfSeq, LenProperties

(* n datagrams cannot have all the numbers 0 .. v, if that is more.        *)
LEMMA TooFew ==
  ASSUME NEW n \in Nat, NEW v \in Nat, n <= v,
         \A m \in 0 .. v : \E k \in 1 .. n : accepted[k] = m
  PROVE  FALSE
<1>. DEFINE at == [m \in 0 .. v |-> CHOOSE k \in 1 .. n : accepted[k] = m]
<1>1. \A m \in 0 .. v : at[m] \in 1 .. n /\ accepted[at[m]] = m
  OBVIOUS
<1>2. at \in [0 .. v -> 1 .. n]
  BY <1>1
<1>. HIDE DEF at
<1>3. at \in Injection(0 .. v, 1 .. n)
  <2>1. \A k, m \in 0 .. v : at[k] = at[m] => k = m
    BY <1>1
  <2>2. DOMAIN at = 0 .. v
    BY <1>2
  <2>3. IsInjective(at)
    BY <2>1, <2>2 DEF IsInjective
  <2>. QED  BY <1>2, <2>3 DEF Injection
<1>4. IsFiniteSet(1 .. n) /\ Cardinality(1 .. n) = n /\ Cardinality(0 .. v) = v + 1
  <2>1. IsFiniteSet(1 .. n) /\ Cardinality(1 .. n) = IF 1 > n THEN 0 ELSE n - 1 + 1
    BY FS_Interval
  <2>2. Cardinality(0 .. v) = IF 0 > v THEN 0 ELSE v - 0 + 1
    BY FS_Interval
  <2>. QED  BY <2>1, <2>2
<1>5. Cardinality(0 .. v) <= Cardinality(1 .. n)
  BY <1>3, <1>4, FS_Injection
<1>. QED  BY <1>4, <1>5

(* The client numbers its datagrams in turn.                               *)
LEMMA NumbersSend ==
  ASSUME SessionInv, NumbersInv, NEW fs \in Seq(SentFrame) \ {<<>>}, Send(fs),
         UNCHANGED sessionVars
  PROVE  NumbersInv'
<1>. SUFFICES ASSUME Len(log') < NumberMod
              PROVE  /\ next_expected_seq' = Len(accepted')
                     /\ network' \in Seq(SentSoFar')
                     /\ \A j \in 1 .. Len(accepted') :
                          j - 1 <= accepted'[j] /\ accepted'[j] < Len(log')
                     /\ \A m \in missing_packets' :
                          \E i \in 1 .. Len(accepted') : i <= m /\ m < accepted'[i]
  BY DEF NumbersInv
<1>1. log \in Seq(Seq(SentFrame) \ {<<>>}) /\ Len(log) \in Nat
  BY LenProperties DEF SessionInv, ClientTyped
<1>2. Len(log') = Len(log) + 1
  BY <1>1, AppendProperties DEF Send
<1>3. Len(log) < NumberMod
  BY <1>1, <1>2, Widths
<1>4. Len(log) % NumberMod = Len(log)
  BY <1>1, <1>3, ModuloSmall, Widths
<1>. DEFINE d == [num |-> Len(log), frames |-> fs]
<1>5. d \in SentSoFar'
  BY <1>1, <1>2, <1>3, Widths DEF SentSoFar, Datagram
<1>6. SentSoFar \subseteq SentSoFar'
  BY <1>1, <1>2 DEF SentSoFar, Datagram
<1>7. network \in Seq(SentSoFar')
  BY <1>3, <1>6, SeqMonotonic DEF NumbersInv
<1>8. network' = Append(network, d)
  BY <1>4 DEF Send
<1>. HIDE DEF d
<1>9. network' \in Seq(SentSoFar')
  BY <1>5, <1>7, <1>8, AppendProperties
<1>10. \A j \in 1 .. Len(accepted) : accepted[j] \in Nat
  BY AcceptedFacts DEF SessionInv
<1>. QED  BY <1>1, <1>2, <1>3, <1>9, <1>10 DEF NumbersInv, sessionVars

(* A datagram that is accepted has at least the number of those before it. *)
LEMMA NumbersDeliver ==
  ASSUME SessionInv, NumbersInv, Deliver
  PROVE  NumbersInv'
<1>. SUFFICES ASSUME Len(log) < NumberMod
              PROVE  /\ next_expected_seq' = Len(accepted')
                     /\ network' \in Seq(SentSoFar')
                     /\ \A j \in 1 .. Len(accepted') :
                          j - 1 <= accepted'[j] /\ accepted'[j] < Len(log')
                     /\ \A m \in missing_packets' :
                          \E i \in 1 .. Len(accepted') : i <= m /\ m < accepted'[i]
  BY DEF NumbersInv, Deliver
<1>1. PICK i \in 1 .. Len(network) :
        /\ process_packet(network[i].num, network[i].frames)
        /\ network' = RemoveAt(network, i) \/ network' = network
        /\ log' = log
  BY DEF Deliver
<1>2. network \in Seq(SentSoFar) /\ SentSoFar' = SentSoFar
  BY <1>1 DEF NumbersInv, SentSoFar
<1>3. network' \in Seq(SentSoFar')
  BY <1>1, <1>2, RemoveAtType
<1>. DEFINE num == network[i].num
            n == Len(accepted)
<1>4. num \in 0 .. NumberMod - 1 /\ num < Len(log)
  <2>1. network[i] \in SentSoFar
    BY <1>1, <1>2, ElementOfSeq
  <2>. QED  BY <2>1 DEF SentSoFar, Datagram
<1>5. accepted \in Seq(0 .. NumberMod - 1) /\ n \in Nat /\ next_expected_seq = n
  BY LenProperties DEF SessionInv, ServerTyped, NumbersInv
<1>. HIDE DEF num
<1>6. CASE IsLate(num)
  <2>1. UNCHANGED <<next_expected_seq, missing_packets, accepted>>
    BY <1>1, <1>6 DEF process_packet, num
  <2>. QED  BY <1>1, <1>3, <2>1 DEF NumbersInv
<1>7. CASE ~IsLate(num)
  <2>1. /\ missing_packets' = missing_packets \cup Missed(num)
        /\ next_expected_seq' = (next_expected_seq + 1) % NumberMod
        /\ accepted' = Append(accepted, num)
    BY <1>1, <1>7 DEF process_packet, num
  <2>2. n <= num /\ Len(log) \in Nat
    BY <1>4, <1>5, <1>7, LenProperties DEF IsLate, SessionInv, ClientTyped
  <2>3. next_expected_seq' = n + 1
    <3>1. n + 1 \in Nat /\ n + 1 < NumberMod
      BY <1>4, <1>5, <2>2, Widths
    <3>. QED  BY <1>5, <2>1, <3>1, ModuloSmall, Widths
  <2>4. /\ Len(accepted') = n + 1
        /\ \A j \in 1 .. n : accepted'[j] = accepted[j]
        /\ accepted'[n + 1] = num
    BY <1>4, <1>5, <2>1, AppendProperties
  <2>. HIDE DEF n
  <2>5. ASSUME NEW j \in 1 .. Len(accepted')
        PROVE  j - 1 <= accepted'[j] /\ accepted'[j] < Len(log')
    <3>1. CASE j = n + 1
      BY <1>1, <1>4, <1>5, <2>2, <2>4, <3>1
    <3>2. CASE j # n + 1
      <4>1. j \in 1 .. Len(accepted)
        BY <1>5, <2>4, <3>2 DEF n
      <4>. QED  BY <1>1, <2>4, <4>1 DEF NumbersInv, n
    <3>. QED  BY <3>1, <3>2
  <2>6. ASSUME NEW m \in missing_packets'
        PROVE  \E k \in 1 .. Len(accepted') : k <= m /\ m < accepted'[k]
    <3>1. CASE m \in missing_packets
      <4>1. PICK k \in 1 .. Len(accepted) : k <= m /\ m < accepted[k]
        BY <3>1 DEF NumbersInv
      <4>2. k \in 1 .. Len(accepted') /\ accepted'[k] = accepted[k]
        BY <1>5, <2>4, <4>1 DEF n
      <4>. QED  BY <4>1, <4>2
    <3>2. CASE m \in Missed(num)
      <4>1. n + 1 <= m /\ m < num
        BY <1>4, <1>5, <3>2 DEF Missed
      <4>2. n + 1 \in 1 .. Len(accepted')
        BY <1>5, <2>4
      <4>. QED  BY <2>4, <4>1, <4>2
    <3>. QED  BY <2>1, <3>1, <3>2
  <2>. QED  BY <1>3, <2>3, <2>4, <2>5, <2>6
<1>. QED  BY <1>6, <1>7

(* Every step keeps NumbersInv.                                            *)
LEMMA NumbersStep == SessionInv /\ NumbersInv /\ [Next]_vars => NumbersInv'
<1>. SUFFICES ASSUME SessionInv, NumbersInv, [Next]_vars PROVE NumbersInv'
  OBVIOUS
<1>1. CASE SendNew \/ SendAgain
  <2>1. UNCHANGED sessionVars
    BY <1>1 DEF SendNew, SendAgain
  <2>2. PICK fs : Send(fs)
    BY <1>1 DEF SendNew, SendAgain
  <2>3. log' = Append(log, fs) /\ log' \in Seq(Seq(SentFrame) \ {<<>>})
    BY <1>1, <2>2, NetworkStep DEF Send, SessionInv, ClientTyped
  <2>4. fs \in Seq(SentFrame) \ {<<>>}
    <3>1. log \in Seq(Seq(SentFrame) \ {<<>>}) /\ Len(log) \in Nat
      BY LenProperties DEF SessionInv, ClientTyped
    <3>2. Len(log') = Len(log) + 1 /\ log'[Len(log) + 1] = fs
      BY <2>3, <3>1
    <3>. QED  BY <2>3, <3>1, <3>2, ElementOfSeq
  <2>. QED  BY <2>1, <2>2, <2>4, NumbersSend
<1>2. CASE Deliver
  BY <1>2, NumbersDeliver
<1>3. CASE Lose
  <2>1. PICK i \in 1 .. Len(network) : network' = RemoveAt(network, i)
    BY <1>3 DEF Lose
  <2>2. UNCHANGED <<next_expected_seq, missing_packets, accepted, log>>
    BY <1>3 DEF Lose, sessionVars
  <2>. QED  BY <2>1, <2>2, RemoveAtType DEF NumbersInv, SentSoFar
<1>4. CASE ProcessFrame \/ OtherTraffic \/ UNCHANGED vars
  <2>1. UNCHANGED <<next_expected_seq, missing_packets, accepted, log, network>>
    BY <1>4 DEF ProcessFrame, OtherTraffic, process_frame, ReceiveElsewhere, numberVars,
                networkVars, vars, sessionVars
  <2>. QED  BY <2>1 DEF NumbersInv, SentSoFar
<1>. QED  BY <1>1, <1>2, <1>3, <1>4 DEF Next

(* NumbersInv holds always: next_expected_seq counts what was accepted.    *)
THEOREM NumbersInvariant == Spec => []NumbersInv
<1>1. Init => NumbersInv
  BY DEF Init, SessionInit, NumbersInv
<1>. QED  BY <1>1, NumbersStep, SessionInvariant, PTL DEF Spec

(* A datagram is taken a second time only while a number below it has not  *)
(* come.                                                                   *)
THEOREM TakenTwiceOnlyAboveGap == Spec => []DuplicateOnlyAboveGap
<1>1. SessionInv /\ NumbersInv => DuplicateOnlyAboveGap
  <2>. SUFFICES ASSUME SessionInv, NumbersInv, Len(log) < NumberMod,
                       NEW j \in 1 .. Len(accepted), NEW i \in 1 .. j - 1,
                       accepted[i] = accepted[j],
                       \A m \in 0 .. accepted[j] - 1 : \E k \in 1 .. j - 1 : accepted[k] = m
                PROVE  FALSE
    BY DEF DuplicateOnlyAboveGap
  <2>. DEFINE v == accepted[j]
  <2>1. v \in Nat /\ j - 1 <= v /\ j - 1 \in Nat
    BY AcceptedFacts DEF SessionInv, NumbersInv
  <2>. HIDE DEF v
  <2>2. \A m \in 0 .. v : \E k \in 1 .. j - 1 : accepted[k] = m
    <3>. SUFFICES ASSUME NEW m \in 0 .. v PROVE \E k \in 1 .. j - 1 : accepted[k] = m
      OBVIOUS
    <3>1. CASE m = v
      BY <3>1 DEF v
    <3>2. CASE m # v
      BY <2>1, <3>2 DEF v
    <3>. QED  BY <3>1, <3>2
  <2>. QED  BY <2>1, <2>2, TooFew
<1>. QED  BY <1>1, SessionInvariant, NumbersInvariant, PTL

(* What is recorded as missing, or a number below it, had not come when a  *)
(* higher one did.                                                         *)
THEOREM MissingOnlyAboveGap == Spec => []MissingAboveGap
<1>1. SessionInv /\ NumbersInv => MissingAboveGap
  <2>. SUFFICES ASSUME SessionInv, NumbersInv, Len(log) < NumberMod, NEW m \in missing_packets
                PROVE  \E i \in 1 .. Len(accepted) :
                         /\ accepted[i] > m
                         /\ \E k \in 0 .. m : \A j \in 1 .. i - 1 : accepted[j] # k
    BY DEF MissingAboveGap
  <2>1. PICK i \in 1 .. Len(accepted) : i <= m /\ m < accepted[i]
    BY DEF NumbersInv
  <2>2. m \in Nat /\ i - 1 \in Nat /\ i - 1 <= m /\ accepted[i] \in Nat
    <3>1. missing_packets \subseteq Nat /\ Len(accepted) \in Nat
      BY AcceptedFacts, Widths DEF SessionInv, ServerTyped
    <3>2. accepted[i] \in Nat
      BY AcceptedFacts DEF SessionInv
    <3>. QED  BY <2>1, <3>1, <3>2
  <2>3. \E k \in 0 .. m : \A j \in 1 .. i - 1 : accepted[j] # k
    BY <2>2, TooFew
  <2>. QED  BY <2>1, <2>2, <2>3
<1>. QED  BY <1>1, SessionInvariant, NumbersInvariant, PTL
=============================================================================
