--------------------------- MODULE SessionNetwork ---------------------------
(***************************************************************************)
(* A session with its client and the network between them.  The client and *)
(* the network are not part of the repository: the client numbers its      *)
(* datagrams and frames as RakNet does and, as the server never sends an   *)
(* ACK, may send an ordered frame again in a new datagram; the network is  *)
(* UDP, as unreliable as the constants allow.                              *)
(*                                                                         *)
(* They act between two datagrams of the server.  The server sees what     *)
(* they do only when it receives, so nothing is lost by that.              *)
(***************************************************************************)
EXTENDS ClientSession, SequencesExt

CONSTANTS
  Kinds,         \* the kinds of frames the client sends, a subset of FrameKinds
  Splits,        \* {TRUE, FALSE} if it also sends fragments, else {FALSE}
  MayReorder, MayLose, MayDuplicate,   \* what the network does to datagrams
  MaxFrames,     \* bound: frames in a new datagram
  MaxDatagrams,  \* bound: datagrams sent, new and again
  MaxResends,    \* bound: datagrams that send a frame again
  MaxInFlight,   \* bound: datagrams in the network
  MaxDuplicates  \* bound: datagrams delivered without leaving the network

ASSUME NetworkAssumption ==
  /\ Kinds \subseteq FrameKinds
  /\ Splits \subseteq BOOLEAN
  /\ MaxFrames \in Nat

VARIABLES
  network,       \* datagrams under way, the oldest first
  log,           \* the frames of every datagram sent
  order_index,   \* the client's next order index of each channel
  sequence_index,\* and its next sequence index
  resends, duplicates

networkVars == <<network, log, order_index, sequence_index, resends, duplicates>>
vars == <<sessionVars, networkVars>>

Init ==
  /\ SessionInit
  /\ network = <<>>
  /\ log = <<>>
  /\ order_index = [c \in Channels |-> 0]
  /\ sequence_index = [c \in Channels |-> 0]
  /\ resends = 0
  /\ duplicates = 0

-----------------------------------------------------------------------------
(* The client.                                                             *)
AnyChannel == CHOOSE c \in Channels : TRUE

(* What can be put into a datagram: a channel matters to some kinds only,  *)
(* and it is ordered frames that are large enough to be split.             *)
Offers ==
  {x \in Kinds \X Channels \X Splits :
     /\ x[1] \in WithoutOrder => x[2] = AnyChannel
     /\ x[3] => x[1] = "ordered"}

(* How many of the first n choices are of a kind and on a channel.         *)
Before(choice, n, kind, c) ==
  Cardinality({j \in 1 .. n : choice[j][1] = kind /\ choice[j][2] = c})

FrameOf(choice, i) ==
  LET kind == choice[i][1]
      c == choice[i][2]
  IN  [kind |-> kind,
       ch |-> c,
       idx |-> IF kind \in WithoutOrder THEN Len(log) * MaxFrames + i
               ELSE (order_index[c] + Before(choice, i - 1, "ordered", c)) % IndexMod,
       sqx |-> IF kind # "sequenced" THEN 0
               ELSE (sequence_index[c] + Before(choice, i - 1, kind, c)) % IndexMod,
       split |-> choice[i][3]]

CanSend ==
  /\ pos = 0
  /\ Len(log) < MaxDatagrams
  /\ Len(network) < MaxInFlight

Send(fs) ==
  /\ network' = Append(network, [num |-> Len(log) % NumberMod, frames |-> fs])
  /\ log' = Append(log, fs)

SendNew ==
  /\ CanSend
  /\ \E n \in 1 .. MaxFrames : \E choice \in [1 .. n -> Offers] :
        /\ Send([i \in 1 .. n |-> FrameOf(choice, i)])
        /\ order_index' = [c \in Channels |->
                             order_index[c] + Before(choice, n, "ordered", c)]
        /\ sequence_index' = [c \in Channels |->
                                sequence_index[c] + Before(choice, n, "sequenced", c)]
  /\ UNCHANGED <<sessionVars, resends, duplicates>>

SentFrames == UNION {ToSet(log[i]) : i \in 1 .. Len(log)}

SendAgain ==
  /\ CanSend
  /\ resends < MaxResends
  /\ \E f \in SentFrames : f.kind = "ordered" /\ Send(<<f>>)
  /\ resends' = resends + 1
  /\ UNCHANGED <<sessionVars, order_index, sequence_index, duplicates>>

(* The network.                                                            *)
Deliver ==
  \E i \in 1 .. Len(network) :
     /\ i = 1 \/ MayReorder
     /\ process_packet(network[i].num, network[i].frames)
     /\ \/ /\ network' = RemoveAt(network, i)
           /\ UNCHANGED duplicates
        \/ /\ MayDuplicate
           /\ duplicates < MaxDuplicates
           /\ duplicates' = duplicates + 1
           /\ UNCHANGED network
     /\ UNCHANGED <<log, order_index, sequence_index, resends>>

Lose ==
  /\ MayLose
  /\ pos = 0
  /\ \E i \in 1 .. Len(network) : network' = RemoveAt(network, i)
  /\ UNCHANGED <<sessionVars, log, order_index, sequence_index, resends, duplicates>>

ProcessFrame == process_frame /\ UNCHANGED networkVars

OtherTraffic == ReceiveElsewhere /\ UNCHANGED networkVars

Next ==
  /\ status = "up"
  /\ SendNew \/ SendAgain \/ Deliver \/ Lose \/ ProcessFrame \/ OtherTraffic

Spec == Init /\ [][Next]_vars

(* The network delivers what it does not lose, and the listener's loop     *)
(* runs; nobody has to send.                                               *)
FairSpec == Spec /\ WF_vars(Deliver) /\ WF_vars(ProcessFrame)

-----------------------------------------------------------------------------
(***************************************************************************)
(* Properties.                                                             *)
(***************************************************************************)
TypeOK ==
  /\ next_expected_seq \in 0 .. NumberMod - 1
  /\ missing_packets \subseteq 0 .. NumberMod - 1
  /\ ordered_next \in [Channels -> Nat]
  /\ sequenced_next \in [Channels -> Nat]
  /\ \A k \in DOMAIN oof : /\ oof[k] \in Seq(Frame)
                           /\ oof[k] # <<>>
                           /\ KeyOf(Last(oof[k])) = k
  /\ memory \in Seq(Frame)
  /\ frames \in Seq(Frame)
  /\ pos \in 0 .. Len(frames) /\ (pos = 0 <=> frames = <<>>)
  /\ processed \in Seq(Frame \cup {Garbage})
  /\ accepted \in Seq(0 .. NumberMod - 1)
  /\ status \in {"up", "down"}

(* A datagram number is accepted a second time only while some number      *)
(* below it has not come: a stream without holes is never taken twice,     *)
(* whatever the network repeats.  (The check against next_expected_seq;    *)
(* the numbers have not wrapped.)                                          *)
DuplicateOnlyAboveGap ==
  Len(log) < NumberMod =>
    \A j \in 1 .. Len(accepted) : \A i \in 1 .. j - 1 :
       accepted[i] = accepted[j] =>
          \E m \in 0 .. accepted[j] - 1 : \A k \in 1 .. j - 1 : accepted[k] # m

(* A number is recorded as missing only if, when a higher one came, it or  *)
(* a lower one had not.                                                    *)
MissingAboveGap ==
  Len(log) < NumberMod =>
    \A m \in missing_packets : \E i \in 1 .. Len(accepted) :
       /\ accepted[i] > m
       /\ \E k \in 0 .. m : \A j \in 1 .. i - 1 : accepted[j] # k

(* The frames of one of the 32 channels leave the others alone: their      *)
(* counters, and what is buffered for them, although one map holds the     *)
(* buffered frames of all, under keys that have five bits for the channel. *)
BufferedOn(c) == {k \in DOMAIN oof : k \div KeyBase = c}

ChannelState(c) ==
  <<ordered_next[c], sequenced_next[c], [k \in BufferedOn(c) |-> oof[k]]>>

ChannelIsolation ==
  [][\A c \in Channels :
       (pos = 0 \/ frames[pos].ch # c) => ChannelState(c)' = ChannelState(c)]_vars

(* An ordered frame ends the process only if it was processed before: the  *)
(* first copy of one on any of the 32 channels is harmless, as it never    *)
(* finds its key in use.  (Sequenced frames, which abort a debug build,    *)
(* are left out.)                                                          *)
DownOnlyOnRepeat ==
  [][status' = "down" =>
       \/ frames[pos].kind = "sequenced"
       \/ frames[pos] \in ToSet(processed)]_vars

(* Without repetitions every ordered frame of a datagram that is accepted  *)
(* is processed, in whatever order the datagrams come: none is taken for   *)
(* late, or passed over.  (Numbers and indices have not wrapped.)          *)
NothingRepeated ==
  /\ resends = 0 /\ duplicates = 0
  /\ Len(log) < NumberMod
  /\ \A c \in Channels : order_index[c] <= IndexMod

FirstCopiesAreProcessed ==
  NothingRepeated /\ pos = 0 /\ status = "up" =>
    \A i \in 1 .. Len(accepted) : \A f \in ToSet(log[accepted[i] + 1]) :
       f.kind = "ordered" /\ ~f.split => f \in ToSet(processed)

-----------------------------------------------------------------------------
(* On a network that keeps the order and loses nothing:                    *)

(* The frames of a channel are processed in order and without a hole, with *)
(* frames sent again in between; each of them several times in a row, as   *)
(* the code does it.  The first of them is the first of the channel, so    *)
(* that frames whose indices have wrapped are not processed any more.      *)
IsOrdered(f, c) == f # Garbage /\ f.kind = "ordered" /\ f.ch = c

OrderedInOrder ==
  \A c \in Channels :
     LET places == {i \in 1 .. Len(processed) : IsOrdered(processed[i], c)} IN
     \A j \in places :
        /\ (\A k \in places : j <= k) => processed[j].idx = 0
        /\ \A i \in places :
             i < j /\ (\A k \in places : k <= i \/ j <= k) =>
               processed[j].idx - processed[i].idx \in {0, 1}

(* Frames that are not ordered are processed once.                         *)
PlainOnce ==
  \A i, j \in 1 .. Len(processed) :
     processed[i] = processed[j] /\ processed[i].kind \in WithoutOrder => i = j

(* Nothing is taken for missing or kept aside, and nothing ends the        *)
(* process, also when the datagram numbers wrap.                           *)
Undisturbed == missing_packets = {} /\ oof = <<>> /\ status = "up"

(* Of the frames without order in a datagram, only a tiny one at its end   *)
(* is not processed.                                                       *)
OnlyTinyTailsAreLost ==
  pos = 0 =>
    \A i \in 1 .. Len(accepted) : \A f \in ToSet(log[i]) :
       f.kind \in WithoutOrder /\ f \notin ToSet(processed) =>
          f.kind = "tiny" /\ f = Last(log[i])

(* Every ordered frame the client sends on a channel is processed in the   *)
(* end, until the indices wrap.  (From then on OrderedInOrder says that    *)
(* none is: its index would have to be smaller than the one before.)       *)
EverySentIsProcessed ==
  \A c \in Channels, i \in 0 .. IndexMod - 1 :
     order_index[c] > i ~> (\E f \in ToSet(processed) :
                              f.kind = "ordered" /\ f.ch = c /\ f.idx = i)

-----------------------------------------------------------------------------
(* What the comments of the repository say and the code does not do.       *)

Ordered(c) == SelectSeq(processed, LAMBDA f : IsOrdered(f, c))

(* frame_set.hpp:19-20, ordered packets "wait until the previous packets   *)
(* have arrived before being processed", and lines 26-30, the processing   *)
(* order of ordered packets: 1, 2, 3, 4, 5, each once.                     *)
OrderedAsDocumented ==
  \A c \in Channels :
     \A i \in 1 .. Len(Ordered(c)) : Ordered(c)[i].idx = i - 1

(* server_client.hpp:91, "the next expected order number": every number    *)
(* before it has come.                                                     *)
NothingSkipped ==
  \A c \in Channels : \A m \in 0 .. ordered_next[c] - 1 :
     \E i \in 1 .. Len(Ordered(c)) : Ordered(c)[i].idx = m
=============================================================================
