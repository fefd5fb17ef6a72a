--------------------------- MODULE SendPathProofs ---------------------------
(***************************************************************************)
(* Theorems about SendPath, for any clients, pool and width of the indices *)
(* of reliable frames.                                                     *)
(*                                                                         *)
(* BuffersPartitioned and UnackedIntact need each other: a buffer that is  *)
(* rented is written to, so the frames under way are intact because it is  *)
(* free and theirs are not.  HandsInv adds what the listener holds at each *)
(* point, so that what an iteration or a reply gives back is a buffer, and *)
(* that the client being answered has a session.                           *)
(*                                                                         *)
(* At the end: SendPath implements ReliableReplies.                        *)
(***************************************************************************)
EXTENDS SendPath, SequenceTheorems, FiniteSetTheorems, TLAPS

HandsInv ==
  /\ pc = "receive" => raw_data = NoBuffer /\ send_buffer = NoBuffer
  /\ pc \in {"route", "payload", "reply"} =>
       raw_data \in Buffers /\ send_buffer = NoBuffer
  /\ pc \in {"frame", "send"} => raw_data \in Buffers /\ send_buffer \in Buffers
  /\ pc \in {"payload", "reply", "frame", "send"} => client \in connected
  /\ pc \in {"reply", "frame", "send"} => todo # <<>>

SendInv == TypeOK /\ HandsInv /\ BuffersPartitioned /\ UnackedIntact

LEMMA ModuloRange ==
  ASSUME NEW x \in Nat, NEW n \in Nat \ {0} PROVE x % n \in 0 .. n - 1
  OBVIOUS

LEMMA IndexFacts == 0 \in Indices /\ \A i \in Indices : (i + 1) % IndexMod \in Indices
<1>0. IndexMod \in Nat \ {0}
  BY SendPathAssumption
<1>1. 0 \in Indices
  BY <1>0 DEF Indices
<1>2. ASSUME NEW i \in Indices PROVE (i + 1) % IndexMod \in Indices
  <2>1. i + 1 \in Nat
    BY <1>0 DEF Indices
  <2> QED
    BY <2>1, <1>0, ModuloRange DEF Indices
<1> QED
  BY <1>1, <1>2

LEMMA SendInitially == Init => SendInv
<1> SUFFICES ASSUME Init PROVE SendInv
  OBVIOUS
<1> USE SendPathAssumption DEF Init
<1>1. TypeOK
  BY IndexFacts DEF TypeOK, Contents, Other, ReliableFrame, NoEntries
<1>2. HandsInv
  BY DEF HandsInv
<1>3. \A c \in Clients, i \in Indices : ack_buffer[c][i] = NoBuffer
  BY DEF NoEntries
<1>4. Apart /\ EntriesApart /\ NoneLeaked
  <2>1. NoBuffer \notin Buffers
    BY SendPathAssumption
  <2> QED
    BY <1>3, <2>1 DEF Apart, EntriesApart, NoneLeaked
<1>5. UnackedIntact
  BY <1>3 DEF UnackedIntact
<1> QED
  BY <1>1, <1>2, <1>4, <1>5 DEF SendInv, BuffersPartitioned

-----------------------------------------------------------------------------
(* Renting: a free buffer goes into a hand of the listener that was empty. *)
LEMMA RentStep ==
  ASSUME SendInv, RentToReceive \/ RentForBody
  PROVE  SendInv'
<1>0. TypeOK /\ HandsInv /\ Apart /\ EntriesApart /\ NoneLeaked /\ UnackedIntact
  BY DEF SendInv, BuffersPartitioned
<1>1. PICK x \in free :
        /\ free' = free \ {x}
        /\ contents' = [contents EXCEPT ![x] = Other]
        /\ \/ raw_data = NoBuffer /\ raw_data' = x /\ UNCHANGED send_buffer
           \/ send_buffer = NoBuffer /\ send_buffer' = x /\ UNCHANGED raw_data
  BY <1>0 DEF RentToReceive, RentForBody, HandsInv
<1>2. x \in Buffers /\ x # NoBuffer
  BY <1>0, SendPathAssumption DEF TypeOK
<1>3. UNCHANGED <<todo, client, sessionVars>>
  BY DEF RentToReceive, RentForBody
<1>4. TypeOK'
  BY <1>0, <1>1, <1>2, <1>3, IndexFacts
     DEF TypeOK, Contents, Other, ReliableFrame, sessionVars, RentToReceive, RentForBody
<1>5. HandsInv'
  BY <1>0, <1>1, <1>2, <1>3 DEF HandsInv, sessionVars, RentToReceive, RentForBody
<1>6. Apart'
  BY <1>0, <1>1, <1>2 DEF Apart
<1>7. EntriesApart'
  BY <1>0, <1>1, <1>2, <1>3 DEF EntriesApart, sessionVars
<1>8. NoneLeaked'
  <2> SUFFICES ASSUME NEW y \in Buffers, y \notin free', y # raw_data', y # send_buffer'
               PROVE  \E c \in Clients, i \in Indices : ack_buffer'[c][i] = y
    BY DEF NoneLeaked
  <2>1. y # x /\ y \notin free
    BY <1>1
  <2>2. y # raw_data /\ y # send_buffer
    BY <1>1, SendPathAssumption
  <2>3. \E c \in Clients, i \in Indices : ack_buffer[c][i] = y
    BY <2>1, <2>2, <1>0 DEF NoneLeaked
  <2> QED
    BY <2>3, <1>3 DEF sessionVars
<1>9. UnackedIntact'
  <2> SUFFICES ASSUME NEW c \in Clients, NEW i \in Indices, ack_buffer[c][i] # NoBuffer
               PROVE  contents'[ack_buffer[c][i]] = ReliableFrame(c, i)
    BY <1>3 DEF UnackedIntact, sessionVars
  <2>1. ack_buffer[c][i] # x
    BY <1>0 DEF EntriesApart
  <2> QED
    BY <2>1, <1>0, <1>1 DEF UnackedIntact, TypeOK
<1> QED
  BY <1>4, <1>5, <1>6, <1>7, <1>8, <1>9 DEF SendInv, BuffersPartitioned

(* Giving back: the entries in `gone' are erased, hands may be emptied, and *)
(* what was held there, nothing else, becomes free.                        *)
LEMMA GiveBack ==
  ASSUME SendInv,
         NEW gone \in SUBSET (Clients \X Indices),
         \A d \in Clients, i \in Indices :
           ack_buffer'[d][i] = IF <<d, i>> \in gone THEN NoBuffer ELSE ack_buffer[d][i],
         \A d \in Clients, i \in Indices :
           ack_buffer'[d][i] # NoBuffer => d \in connected',
         raw_data' \in {raw_data, NoBuffer},
         send_buffer' \in {send_buffer, NoBuffer},
         \A x \in Buffers :
           x \in free' <=> \/ x \in free
                           \/ x = raw_data /\ raw_data' = NoBuffer
                           \/ x = send_buffer /\ send_buffer' = NoBuffer
                           \/ \E d \in Clients, i \in Indices :
                                <<d, i>> \in gone /\ x = ack_buffer[d][i],
         free' \subseteq Buffers,
         UNCHANGED contents
  PROVE  BuffersPartitioned' /\ UnackedIntact'
<1>0. TypeOK /\ Apart /\ EntriesApart /\ NoneLeaked /\ UnackedIntact
  BY DEF SendInv, BuffersPartitioned
<1>1. raw_data \in Buffers \cup {NoBuffer} /\ send_buffer \in Buffers \cup {NoBuffer}
  BY <1>0 DEF TypeOK
<1>2. \A d \in Clients, i \in Indices : ack_buffer[d][i] \in Buffers \cup {NoBuffer}
  BY <1>0 DEF TypeOK
<1>3. NoBuffer \notin Buffers
  BY SendPathAssumption
<1>4. Apart'
  <2>1. raw_data' # NoBuffer => raw_data' \notin free'
    <3> SUFFICES ASSUME raw_data' # NoBuffer, raw_data' \in free' PROVE FALSE
      OBVIOUS
    <3>1. raw_data' = raw_data /\ raw_data \in Buffers
      BY <1>1
    <3>2. \A d \in Clients, i \in Indices : raw_data # ack_buffer[d][i]
      BY <1>0, <1>3, <3>1 DEF EntriesApart
    <3>3. raw_data # send_buffer /\ raw_data \notin free
      BY <3>1, <1>0, <1>3 DEF Apart
    <3>4. \/ raw_data \in free
          \/ raw_data = send_buffer
          \/ \E d \in Clients, i \in Indices : raw_data = ack_buffer[d][i]
      BY <3>1
    <3> QED
      BY <3>2, <3>3, <3>4
  <2>2. send_buffer' # NoBuffer => send_buffer' \notin free'
    <3> SUFFICES ASSUME send_buffer' # NoBuffer, send_buffer' \in free' PROVE FALSE
      OBVIOUS
    <3>1. send_buffer' = send_buffer /\ send_buffer \in Buffers
      BY <1>1
    <3>2. \A d \in Clients, i \in Indices : send_buffer # ack_buffer[d][i]
      BY <1>0, <1>3, <3>1 DEF EntriesApart
    <3>3. send_buffer # raw_data /\ send_buffer \notin free
      BY <3>1, <1>0, <1>3 DEF Apart
    <3>4. \/ send_buffer \in free
          \/ send_buffer = raw_data
          \/ \E d \in Clients, i \in Indices : send_buffer = ack_buffer[d][i]
      BY <3>1
    <3> QED
      BY <3>2, <3>3, <3>4
  <2>3. NoBuffer \notin free'
    BY <1>3
  <2>4. raw_data' = send_buffer' => raw_data' = NoBuffer
    BY <1>0 DEF Apart
  <2> QED
    BY <2>1, <2>2, <2>3, <2>4 DEF Apart
<1>5. EntriesApart'
  <2> SUFFICES ASSUME NEW c \in Clients, NEW i \in Indices, ack_buffer'[c][i] # NoBuffer
               PROVE  /\ c \in connected'
                      /\ ack_buffer'[c][i] \notin free'
                      /\ ack_buffer'[c][i] # raw_data'
                      /\ ack_buffer'[c][i] # send_buffer'
                      /\ \A d \in Clients, j \in Indices :
                           ack_buffer'[d][j] = ack_buffer'[c][i] => d = c /\ j = i
    BY DEF EntriesApart
  <2> DEFINE x == ack_buffer[c][i]
  <2>1. ack_buffer'[c][i] = x /\ <<c, i>> \notin gone /\ x \in Buffers /\ x # NoBuffer
    BY <1>2
  <2>2. /\ x \notin free /\ x # raw_data /\ x # send_buffer
        /\ \A d \in Clients, j \in Indices : ack_buffer[d][j] = x => d = c /\ j = i
    BY <2>1, <1>0 DEF EntriesApart
  <2> HIDE DEF x
  <2>3. ASSUME NEW d \in Clients, NEW j \in Indices, ack_buffer'[d][j] = x
        PROVE  d = c /\ j = i
    <3>1. ack_buffer[d][j] = x
      BY <2>1, <2>3
    <3> QED
      BY <3>1, <2>2
  <2>4. ASSUME x \in free' PROVE FALSE
    <3>1. PICK d \in Clients, j \in Indices : <<d, j>> \in gone /\ x = ack_buffer[d][j]
      BY <2>1, <2>2, <2>4
    <3>2. d = c /\ j = i
      BY <3>1, <2>2
    <3> QED
      BY <3>1, <3>2, <2>1
  <2> QED
    BY <2>1, <2>2, <2>3, <2>4
<1>6. NoneLeaked'
  <2> SUFFICES ASSUME NEW x \in Buffers, x \notin free', x # raw_data', x # send_buffer'
               PROVE  \E c \in Clients, i \in Indices : ack_buffer'[c][i] = x
    BY DEF NoneLeaked
  <2>1. x \notin free /\ x # raw_data /\ x # send_buffer
    OBVIOUS
  <2>2. PICK c \in Clients, i \in Indices : ack_buffer[c][i] = x
    BY <2>1, <1>0 DEF NoneLeaked
  <2>3. <<c, i>> \notin gone
    BY <2>2
  <2> QED
    BY <2>2, <2>3
<1>7. UnackedIntact'
  <2> SUFFICES ASSUME NEW c \in Clients, NEW i \in Indices, ack_buffer'[c][i] # NoBuffer
               PROVE  contents[ack_buffer'[c][i]] = ReliableFrame(c, i)
    BY DEF UnackedIntact
  <2>1. ack_buffer'[c][i] = ack_buffer[c][i]
    OBVIOUS
  <2> QED
    BY <2>1, <1>0 DEF UnackedIntact
<1> QED
  BY <1>4, <1>5, <1>6, <1>7 DEF BuffersPartitioned

(* A reliable frame goes into a buffer nobody has, and the buffer to the   *)
(* entry of the session, unless there is one with that index.              *)
LEMMA ReadyReliableStep ==
  ASSUME SendInv, ready_reliable
  PROVE  SendInv'
<1>0. TypeOK /\ HandsInv /\ Apart /\ EntriesApart /\ NoneLeaked /\ UnackedIntact
  BY DEF SendInv, BuffersPartitioned
<1> DEFINE i == next_index[client]
<1>1. client \in connected /\ client \in Clients /\ i \in Indices
  BY <1>0 DEF ready_reliable, HandsInv, TypeOK
<1>2. PICK x \in free :
        /\ contents' = [contents EXCEPT ![x] = ReliableFrame(client, i)]
        /\ \/ /\ ack_buffer[client][i] = NoBuffer
              /\ ack_buffer' = [ack_buffer EXCEPT ![client][i] = x]
              /\ free' = free \ {x}
           \/ /\ ack_buffer[client][i] # NoBuffer
              /\ UNCHANGED <<ack_buffer, free>>
  BY DEF ready_reliable
<1>3. x \in Buffers /\ x # NoBuffer /\ NoBuffer \notin Buffers
  BY <1>0, SendPathAssumption DEF TypeOK
<1>4. UNCHANGED <<raw_data, send_buffer, todo, client, connected>>
  BY DEF ready_reliable
<1>5. x # raw_data /\ x # send_buffer
  BY <1>0 DEF Apart
<1>6. \A d \in Clients, j \in Indices : ack_buffer[d][j] # x
  BY <1>0, <1>3 DEF EntriesApart
<1>7. next_index' \in [Clients -> Indices] /\ pc' = "send" /\ pc = "frame"
  BY <1>0, <1>1, IndexFacts DEF ready_reliable, TypeOK
<1>8. HandsInv'
  BY <1>0, <1>4, <1>7 DEF HandsInv
<1> HIDE DEF i
<1>9. contents' \in [Buffers -> Contents]
  BY <1>0, <1>1, <1>2, <1>3 DEF TypeOK, Contents, ReliableFrame
<1>10. CASE /\ ack_buffer[client][i] = NoBuffer
            /\ ack_buffer' = [ack_buffer EXCEPT ![client][i] = x]
            /\ free' = free \ {x}
  <2>1. \A d \in Clients, j \in Indices :
          ack_buffer'[d][j] = IF d = client /\ j = i THEN x ELSE ack_buffer[d][j]
    BY <1>0, <1>1, <1>10 DEF TypeOK
  <2>2. TypeOK'
    <3>1. ack_buffer' \in [Clients -> [Indices -> Buffers \cup {NoBuffer}]]
      BY <1>0, <1>1, <1>3, <1>10 DEF TypeOK
    <3> QED
      BY <3>1, <1>0, <1>4, <1>7, <1>9, <1>10 DEF TypeOK
  <2>3. Apart'
    BY <1>0, <1>4, <1>10 DEF Apart
  <2>4. EntriesApart'
    <3> SUFFICES ASSUME NEW c \in Clients, NEW k \in Indices, ack_buffer'[c][k] # NoBuffer
                 PROVE  /\ c \in connected
                        /\ ack_buffer'[c][k] \notin free'
                        /\ ack_buffer'[c][k] # raw_data
                        /\ ack_buffer'[c][k] # send_buffer
                        /\ \A d \in Clients, j \in Indices :
                             ack_buffer'[d][j] = ack_buffer'[c][k] => d = c /\ j = k
      BY <1>4 DEF EntriesApart
    <3>1. CASE c = client /\ k = i
      <4>1. ack_buffer'[c][k] = x
        BY <2>1, <3>1
      <4>2. \A d \in Clients, j \in Indices : ack_buffer'[d][j] = x => d = c /\ j = k
        BY <2>1, <3>1, <1>6
      <4> QED
        BY <4>1, <4>2, <3>1, <1>1, <1>5, <1>10
    <3>2. CASE ~(c = client /\ k = i)
      <4>1. ack_buffer'[c][k] = ack_buffer[c][k] /\ ack_buffer[c][k] # x
        BY <2>1, <3>2, <1>6
      <4>2. /\ c \in connected
            /\ ack_buffer[c][k] \notin free
            /\ ack_buffer[c][k] # raw_data
            /\ ack_buffer[c][k] # send_buffer
            /\ \A d \in Clients, j \in Indices :
                 ack_buffer[d][j] = ack_buffer[c][k] => d = c /\ j = k
        BY <4>1, <1>0 DEF EntriesApart
      <4>3. \A d \in Clients, j \in Indices :
              ack_buffer'[d][j] = ack_buffer[c][k] => d = c /\ j = k
        BY <4>1, <4>2, <2>1
      <4> QED
        BY <4>1, <4>2, <4>3, <1>10
    <3> QED
      BY <3>1, <3>2
  <2>5. NoneLeaked'
    <3> SUFFICES ASSUME NEW y \in Buffers, y \notin free', y # raw_data, y # send_buffer
                 PROVE  \E c \in Clients, k \in Indices : ack_buffer'[c][k] = y
      BY <1>4 DEF NoneLeaked
    <3>1. CASE y = x
      BY <3>1, <2>1, <1>1
    <3>2. CASE y # x
      <4>1. PICK c \in Clients, k \in Indices : ack_buffer[c][k] = y
        BY <3>2, <1>0, <1>10 DEF NoneLeaked
      <4>2. ~(c = client /\ k = i)
        BY <4>1, <1>3, <1>10
      <4> QED
        BY <4>1, <4>2, <2>1
    <3> QED
      BY <3>1, <3>2
  <2>6. UnackedIntact'
    <3> SUFFICES ASSUME NEW c \in Clients, NEW k \in Indices, ack_buffer'[c][k] # NoBuffer
                 PROVE  contents'[ack_buffer'[c][k]] = ReliableFrame(c, k)
      BY DEF UnackedIntact
    <3>1. CASE c = client /\ k = i
      BY <3>1, <2>1, <1>0, <1>2, <1>3 DEF TypeOK
    <3>2. CASE ~(c = client /\ k = i)
      <4>1. ack_buffer'[c][k] = ack_buffer[c][k] /\ ack_buffer[c][k] # x
        BY <2>1, <3>2, <1>6
      <4>2. contents[ack_buffer[c][k]] = ReliableFrame(c, k)
        BY <4>1, <1>0 DEF UnackedIntact
      <4>3. ack_buffer[c][k] \in Buffers
        BY <4>1, <1>0 DEF TypeOK
      <4> QED
        BY <4>1, <4>2, <4>3, <1>0, <1>2 DEF TypeOK
    <3> QED
      BY <3>1, <3>2
  <2> QED
    BY <2>2, <2>3, <2>4, <2>5, <2>6, <1>8 DEF SendInv, BuffersPartitioned
<1>11. CASE UNCHANGED <<ack_buffer, free>>
  <2>1. TypeOK'
    BY <1>0, <1>4, <1>7, <1>9, <1>11 DEF TypeOK
  <2>2. Apart' /\ EntriesApart' /\ NoneLeaked'
    BY <1>0, <1>4, <1>11 DEF Apart, EntriesApart, NoneLeaked
  <2>3. UnackedIntact'
    <3> SUFFICES ASSUME NEW c \in Clients, NEW k \in Indices, ack_buffer[c][k] # NoBuffer
                 PROVE  contents'[ack_buffer[c][k]] = ReliableFrame(c, k)
      BY <1>11 DEF UnackedIntact
    <3>1. ack_buffer[c][k] \in Buffers /\ ack_buffer[c][k] # x
      BY <1>0, <1>6 DEF TypeOK
    <3> QED
      BY <3>1, <1>0, <1>2 DEF TypeOK, UnackedIntact
  <2> QED
    BY <2>1, <2>2, <2>3, <1>8 DEF SendInv, BuffersPartitioned
<1> QED
  BY <1>2, <1>10, <1>11

(* The frame of another reply is written to a buffer that stays free.      *)
LEMMA ReadyUnreliableStep ==
  ASSUME SendInv, ready_unreliable
  PROVE  SendInv'
<1>0. TypeOK /\ HandsInv /\ Apart /\ EntriesApart /\ NoneLeaked /\ UnackedIntact
  BY DEF SendInv, BuffersPartitioned
<1>1. PICK x \in free : contents' = [contents EXCEPT ![x] = Other]
  BY DEF ready_unreliable
<1>2. UNCHANGED <<free, raw_data, send_buffer, todo, client, sessionVars>>
  BY DEF ready_unreliable
<1>3. TypeOK'
  BY <1>0, <1>1, <1>2, IndexFacts
     DEF TypeOK, Contents, Other, ReliableFrame, sessionVars, ready_unreliable
<1>4. HandsInv'
  BY <1>0, <1>2 DEF HandsInv, sessionVars, ready_unreliable
<1>5. Apart' /\ EntriesApart' /\ NoneLeaked'
  BY <1>0, <1>2 DEF Apart, EntriesApart, NoneLeaked, sessionVars
<1>6. UnackedIntact'
  <2> SUFFICES ASSUME NEW c \in Clients, NEW i \in Indices, ack_buffer[c][i] # NoBuffer
               PROVE  contents'[ack_buffer[c][i]] = ReliableFrame(c, i)
    BY <1>2 DEF UnackedIntact, sessionVars
  <2>1. ack_buffer[c][i] # x
    BY <1>0 DEF EntriesApart
  <2> QED
    BY <2>1, <1>0, <1>1 DEF UnackedIntact, TypeOK
<1> QED
  BY <1>3, <1>4, <1>5, <1>6 DEF SendInv, BuffersPartitioned

(* The steps that give back no more than what is in the listener's hands.  *)
LEMMA HandsStep ==
  ASSUME SendInv,
         \/ ReceiveNothing
         \/ \E c \in Clients : Connect(c)
         \/ NextPayload /\ todo = <<>>
         \/ send_to
  PROVE  SendInv'
<1>0. TypeOK /\ HandsInv /\ Apart /\ EntriesApart /\ NoneLeaked /\ UnackedIntact
  BY DEF SendInv, BuffersPartitioned
<1>1. NoBuffer \notin Buffers
  BY SendPathAssumption
<1>2. UNCHANGED <<contents, ack_buffer, client>> /\ connected \subseteq connected'
  BY DEF ReceiveNothing, Connect, NextPayload, send_to, sessionVars, poolVars
<1>3. \/ /\ raw_data \in Buffers
         /\ free' = free \cup {raw_data}
         /\ raw_data' = NoBuffer
         /\ send_buffer = NoBuffer
         /\ send_buffer' = NoBuffer
      \/ /\ send_buffer \in Buffers
         /\ free' = free \cup {send_buffer}
         /\ raw_data \in Buffers
         /\ raw_data' = raw_data
         /\ send_buffer' = NoBuffer
  BY <1>0 DEF HandsInv, ReceiveNothing, Connect, NextPayload, NextIteration, send_to,
     sessionVars
<1>4. TypeOK'
  <2>1. connected' \subseteq Clients /\ next_index' \in [Clients -> Indices]
    BY <1>0, IndexFacts
       DEF TypeOK, ReceiveNothing, Connect, NextPayload, send_to, sessionVars
  <2>2. todo' \in Seq(Payloads)
    <3>1. todo' = todo \/ (todo # <<>> /\ todo' = Tail(todo))
      BY <1>0 DEF HandsInv, ReceiveNothing, Connect, NextPayload, send_to
    <3>2. todo \in Seq(Payloads)
      BY <1>0 DEF TypeOK
    <3> QED
      BY <3>1, <3>2, HeadTailProperties
  <2>3. pc' \in {"receive", "payload"}
    BY DEF ReceiveNothing, Connect, NextPayload, NextIteration, send_to
  <2> QED
    BY <1>0, <1>2, <1>3, <2>1, <2>2, <2>3 DEF TypeOK
<1>5. HandsInv'
  BY <1>0, <1>2, <1>3
     DEF HandsInv, ReceiveNothing, Connect, NextPayload, NextIteration, send_to, sessionVars
<1>6. BuffersPartitioned' /\ UnackedIntact'
  <2>1. \A d \in Clients, i \in Indices :
          ack_buffer'[d][i] = IF <<d, i>> \in {} THEN NoBuffer ELSE ack_buffer[d][i]
    BY <1>2
  <2>2. \A d \in Clients, i \in Indices : ack_buffer'[d][i] # NoBuffer => d \in connected'
    BY <1>0, <1>2 DEF EntriesApart
  <2>3. free' \subseteq Buffers
    BY <1>0, <1>3 DEF TypeOK
  <2>4. raw_data' \in {raw_data, NoBuffer} /\ send_buffer' \in {send_buffer, NoBuffer}
    BY <1>3
  <2>5. \A x \in Buffers :
          x \in free' <=> \/ x \in free
                          \/ x = raw_data /\ raw_data' = NoBuffer
                          \/ x = send_buffer /\ send_buffer' = NoBuffer
                          \/ \E d \in Clients, i \in Indices :
                               <<d, i>> \in {} /\ x = ack_buffer[d][i]
    BY <1>1, <1>3
  <2>6. {} \in SUBSET (Clients \X Indices)
    OBVIOUS
  <2> QED
    BY <1>2, <2>1, <2>2, <2>3, <2>4, <2>5, <2>6, GiveBack
<1> QED
  BY <1>4, <1>5, <1>6 DEF SendInv

(* The steps that erase entries of a session, one or all of them.          *)
LEMMA EntriesStep ==
  ASSUME SendInv, NEW c \in Clients, Forget(c) \/ process_ack(c) \/ AckSpins(c)
  PROVE  SendInv'
<1>0. TypeOK /\ HandsInv /\ Apart /\ EntriesApart /\ NoneLeaked /\ UnackedIntact
  BY DEF SendInv, BuffersPartitioned
<1>1. NoBuffer \notin Buffers
  BY SendPathAssumption
<1>2. UNCHANGED <<contents, send_buffer, todo, client, next_index>>
  BY DEF Forget, process_ack, AckSpins
<1>3. raw_data \in Buffers /\ send_buffer = NoBuffer /\ c \in connected
  BY <1>0 DEF HandsInv, Forget, process_ack, AckSpins
<1>4. PICK ids \in SUBSET Indices :
        /\ Erase(c, ids)
        /\ \/ free' = free \cup {raw_data} \cup ({ack_buffer[c][i] : i \in ids} \ {NoBuffer})
              /\ raw_data' = NoBuffer
              /\ pc' = "receive"
           \/ free' = free \cup ({ack_buffer[c][i] : i \in ids} \ {NoBuffer})
              /\ raw_data' = raw_data
              /\ pc' = "spinning"
        /\ \/ connected' = connected
           \/ connected' = connected \ {c} /\ ids = Indices
  <2>1. CASE Forget(c)
    <3>1. Erase(c, Indices)
      BY <2>1, <1>0 DEF Forget, Erase, NoEntries, TypeOK
    <3> QED
      BY <2>1, <3>1 DEF Forget, NextIteration, Kept
  <2>2. CASE process_ack(c)
    <3>1. PICK ids \in SUBSET Indices :
            Erase(c, ids) /\ NextIteration({ack_buffer[c][i] : i \in ids} \ {NoBuffer})
      <4>1. \A count \in AckCounts : NamedBy(count) \subseteq SUBSET Indices
        BY DEF NamedBy
      <4> QED
        BY <2>2, <4>1 DEF process_ack
    <3>2. connected' = connected
      BY <2>2 DEF process_ack
    <3> QED
      BY <3>1, <3>2 DEF NextIteration
  <2>3. CASE AckSpins(c)
    BY <2>3 DEF AckSpins, Kept
  <2> QED
    BY <2>1, <2>2, <2>3
<1> DEFINE gone == {c} \X ids
<1>5. \A d \in Clients, i \in Indices :
        ack_buffer'[d][i] = IF <<d, i>> \in gone THEN NoBuffer ELSE ack_buffer[d][i]
  BY <1>0, <1>4 DEF Erase, TypeOK
<1>6. TypeOK'
  <2>1. ack_buffer' \in [Clients -> [Indices -> Buffers \cup {NoBuffer}]]
    BY <1>0, <1>4 DEF Erase, TypeOK
  <2>2. \A i \in ids : ack_buffer[c][i] \in Buffers \cup {NoBuffer}
    BY <1>0, <1>4 DEF TypeOK
  <2>3. free' \subseteq Buffers
    BY <1>0, <1>3, <1>4, <2>2 DEF TypeOK
  <2> QED
    BY <1>0, <1>2, <1>3, <1>4, <2>1, <2>3 DEF TypeOK
<1>7. HandsInv'
  BY <1>2, <1>3, <1>4 DEF HandsInv
<1>8. BuffersPartitioned' /\ UnackedIntact'
  <2>1. gone \in SUBSET (Clients \X Indices)
    BY <1>4
  <2>2. ASSUME NEW d \in Clients, NEW i \in Indices, ack_buffer'[d][i] # NoBuffer
        PROVE  d \in connected'
    <3>1. <<d, i>> \notin gone /\ ack_buffer[d][i] # NoBuffer
      BY <1>5, <2>2
    <3>2. d \in connected
      BY <3>1, <1>0 DEF EntriesApart
    <3> QED
      BY <3>1, <3>2, <1>4
  <2>3. raw_data' \in {raw_data, NoBuffer} /\ send_buffer' \in {send_buffer, NoBuffer}
    BY <1>2, <1>3, <1>4
  <2>4. ASSUME NEW x \in Buffers
        PROVE  x \in free' <=> \/ x \in free
                               \/ x = raw_data /\ raw_data' = NoBuffer
                               \/ x = send_buffer /\ send_buffer' = NoBuffer
                               \/ \E d \in Clients, i \in Indices :
                                    <<d, i>> \in gone /\ x = ack_buffer[d][i]
    <3>1. (\E i \in ids : x = ack_buffer[c][i])
            <=> \E d \in Clients, i \in Indices : <<d, i>> \in gone /\ x = ack_buffer[d][i]
      BY <1>4
    <3> QED
      BY <3>1, <1>1, <1>3, <1>4
  <2>5. free' \subseteq Buffers
    BY <1>6 DEF TypeOK
  <2> HIDE DEF gone
  <2> QED
    BY <1>2, <1>5, <2>1, <2>2, <2>3, <2>4, <2>5, GiveBack
<1> QED
  BY <1>6, <1>7, <1>8 DEF SendInv

(* The steps that touch no buffer.                                         *)
LEMMA QuietStep ==
  ASSUME SendInv,
         \/ \E c \in Clients : ReceivePayloads(c) \/ AckTerminates(c)
         \/ NextPayload /\ todo # <<>>
         \/ SocketError
         \/ UNCHANGED vars
  PROVE  SendInv'
<1>0. TypeOK /\ HandsInv /\ BuffersPartitioned /\ UnackedIntact
  BY DEF SendInv
<1>1. UNCHANGED <<free, contents, raw_data, send_buffer, connected, next_index, ack_buffer>>
  BY DEF ReceivePayloads, AckTerminates, SocketError, NextPayload, NextIteration, vars, poolVars,
     sessionVars
<1>2. TypeOK'
  <2>1. client' \in Clients \cup {NoClient}
    BY <1>0 DEF TypeOK, ReceivePayloads, AckTerminates, SocketError, NextPayload, vars
  <2>2. todo' \in Seq(Payloads)
    <3>1. \/ todo' = todo
          \/ todo # <<>> /\ todo' = Tail(todo)
          \/ \E n \in 0 .. MaxPayloads : todo' \in [1 .. n -> Payloads]
      BY DEF ReceivePayloads, AckTerminates, SocketError, NextPayload, vars
    <3>2. todo \in Seq(Payloads)
      BY <1>0 DEF TypeOK
    <3>3. CASE todo # <<>> /\ todo' = Tail(todo)
      BY <3>2, <3>3, HeadTailProperties
    <3>4. CASE \E n \in 0 .. MaxPayloads : todo' \in [1 .. n -> Payloads]
      <4>1. PICK n \in 0 .. MaxPayloads : todo' \in [1 .. n -> Payloads]
        BY <3>4
      <4>2. n \in Nat
        BY SendPathAssumption
      <4> QED
        BY <4>1, <4>2
    <3> QED
      BY <3>1, <3>2, <3>3, <3>4
  <2>3. pc' \in {pc, "payload", "reply", "down"}
    BY DEF ReceivePayloads, AckTerminates, SocketError, NextPayload, vars
  <2> QED
    BY <1>0, <1>1, <2>1, <2>2, <2>3 DEF TypeOK
<1>3. HandsInv'
  BY <1>0, <1>1 DEF HandsInv, ReceivePayloads, AckTerminates, SocketError, NextPayload, vars
<1>4. BuffersPartitioned' /\ UnackedIntact'
  BY <1>0, <1>1
     DEF BuffersPartitioned, Apart, EntriesApart, NoneLeaked, UnackedIntact
<1> QED
  BY <1>2, <1>3, <1>4 DEF SendInv

-----------------------------------------------------------------------------
(* HandsInv, and what is proved below from it, hold in every state.        *)
THEOREM SendInvariant == Spec => []SendInv
<1>1. ASSUME SendInv, [Next]_vars PROVE SendInv'
  <2>1. CASE RentToReceive \/ RentForBody
    BY <1>1, <2>1, RentStep
  <2>2. CASE ReceiveNothing \/ send_to \/ \E c \in Clients : Connect(c)
    BY <1>1, <2>2, HandsStep
  <2>3. CASE NextPayload
    BY <1>1, <2>3, HandsStep, QuietStep
  <2>4. ASSUME NEW c \in Clients, Forget(c) \/ process_ack(c) \/ AckSpins(c)
        PROVE  SendInv'
    BY <1>1, <2>4, EntriesStep
  <2>5. CASE SocketError \/ UNCHANGED vars \/ \E c \in Clients : ReceivePayloads(c) \/ AckTerminates(c)
    BY <1>1, <2>5, QuietStep
  <2>6. CASE ready_reliable
    BY <1>1, <2>6, ReadyReliableStep
  <2>7. CASE ready_unreliable
    BY <1>1, <2>7, ReadyUnreliableStep
  <2> QED
    BY <1>1, <2>1, <2>2, <2>3, <2>4, <2>5, <2>6, <2>7 DEF Next, Answer
<1> QED
  BY <1>1, SendInitially, PTL DEF Spec

(* Type correctness of the listener, the pool and the sessions.            *)
THEOREM SendTypes == Spec => []TypeOK
<1>1. SendInv => TypeOK
  BY DEF SendInv
<1> QED
  BY <1>1, SendInvariant, PTL

(* No reply, ACK, timeout or end of a session loses a buffer of the pool,  *)
(* or gives it to two users.                                               *)
THEOREM BuffersStayPartitioned == Spec => []BuffersPartitioned
<1>1. SendInv => BuffersPartitioned
  BY DEF SendInv
<1> QED
  BY <1>1, SendInvariant, PTL

(* What a session keeps for its client stays as it was sent.               *)
THEOREM UnackedStaysIntact == Spec => []UnackedIntact
<1>1. SendInv => UnackedIntact
  BY DEF SendInv
<1> QED
  BY <1>1, SendInvariant, PTL

(* OnlyUnackedFillThePool counts: with none free, every buffer but the two *)
(* in the listener's hands is the image of an entry.                       *)
LEMMA UnackedFillThePool ==
  ASSUME SendInv
  PROVE  OnlyUnackedFillThePool
<1>. SUFFICES ASSUME free = {}
              PROVE  Cardinality({e \in Clients \X Indices :
                                    ack_buffer[e[1]][e[2]] # NoBuffer})
                       >= Cardinality(Buffers) - 2
  BY DEF OnlyUnackedFillThePool
<1>. DEFINE Entries == {e \in Clients \X Indices : ack_buffer[e[1]][e[2]] # NoBuffer}
            Buffer == [e \in Entries |-> ack_buffer[e[1]][e[2]]]
            Used == {Buffer[e] : e \in Entries}
<1>1. Used \subseteq Buffers /\ Buffer \in [Entries -> Buffers]
  <2>1. \A e \in Clients \X Indices : ack_buffer[e[1]][e[2]] \in Buffers \cup {NoBuffer}
    BY DEF SendInv, TypeOK
  <2>2. \A e \in Entries : Buffer[e] \in Buffers
    BY <2>1
  <2>. QED  BY <2>2
<1>2. \A d, e \in Entries : Buffer[d] = Buffer[e] => d = e
  BY DEF SendInv, BuffersPartitioned, EntriesApart
<1>3. Buffers \subseteq (Used \cup {raw_data}) \cup {send_buffer}
  <2>1. ASSUME NEW c \in Clients, NEW i \in Indices, ack_buffer[c][i] # NoBuffer
        PROVE  ack_buffer[c][i] \in Used
    <3>1. <<c, i>> \in Entries
      BY <2>1
    <3>. QED  BY <3>1
  <2>2. NoBuffer \notin Buffers
    BY SendPathAssumption
  <2>. HIDE DEF Used
  <2>. QED  BY <2>1, <2>2 DEF SendInv, BuffersPartitioned, NoneLeaked
<1>. HIDE DEF Entries, Buffer
<1>4. IsFiniteSet(Entries)
  BY <1>1, <1>2, PoolAssumption, FS_Injection DEF Injection, IsInjective
<1>5. Buffer \in Surjection(Entries, Used)
  BY <1>1 DEF Surjection
<1>6. IsFiniteSet(Used) /\ Cardinality(Used) <= Cardinality(Entries)
  BY <1>4, <1>5, FS_Surjection
<1>. HIDE DEF Used
<1>7. /\ IsFiniteSet(Used \cup {raw_data})
      /\ Cardinality(Used \cup {raw_data}) <= Cardinality(Used) + 1
  <2>1. Cardinality(Used) \in Nat
    BY <1>6, FS_CardinalityType
  <2>2. /\ IsFiniteSet(Used \cup {raw_data})
        /\ Cardinality(Used \cup {raw_data}) \in {Cardinality(Used), Cardinality(Used) + 1}
    BY <1>6, FS_AddElement
  <2>. QED  BY <2>1, <2>2
<1>8. /\ IsFiniteSet((Used \cup {raw_data}) \cup {send_buffer})
      /\ Cardinality((Used \cup {raw_data}) \cup {send_buffer}) <= Cardinality(Used) + 2
  <2>. DEFINE n == Cardinality(Used \cup {raw_data})
  <2>1. Cardinality(Used) \in Nat /\ n \in Nat
    BY <1>6, <1>7, FS_CardinalityType
  <2>2. /\ IsFiniteSet((Used \cup {raw_data}) \cup {send_buffer})
        /\ Cardinality((Used \cup {raw_data}) \cup {send_buffer}) \in {n, n + 1}
    BY <1>7, FS_AddElement
  <2>. QED  BY <1>7, <2>1, <2>2
<1>9. Cardinality(Buffers) <= Cardinality((Used \cup {raw_data}) \cup {send_buffer})
  BY <1>3, <1>8, FS_Subset
<1>10. /\ Cardinality(Buffers) \in Nat /\ Cardinality(Entries) \in Nat
       /\ Cardinality(Used) \in Nat
       /\ Cardinality((Used \cup {raw_data}) \cup {send_buffer}) \in Nat
  BY <1>4, <1>6, <1>8, PoolAssumption, FS_CardinalityType
<1>. QED  BY <1>6, <1>8, <1>9, <1>10 DEF Entries

(* Nothing but replies that wait for their ACK makes the listener wait in  *)
(* rent(), for any pool and any number of clients.                         *)
THEOREM OnlyUnackedFill == Spec => []OnlyUnackedFillThePool
<1> QED
  BY SendInvariant, UnackedFillThePool, PTL

-----------------------------------------------------------------------------
(***************************************************************************)
(* SendPath implements ReliableReplies.  What a session keeps are views of *)
(* buffers of the pool, so that every write to a buffer could change it:   *)
(* it does not because only free buffers are written to (EntriesApart).    *)
(***************************************************************************)

(* A session whose entries stay keeps its replies when a buffer is written *)
(* to that was free.                                                       *)
LEMMA RepliesKept ==
  ASSUME SendInv, NEW c \in Clients, ack_buffer'[c] = ack_buffer[c],
         \/ contents' = contents
         \/ \E x \in free : \E frame : contents' = [contents EXCEPT ![x] = frame]
  PROVE  Unacked(c)' = Unacked(c)
<1>1. ASSUME NEW i \in Indices, ack_buffer[c][i] # NoBuffer
      PROVE  contents'[ack_buffer[c][i]] = contents[ack_buffer[c][i]]
  <2>1. ack_buffer[c][i] \notin free /\ ack_buffer[c][i] \in Buffers
    BY <1>1 DEF SendInv, BuffersPartitioned, EntriesApart, TypeOK
  <2>2. contents \in [Buffers -> Contents]
    BY DEF SendInv, TypeOK
  <2>. QED  BY <2>1, <2>2
<1>. QED  BY <1>1 DEF Unacked

(* A step that changes no session and no entry is none of ReliableReplies. *)
LEMMA RepliesStutter ==
  ASSUME SendInv, UNCHANGED sessionVars,
         \/ contents' = contents
         \/ \E x \in free : \E frame : contents' = [contents EXCEPT ![x] = frame]
  PROVE  UNCHANGED Replies!repliesVars
<1>1. \A c \in Clients : Unacked(c)' = Unacked(c)
  BY RepliesKept DEF sessionVars
<1>. QED  BY <1>1 DEF Replies!repliesVars, sessionVars

(* The map of a session changes, and no other one's.                       *)
LEMMA RepliesOf ==
  ASSUME NEW c \in Clients, NEW after,
         Unacked(c)' = after,
         \A d \in Clients : d # c => Unacked(d)' = Unacked(d)
  PROVE  [d \in Clients |-> Unacked(d)]' = [[d \in Clients |-> Unacked(d)] EXCEPT ![c] = after]
OBVIOUS

(* A new session starts at 0, and nothing is kept for it.                  *)
LEMMA ConnectOpens ==
  ASSUME SendInv, NEW c \in Clients, Connect(c)
  PROVE  Replies!Open(c)
<1>1. \A d \in Clients : Unacked(d)' = Unacked(d)
  BY DEF Connect, Unacked
<1>. QED  BY <1>1 DEF Connect, Replies!Open

(* A session that is erased keeps nothing.                                 *)
LEMMA ForgetCloses ==
  ASSUME SendInv, NEW c \in Clients, Forget(c)
  PROVE  Replies!Close(c)
<1>1. ack_buffer \in [Clients -> [Indices -> Buffers \cup {NoBuffer}]]
  BY DEF SendInv, TypeOK
<1>2. ack_buffer'[c] = NoEntries /\ \A d \in Clients : d # c => ack_buffer'[d] = ack_buffer[d]
  BY <1>1 DEF Forget
<1>3. Unacked(c)' = Replies!Nothing
  <2>1. {j \in Indices : ack_buffer'[c][j] # NoBuffer} = {}
    BY <1>2 DEF NoEntries
  <2>. QED  BY <2>1 DEF Unacked, Replies!Nothing
<1>4. \A d \in Clients : d # c => Unacked(d)' = Unacked(d)
  BY <1>2 DEF Forget, Unacked
<1>5. [d \in Clients |-> Unacked(d)]'
        = [[d \in Clients |-> Unacked(d)] EXCEPT ![c] = Replies!Nothing]
  BY <1>3, <1>4, RepliesOf
<1>. QED  BY <1>5 DEF Forget, Replies!Close

(* What an ACK erases are entries of the session it came for.              *)
LEMMA EraseAcknowledges ==
  ASSUME SendInv, NEW c \in connected, NEW ids \in SUBSET Indices, Erase(c, ids),
         UNCHANGED <<contents, connected, next_index>>
  PROVE  Replies!Acked(c, ids)
<1>1. /\ ack_buffer \in [Clients -> [Indices -> Buffers \cup {NoBuffer}]]
      /\ c \in Clients
  BY DEF SendInv, TypeOK
<1>2. /\ ack_buffer'[c] = [i \in Indices |-> IF i \in ids THEN NoBuffer ELSE ack_buffer[c][i]]
      /\ \A d \in Clients : d # c => ack_buffer'[d] = ack_buffer[d]
  BY <1>1 DEF Erase
<1>3. Unacked(c)' = [i \in DOMAIN Unacked(c) \ ids |-> Unacked(c)[i]]
  <2>1. {j \in Indices : ack_buffer'[c][j] # NoBuffer}
          = {j \in Indices : ack_buffer[c][j] # NoBuffer} \ ids
    BY <1>2
  <2>2. \A i \in Indices \ ids : ack_buffer'[c][i] = ack_buffer[c][i]
    BY <1>2
  <2>. QED  BY <2>1, <2>2 DEF Unacked
<1>4. \A d \in Clients : d # c => Unacked(d)' = Unacked(d)
  BY <1>2 DEF Unacked
<1>5. [d \in Clients |-> Unacked(d)]'
        = [[d \in Clients |-> Unacked(d)]
             EXCEPT ![c] = [i \in DOMAIN Unacked(c) \ ids |-> Unacked(c)[i]]]
  BY <1>1, <1>3, <1>4, RepliesOf
<1>6. [d \in Clients |-> Unacked(d)][c] = Unacked(c)
  BY <1>1
<1>. QED  BY <1>1, <1>5, <1>6 DEF Replies!Acked

(* ready_buffer keeps the frame under its number, unless that is in use.   *)
LEMMA ReadyReplies ==
  ASSUME SendInv, ready_reliable, NEW c \in Clients, c = client
  PROVE  Replies!Reply(c)
<1>. DEFINE i == next_index[c]
<1>0. /\ ack_buffer \in [Clients -> [Indices -> Buffers \cup {NoBuffer}]]
      /\ contents \in [Buffers -> Contents] /\ free \subseteq Buffers
      /\ next_index \in [Clients -> Indices]
      /\ NoBuffer \notin Buffers
  BY SendPathAssumption DEF SendInv, TypeOK
<1>1. c \in connected /\ i \in Indices
  BY <1>0 DEF ready_reliable, SendInv, HandsInv, TypeOK
<1>2. PICK x \in free :
        /\ contents' = [contents EXCEPT ![x] = <<c, i>>]
        /\ \/ /\ ack_buffer[c][i] = NoBuffer
              /\ ack_buffer' = [ack_buffer EXCEPT ![c][i] = x]
           \/ /\ ack_buffer[c][i] # NoBuffer
              /\ UNCHANGED ack_buffer
  BY DEF ready_reliable, ReliableFrame
<1>3. UNCHANGED connected /\ next_index' = [next_index EXCEPT ![c] = (i + 1) % IndexMod]
  BY DEF ready_reliable
<1>. HIDE DEF i
<1>4. \A d \in Clients : d # c => Unacked(d)' = Unacked(d)
  <2>1. \A d \in Clients : d # c => ack_buffer'[d] = ack_buffer[d]
    BY <1>0, <1>1, <1>2
  <2>. QED  BY <1>2, <2>1, RepliesKept
<1>5. Unacked(c)' = [j \in DOMAIN Unacked(c) \cup {i} |->
                       IF j \in DOMAIN Unacked(c) THEN Unacked(c)[j] ELSE <<c, j>>]
  <2>1. CASE /\ ack_buffer[c][i] = NoBuffer
             /\ ack_buffer' = [ack_buffer EXCEPT ![c][i] = x]
    <3>1. ack_buffer'[c] = [ack_buffer[c] EXCEPT ![i] = x]
      BY <1>0, <1>1, <2>1
    <3>2. x \in Buffers /\ x # NoBuffer
      BY <1>0
    <3>3. {j \in Indices : ack_buffer'[c][j] # NoBuffer}
            = {j \in Indices : ack_buffer[c][j] # NoBuffer} \cup {i}
      BY <1>0, <1>1, <3>1, <3>2
    <3>4. contents'[ack_buffer'[c][i]] = <<c, i>>
      BY <1>0, <1>1, <1>2, <3>1, <3>2
    <3>5. ASSUME NEW j \in Indices, ack_buffer[c][j] # NoBuffer
          PROVE  contents'[ack_buffer'[c][j]] = contents[ack_buffer[c][j]]
      <4>1. j # i /\ ack_buffer'[c][j] = ack_buffer[c][j]
        BY <1>0, <1>1, <2>1, <3>1, <3>5
      <4>2. ack_buffer[c][j] \in Buffers /\ ack_buffer[c][j] # x
        BY <1>0, <1>1, <3>5 DEF SendInv, BuffersPartitioned, EntriesApart
      <4>. QED  BY <1>0, <1>2, <4>1, <4>2
    <3>. QED  BY <2>1, <3>3, <3>4, <3>5 DEF Unacked
  <2>2. CASE ack_buffer[c][i] # NoBuffer /\ UNCHANGED ack_buffer
    <3>1. Unacked(c)' = Unacked(c)
      BY <1>1, <1>2, <2>2, RepliesKept
    <3>2. i \in DOMAIN Unacked(c)
      BY <1>1, <2>2 DEF Unacked
    <3>3. Unacked(c) = [j \in DOMAIN Unacked(c) |-> Unacked(c)[j]]
      BY DEF Unacked
    <3>. QED  BY <3>1, <3>2, <3>3
  <2>. QED  BY <1>2, <2>1, <2>2
<1>. DEFINE after == [j \in DOMAIN Unacked(c) \cup {i} |->
                        IF j \in DOMAIN Unacked(c) THEN Unacked(c)[j] ELSE <<c, j>>]
<1>6. [d \in Clients |-> Unacked(d)]' = [[d \in Clients |-> Unacked(d)] EXCEPT ![c] = after]
  <2>. HIDE DEF after
  <2>1. Unacked(c)' = after
    BY <1>5 DEF after
  <2>. QED  BY <1>1, <1>4, <2>1, RepliesOf
<1>7. [d \in Clients |-> Unacked(d)][c] = Unacked(c)
  BY <1>1
<1>. QED  BY <1>1, <1>3, <1>6, <1>7 DEF Replies!Reply, i

(* A server that answers is one that keeps the promise of ReliableReplies, *)
(* for any clients, pool and width of the indices: every step is one of    *)
(* its steps, or changes no session and nothing that is kept.              *)
THEOREM ImplementsReliableReplies == Spec => RepliesLikeReliableReplies
<1>1. Init => Replies!Init
  <2>1. ASSUME Init, NEW c \in Clients PROVE Unacked(c) = Replies!Nothing
    <3>1. {j \in Indices : ack_buffer[c][j] # NoBuffer} = {}
      BY <2>1 DEF Init, NoEntries
    <3>. QED  BY <3>1 DEF Unacked, Replies!Nothing
  <2>. QED  BY <2>1 DEF Init, Replies!Init
<1>2. ASSUME SendInv, [Next]_vars PROVE [Replies!Next]_(Replies!repliesVars)
  <2>1. ASSUME NEW c \in Clients, Connect(c) PROVE Replies!Next
    BY <1>2, <2>1, ConnectOpens DEF Replies!Next
  <2>2. ASSUME NEW c \in Clients, Forget(c) PROVE Replies!Next
    BY <1>2, <2>2, ForgetCloses DEF Replies!Next
  <2>3. ASSUME NEW c \in Clients, process_ack(c) \/ AckSpins(c) PROVE Replies!Next
    <3>1. c \in connected /\ UNCHANGED <<contents, connected, next_index>>
      BY <2>3 DEF process_ack, AckSpins
    <3>2. \E ids \in SUBSET Indices : Erase(c, ids)
      <4>1. \A count \in AckCounts : NamedBy(count) \subseteq SUBSET Indices
        BY DEF NamedBy
      <4>. QED  BY <2>3, <4>1 DEF process_ack, AckSpins
    <3>3. \E ids \in SUBSET Indices : Replies!Acked(c, ids)
      BY <1>2, <3>1, <3>2, EraseAcknowledges
    <3>. QED  BY <3>3 DEF Replies!Next, Replies!Indices, Indices
  <2>4. CASE ready_reliable
    <3>1. client \in Clients
      BY <1>2, <2>4 DEF ready_reliable, SendInv, HandsInv, TypeOK
    <3>2. \E c \in Clients : c = client
      BY <3>1
    <3>. QED  BY <1>2, <2>4, <3>2, ReadyReplies DEF Replies!Next
  <2>5. CASE RentToReceive \/ RentForBody \/ ready_unreliable
    <3>1. UNCHANGED sessionVars
      BY <2>5 DEF RentToReceive, RentForBody, ready_unreliable
    <3>2. \E x \in free : \E frame : contents' = [contents EXCEPT ![x] = frame]
      BY <2>5 DEF RentToReceive, RentForBody, ready_unreliable
    <3>. QED  BY <1>2, <3>1, <3>2, RepliesStutter
  <2>6. CASE \/ ReceiveNothing \/ SocketError \/ NextPayload \/ send_to \/ UNCHANGED vars
             \/ \E c \in Clients : ReceivePayloads(c) \/ AckTerminates(c)
    <3>1. UNCHANGED sessionVars /\ contents' = contents
      BY <2>6 DEF ReceiveNothing, SocketError, NextPayload, send_to, vars, ReceivePayloads,
         AckTerminates, poolVars
    <3>. QED  BY <1>2, <3>1, RepliesStutter
  <2>. QED  BY <1>2, <2>1, <2>2, <2>3, <2>4, <2>5, <2>6 DEF Next, Answer
<1>. QED
  BY <1>1, <1>2, SendInvariant, PTL DEF Spec, RepliesLikeReliableReplies, Replies!Spec

-----------------------------------------------------------------------------
(* Ack::read swaps a count that was in order.  So a client that            *)
(* acknowledges 1 to 255 records, of whatever kinds, sends fewer bytes     *)
(* than are asked for: nothing is acknowledged and the process ends.       *)
THEOREM FewRecordsAreTooShort ==
  ASSUME NEW count \in 1 .. 255
  PROVE  TooShort(count) /\ ~Readable(count)
<1>1. count % 256 = count /\ count \div 256 = 0
  OBVIOUS
<1>2. CountRead(count) = count * 256
  BY <1>1 DEF CountRead
<1>. QED  BY <1>2 DEF TooShort, Readable
=============================================================================
