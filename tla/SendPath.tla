------------------------------ MODULE SendPath ------------------------------
(***************************************************************************)
(* How the sessions of a server answer, and where the buffers go meanwhile *)
(* (rakro/server/server_client.cpp: process_data, ready_buffer, send_to,   *)
(* process_ack; the loop of rakro/server/server.cpp).                      *)
(*                                                                         *)
(* The listener is the only thread.  It holds the buffer it receives in,   *)
(* rents one for the body of a reply and one for the frame around it, and  *)
(* leaves the latter with the session if the reply is reliable.  All come  *)
(* from one pool, of which only LendingPool's promise is used: a free      *)
(* buffer can be rented, and with none left rent() waits.                  *)
(*                                                                         *)
(* The frame set around the payloads is ClientSession's subject: here a    *)
(* datagram is the list of the payloads process_data is called with.       *)
(***************************************************************************)
EXTENDS Integers, Sequences, FiniteSets

CONSTANTS
  Clients,      \* the addresses of clients
  Buffers,      \* the buffers of the pool, all blocks together
  IndexMod,     \* 2^24: reliable frame indices are uint24_t
  Payloads,     \* what clients send, a subset of PayloadKinds
  MaxPayloads,  \* bound: payloads in a datagram
  AckCounts,    \* how many records an ACK may have
  NoBuffer, NoClient

ASSUME SendPathAssumption ==
  /\ IndexMod \in Nat \ {0}
  /\ MaxPayloads \in Nat
  /\ NoBuffer \notin Buffers
  /\ NoClient \notin Clients
ASSUME PoolAssumption == IsFiniteSet(Buffers)
ASSUME AckAssumption == AckCounts \subseteq 0 .. 65535

Indices == 0 .. IndexMod - 1

(* "odd ping" is a ping or pong of another length, which is answered too.  *)
PayloadKinds ==
  {"request", "secure request", "ping", "odd ping", "pong", "no reply"}

Answered == {"request", "ping", "odd ping", "pong"}

VARIABLES
  pc,               \* where the listener is
  free,             \* buffers that can be rented
  contents,         \* the reliable frame last written to a buffer, or Other
  raw_data,         \* the buffer the listener receives in
  send_buffer,      \* the buffer with the body of the reply in the making
  todo,             \* payloads of the datagram not handled yet,
  client,           \*   and who sent it
  connected,        \* who has a session, with
  next_index,       \*   its sending_rely_frame_index
  ack_buffer        \*   and its ack_buffer, NoBuffer where it has no entry

poolVars == <<free, contents>>
sessionVars == <<connected, next_index, ack_buffer>>
vars == <<pc, poolVars, raw_data, send_buffer, todo, client, sessionVars>>

ReliableFrame(c, i) == <<c, i>>
Other == ReliableFrame(NoClient, 0)

NoEntries == [i \in Indices |-> NoBuffer]

Init ==
  /\ pc = "receive"
  /\ free = Buffers
  /\ contents = [x \in Buffers |-> Other]
  /\ raw_data = NoBuffer
  /\ send_buffer = NoBuffer
  /\ todo = <<>>
  /\ client = NoClient
  /\ connected = {}
  /\ next_index = [c \in Clients |-> 0]
  /\ ack_buffer = [c \in Clients |-> NoEntries]

-----------------------------------------------------------------------------
(***************************************************************************)
(* The loop of the listener.                                               *)
(***************************************************************************)

(* The buffer is rented before anything is received.                       *)
RentToReceive ==
  /\ pc = "receive"
  /\ \E x \in free : /\ raw_data' = x
                     /\ free' = free \ {x}
                     /\ contents' = [contents EXCEPT ![x] = Other]
  /\ pc' = "route"
  /\ UNCHANGED <<send_buffer, todo, client, sessionVars>>

(* What ends an iteration: the buffer is given back.                       *)
NextIteration(more) ==
  /\ free' = free \cup {raw_data} \cup more
  /\ raw_data' = NoBuffer
  /\ pc' = "receive"

(* Of the errors of the socket the listener expects two.  After any other  *)
(* it throws out of the thread, which ends the process: on Windows that    *)
(* may be the echo of an earlier answer that reached nobody.               *)
SocketError ==
  /\ pc = "route"
  /\ pc' = "down"
  /\ UNCHANGED <<poolVars, raw_data, send_buffer, todo, client, sessionVars>>

(* A timeout of the socket, a ping, a late datagram, a NACK: no session    *)
(* changes, and a pong is written into the receive buffer.                 *)
ReceiveNothing ==
  /\ pc = "route"
  /\ NextIteration({})
  /\ UNCHANGED <<contents, send_buffer, todo, client, sessionVars>>

Connect(c) ==
  /\ pc = "route"
  /\ c \notin connected
  /\ connected' = connected \cup {c}
  /\ next_index' = [next_index EXCEPT ![c] = 0]
  /\ NextIteration({})
  /\ UNCHANGED <<contents, send_buffer, todo, client, ack_buffer>>

(* The buffers a session keeps for its client.                             *)
Kept(c) == {ack_buffer[c][i] : i \in Indices} \ {NoBuffer}

(* A session that has timed out is erased, and its map with it.            *)
Forget(c) ==
  /\ pc = "route"
  /\ c \in connected
  /\ connected' = connected \ {c}
  /\ ack_buffer' = [ack_buffer EXCEPT ![c] = NoEntries]
  /\ NextIteration(Kept(c))
  /\ UNCHANGED <<contents, send_buffer, todo, client, next_index>>

ReceivePayloads(c) ==
  /\ pc = "route"
  /\ c \in connected
  /\ client' = c
  /\ \E n \in 0 .. MaxPayloads : todo' \in [1 .. n -> Payloads]
  /\ pc' = "payload"
  /\ UNCHANGED <<poolVars, raw_data, send_buffer, sessionVars>>

-----------------------------------------------------------------------------
(***************************************************************************)
(* process_ack.  Ack::read takes the packet id for its multi flag, so it   *)
(* expects ranges of six bytes whatever a record is, and swaps the bytes   *)
(* of the count, which were in order.  Clients write records of four bytes *)
(* (one number) or of seven (a range).                                     *)
(***************************************************************************)
CountRead(count) == (count % 256) * 256 + count \div 256

(* The datagrams with that many records that hold what is asked for.       *)
Readable(count) == \E bytes \in 4 * count .. 7 * count : 6 * CountRead(count) <= bytes
TooShort(count) == 6 * CountRead(count) > 4 * count

(* out_of_range leaves route, which is noexcept.                           *)
AckTerminates(c) ==
  /\ pc = "route"
  /\ c \in connected
  /\ \E count \in AckCounts : TooShort(count)
  /\ pc' = "down"
  /\ UNCHANGED <<poolVars, raw_data, send_buffer, todo, client, sessionVars>>

(* What is read otherwise are ranges put together from the bytes of other  *)
(* records, and may be any numbers.                                        *)
NamedBy(count) == IF CountRead(count) = 0 THEN {{}} ELSE SUBSET Indices

Erase(c, ids) ==
  ack_buffer' = [ack_buffer EXCEPT ![c] =
                   [i \in Indices |-> IF i \in ids THEN NoBuffer ELSE @[i]]]

(* Mutant: an entry is erased and its buffer is not.                       *)
AckLosesBuffers(c) ==
  /\ pc = "route"
  /\ c \in connected
  /\ \E count \in AckCounts :
        Readable(count) /\ \E ids \in NamedBy(count) : Erase(c, ids)
  /\ NextIteration({})
  /\ UNCHANGED <<contents, send_buffer, todo, client, connected, next_index>>

process_ack(c) ==
  /\ pc = "route"
  /\ c \in connected
  /\ \E count \in AckCounts :
        /\ Readable(count)
        /\ \E ids \in NamedBy(count) :
              /\ Erase(c, ids)
              /\ NextIteration({ack_buffer[c][i] : i \in ids} \ {NoBuffer})
  /\ UNCHANGED <<contents, send_buffer, todo, client, connected, next_index>>

(* A range that ends at the greatest number never ends: its successor is   *)
(* 0.  Such a range erases every entry from its start on, and then all.    *)
AckSpins(c) ==
  /\ pc = "route"
  /\ c \in connected
  /\ \E count \in AckCounts : Readable(count) /\ CountRead(count) > 0
  /\ Erase(c, Indices)
  /\ free' = free \cup Kept(c)
  /\ pc' = "spinning"
  /\ UNCHANGED <<contents, raw_data, send_buffer, todo, client, connected, next_index>>

-----------------------------------------------------------------------------
(***************************************************************************)
(* process_data for one payload after the other.                           *)
(***************************************************************************)
NextPayload ==
  /\ pc = "payload"
  /\ \/ /\ todo = <<>>
        /\ NextIteration({})
        /\ UNCHANGED todo
     \/ /\ todo # <<>>
        /\ Head(todo) \in Answered
        /\ pc' = "reply"
        /\ UNCHANGED <<free, raw_data, todo>>
     \/ /\ todo # <<>>
        /\ Head(todo) \notin Answered
        /\ todo' = Tail(todo)
        /\ UNCHANGED <<pc, free, raw_data>>
  /\ UNCHANGED <<contents, send_buffer, client, sessionVars>>

(* A buffer for the body.  ConnectedPong::read throws "Unimplemented".     *)
RentForBody ==
  /\ pc = "reply"
  /\ \E x \in free : /\ send_buffer' = x
                     /\ free' = free \ {x}
                     /\ contents' = [contents EXCEPT ![x] = Other]
  /\ pc' = IF Head(todo) = "pong" THEN "down" ELSE "frame"
  /\ UNCHANGED <<raw_data, todo, client, sessionVars>>

(* Mutant: the map gets a view of the buffer, which is given back.         *)
ready_buffer_keeping_view ==
  /\ pc = "frame"
  /\ Head(todo) = "request"
  /\ LET i == next_index[client] IN
     /\ \E x \in free :
           /\ contents' = [contents EXCEPT ![x] = ReliableFrame(client, i)]
           /\ ack_buffer' = [ack_buffer EXCEPT ![client][i] = x]
     /\ next_index' = [next_index EXCEPT ![client] = (i + 1) % IndexMod]
  /\ pc' = "send"
  /\ UNCHANGED <<free, raw_data, send_buffer, todo, client, connected>>

(* Mutant: ++ without the mask.                                            *)
ready_buffer_without_mask ==
  /\ pc = "frame"
  /\ Head(todo) = "request"
  /\ \E x \in free :
        /\ contents' = [contents EXCEPT ![x] = ReliableFrame(client, next_index[client])]
        /\ ack_buffer' = [ack_buffer EXCEPT ![client][next_index[client]] = x]
        /\ free' = free \ {x}
  /\ next_index' = [next_index EXCEPT ![client] = @ + 1]
  /\ pc' = "send"
  /\ UNCHANGED <<raw_data, send_buffer, todo, client, connected>>

(* Mutant: the buffer is not moved into the map.                           *)
ready_buffer_not_kept ==
  /\ pc = "frame"
  /\ Head(todo) = "request"
  /\ \E x \in free : contents' = [contents EXCEPT ![x] = ReliableFrame(client, next_index[client])]
  /\ next_index' = [next_index EXCEPT ![client] = (@ + 1) % IndexMod]
  /\ pc' = "send"
  /\ UNCHANGED <<free, raw_data, send_buffer, todo, client, connected, ack_buffer>>

(* ready_buffer for a reliable reply.  insert does nothing if the index is *)
(* in use, and the buffer goes back to the pool before it is sent.         *)
ready_reliable ==
  /\ pc = "frame"
  /\ Head(todo) = "request"
  /\ LET i == next_index[client] IN
     /\ \E x \in free :
           /\ contents' = [contents EXCEPT ![x] = ReliableFrame(client, i)]
           /\ \/ /\ ack_buffer[client][i] = NoBuffer
                 /\ ack_buffer' = [ack_buffer EXCEPT ![client][i] = x]
                 /\ free' = free \ {x}
              \/ /\ ack_buffer[client][i] # NoBuffer
                 /\ UNCHANGED <<ack_buffer, free>>
     /\ next_index' = [next_index EXCEPT ![client] = (i + 1) % IndexMod]
  /\ pc' = "send"
  /\ UNCHANGED <<raw_data, send_buffer, todo, client, connected>>

(* ready_buffer for another reply: the frame is in a buffer that has been  *)
(* given back when send_to reads it.                                       *)
ready_unreliable ==
  /\ pc = "frame"
  /\ Head(todo) # "request"
  /\ \E x \in free : contents' = [contents EXCEPT ![x] = Other]
  /\ pc' = "send"
  /\ UNCHANGED <<free, raw_data, send_buffer, todo, client, sessionVars>>

(* Mutant: the body is not given back.                                     *)
send_to_keeping_body ==
  /\ pc = "send"
  /\ send_buffer' = NoBuffer
  /\ todo' = Tail(todo)
  /\ pc' = "payload"
  /\ UNCHANGED <<poolVars, raw_data, client, sessionVars>>

(* send_to, and the end of process_data, which gives the body back.        *)
send_to ==
  /\ pc = "send"
  /\ free' = free \cup {send_buffer}
  /\ send_buffer' = NoBuffer
  /\ todo' = Tail(todo)
  /\ pc' = "payload"
  /\ UNCHANGED <<contents, raw_data, client, sessionVars>>

-----------------------------------------------------------------------------
Answer ==
  \/ NextPayload \/ RentForBody \/ ready_reliable \/ ready_unreliable \/ send_to

Next ==
  \/ RentToReceive \/ ReceiveNothing \/ SocketError
  \/ \E c \in Clients :
        \/ Connect(c) \/ Forget(c) \/ ReceivePayloads(c)
        \/ AckTerminates(c) \/ process_ack(c) \/ AckSpins(c)
  \/ Answer

Spec == Init /\ [][Next]_vars

(* The listener goes on while it can; nobody has to send.                  *)
FairSpec == Spec /\ WF_vars(RentToReceive) /\ WF_vars(Answer)

-----------------------------------------------------------------------------
(***************************************************************************)
(* Properties.                                                             *)
(***************************************************************************)
Contents == (Clients \cup {NoClient}) \X Indices

TypeOK ==
  /\ pc \in {"receive", "route", "payload", "reply", "frame", "send", "down", "spinning"}
  /\ free \subseteq Buffers
  /\ contents \in [Buffers -> Contents]
  /\ raw_data \in Buffers \cup {NoBuffer}
  /\ send_buffer \in Buffers \cup {NoBuffer}
  /\ todo \in Seq(Payloads)
  /\ client \in Clients \cup {NoClient}
  /\ connected \subseteq Clients
  /\ next_index \in [Clients -> Indices]
  /\ ack_buffer \in [Clients -> [Indices -> Buffers \cup {NoBuffer}]]

(* Every buffer is in one place: free, in the listener's hands, or in one  *)
(* entry of one session that exists.  Whatever ends a session, a datagram  *)
(* or a reply gives back what it held, once.                               *)
Apart ==
  /\ raw_data \notin free
  /\ send_buffer \notin free
  /\ raw_data = send_buffer => raw_data = NoBuffer

EntriesApart ==
  \A c \in Clients, i \in Indices :
     LET x == ack_buffer[c][i] IN
     x # NoBuffer =>
       /\ c \in connected
       /\ x \notin free
       /\ x # raw_data
       /\ x # send_buffer
       /\ \A d \in Clients, j \in Indices : ack_buffer[d][j] = x => d = c /\ j = i

NoneLeaked ==
  \A x \in Buffers :
     \/ x \in free
     \/ x = raw_data
     \/ x = send_buffer
     \/ \E c \in Clients, i \in Indices : ack_buffer[c][i] = x

BuffersPartitioned == Apart /\ EntriesApart /\ NoneLeaked

(* What a session keeps under an index, to be sent again, is the frame it  *)
(* sent with that index: nobody else has written to the buffer since.      *)
UnackedIntact ==
  \A c \in Clients, i \in Indices :
     ack_buffer[c][i] # NoBuffer => contents[ack_buffer[c][i]] = ReliableFrame(c, i)

(* The listener waits for a buffer only when the reliable replies that     *)
(* nobody has acknowledged fill the pool but for the two buffers it may    *)
(* have in its hands: nothing else makes rent() wait.                      *)
OnlyUnackedFillThePool ==
  pc \in {"receive", "reply", "frame"} /\ free = {} =>
    Cardinality({e \in Clients \X Indices : ack_buffer[e[1]][e[2]] # NoBuffer})
      >= Cardinality(Buffers) - 2

(* With all its buffers the server keeps the promise of ReliableReplies: a *)
(* session has the replies that are not acknowledged, unchanged, as long   *)
(* as it lasts, and no other ones, however buffers go from hand to hand.   *)
Unacked(c) ==
  [i \in {j \in Indices : ack_buffer[c][j] # NoBuffer} |-> contents[ack_buffer[c][i]]]

Replies == INSTANCE ReliableReplies
             WITH sessions <- connected, next <- next_index,
                  unacked <- [c \in Clients |-> Unacked(c)]

RepliesLikeReliableReplies == Replies!Spec

(* buffer_company.hpp:64, of rent: "This will always return a valid        *)
(* buffer, but it may sleep for a long time".                              *)
RentReturns ==
  \A p \in {"receive", "reply", "frame"} : pc = p ~> pc # p
=============================================================================
