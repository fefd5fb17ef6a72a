----------------------------- MODULE RakServer -----------------------------
(***************************************************************************)
(* How a RakServer comes to know its clients and forgets them again:       *)
(* handle_packet (rakro/server/server.cpp) and ClientRouter                *)
(* (rakro/server/server_client.hpp).  All of it runs on the listener       *)
(* thread, one datagram after the other.                                   *)
(*                                                                         *)
(* Of a session only what the router and the check of datagram numbers     *)
(* need is kept; ClientSession has the rest.  The MTU and the guid of a    *)
(* client, which are stored and never read, the pongs, which change        *)
(* nothing, and the answer to a ConnectionRequest are left out.  What the  *)
(* bytes of these packets mean is the subject of WireFormat.               *)
(***************************************************************************)
EXTENDS Integers, FiniteSets

CONSTANTS
  Addresses,         \* the IPV4Addr the server hears from
  protocol_version,  \* the version it speaks
  Timeout,           \* ClientRouter::timeout
  ClockMod,          \* 2^64: times are uint64_t
  NumberMod          \* 2^24: datagram numbers are uint24_t

ASSUME TimeAssumption ==
  /\ Timeout \in Nat
  /\ ClockMod \in Nat \ {0}

ASSUME NumbersAssumption == NumberMod \in Nat \ {0}

VARIABLES
  clock,        \* time_since_epoch(), the system clock
  mid,          \* the addresses in mid_connection_clients
  connected,    \* the addresses in connected_clients
  last_packet,  \* when the client of a session was last heard,
  expected      \*   and the next_expected_seq of the session

sessions == <<connected, last_packet, expected>>
serverVars == <<mid, sessions>>

ServerInit ==
  /\ clock = 0
  /\ mid = {}
  /\ connected = {}
  /\ last_packet = [a \in Addresses |-> 0]
  /\ expected = [a \in Addresses |-> 0]

-----------------------------------------------------------------------------
(* Mutant: the version is not looked at.                                   *)
ReplyOneToAll(version) == "reply one"

(* The answer to an OpenConnectionRequest1.                                *)
ReplyToOne(version) ==
  IF version # protocol_version THEN "incompatible" ELSE "reply one"

(* The address is remembered whatever the answer was, and for good.        *)
OpenConnectionRequest1(a) ==
  /\ mid' = mid \cup {a}
  /\ UNCHANGED sessions

(* Mutant: last_packet starts at its value-initialised 0.                  *)
NewSessionNeverHeard(a) ==
  /\ connected' = connected \cup {a}
  /\ last_packet' = [last_packet EXCEPT ![a] = 0]
  /\ expected' = [expected EXCEPT ![a] = 0]

(* What RakroServerClient's constructor leaves.                            *)
NewSession(a) ==
  /\ connected' = connected \cup {a}
  /\ last_packet' = [last_packet EXCEPT ![a] = clock]
  /\ expected' = [expected EXCEPT ![a] = 0]

(* Mutant: insert_or_assign.                                               *)
ConnectAgain(a) == NewSession(a)

(* Mutant: a session that has timed out is erased, and no other made.      *)
ConnectOrForget(a) ==
  \/ /\ a \in connected
     /\ connected' = connected \ (IF clock - last_packet[a] > Timeout THEN {a} ELSE {})
     /\ UNCHANGED <<last_packet, expected>>
  \/ a \notin connected /\ NewSession(a)

(* A session that is there stays as it is, even one that has timed out.    *)
connect_client(a) ==
  \/ a \in connected /\ UNCHANGED sessions
  \/ a \notin connected /\ NewSession(a)

(* Mutant: a repeated request is not answered.                             *)
AnswersTwoOnce(a) == a \in mid /\ a \notin connected

(* Whether an OpenConnectionRequest2 is answered at all.                   *)
AnswersTwo(a) == a \in mid

OpenConnectionRequest2(a) ==
  /\ \/ a \notin mid /\ UNCHANGED sessions
     \/ a \in mid /\ connect_client(a)
  /\ UNCHANGED mid

(* Mutant: ++ without the mask.                                            *)
process_packet_unmasked(a, num) ==
  \/ num < expected[a] /\ UNCHANGED expected
  \/ /\ num >= expected[a]
     /\ expected' = [expected EXCEPT ![a] = @ + 1]

(* process_packet of a frame set whose number is num: late, or taken.      *)
process_packet(a, num) ==
  \/ num < expected[a] /\ UNCHANGED expected
  \/ /\ num >= expected[a]
     /\ expected' = [expected EXCEPT ![a] = (@ + 1) % NumberMod]

Elapsed(a) == (clock - last_packet[a]) % ClockMod

TimedOut(a) == Elapsed(a) > Timeout

(* A session is looked at only when its own address is heard; the datagram *)
(* that finds it timed out is dropped with it.                             *)
route(a, num) ==
  /\ \/ a \notin connected /\ UNCHANGED sessions
     \/ /\ a \in connected
        /\ TimedOut(a)
        /\ connected' = connected \ {a}
        /\ UNCHANGED <<last_packet, expected>>
     \/ /\ a \in connected
        /\ ~TimedOut(a)
        /\ last_packet' = [last_packet EXCEPT ![a] = clock]
        /\ process_packet(a, num)
        /\ UNCHANGED connected
  /\ UNCHANGED mid
=============================================================================
