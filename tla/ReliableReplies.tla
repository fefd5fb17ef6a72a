--------------------------- MODULE ReliableReplies ---------------------------
(***************************************************************************)
(* What a server promises its clients about reliable replies, with no      *)
(* buffer, listener or datagram: a session numbers them from 0, and keeps  *)
(* each one, as it was written, until the client acknowledges it or the    *)
(* session ends.  A reply whose number is still in use is not kept.        *)
(***************************************************************************)
EXTENDS Integers

CONSTANTS Clients, IndexMod

Indices == 0 .. IndexMod - 1

VARIABLES
  sessions,   \* who has a session, with
  next,       \*   the number of its next reply
  unacked     \*   and the replies kept for it, by number

repliesVars == <<sessions, next, unacked>>

Nothing == [i \in {} |-> <<>>]

Init ==
  /\ sessions = {}
  /\ next = [c \in Clients |-> 0]
  /\ unacked = [c \in Clients |-> Nothing]

Open(c) ==
  /\ c \notin sessions
  /\ sessions' = sessions \cup {c}
  /\ next' = [next EXCEPT ![c] = 0]
  /\ UNCHANGED unacked

Close(c) ==
  /\ c \in sessions
  /\ sessions' = sessions \ {c}
  /\ unacked' = [unacked EXCEPT ![c] = Nothing]
  /\ UNCHANGED next

(* The reply is named by its client and its number.                        *)
Reply(c) ==
  /\ c \in sessions
  /\ unacked' = [unacked EXCEPT ![c] =
                   [i \in DOMAIN @ \cup {next[c]} |->
                      IF i \in DOMAIN @ THEN @[i] ELSE <<c, i>>]]
  /\ next' = [next EXCEPT ![c] = (@ + 1) % IndexMod]
  /\ UNCHANGED sessions

(* The client names the replies it has; it may name others.                *)
Acked(c, ids) ==
  /\ c \in sessions
  /\ unacked' = [unacked EXCEPT ![c] = [i \in DOMAIN @ \ ids |-> @[i]]]
  /\ UNCHANGED <<sessions, next>>

Next ==
  \E c \in Clients :
     \/ Open(c) \/ Close(c) \/ Reply(c)
     \/ \E ids \in SUBSET Indices : Acked(c, ids)

Spec == Init /\ [][Next]_repliesVars
=============================================================================
