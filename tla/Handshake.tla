----------------------------- MODULE Handshake -----------------------------
(***************************************************************************)
(* A RakServer with its clients, the network and the clock.  These are not *)
(* part of the repository.  A client repeats OpenConnectionRequest1 until  *)
(* it is answered, then OpenConnectionRequest2, and then sends numbered    *)
(* frame sets; it may start again on the same address with number 0.  The  *)
(* network delivers a datagram late, several times or not at all.  The     *)
(* system clock may be set forward or back.                                *)
(***************************************************************************)
EXTENDS RakServer

CONSTANTS
  Speaks,         \* the protocol version of the client at each address
  Adjustments,    \* by how much the clock may be set forward or back
  MaxClock,       \* bound: the clock stops there
  MaxAdjusted,    \* bound: times the clock is set
  MaxRestarts,    \* bound: restarts of clients
  MaxData,        \* bound: frame sets a client sends between restarts
  MaxLosses,      \* bound: datagrams lost
  MaxInFlight     \* bound: datagrams on their way to the server

ASSUME BoundsAssumption ==
  /\ Adjustments \subseteq Int
  /\ MaxClock \in Int
  /\ {MaxAdjusted, MaxRestarts, MaxData, MaxLosses, MaxInFlight} \subseteq Nat

VARIABLES
  phase,          \* where a client is in the handshake
  restarts,       \* how often clients started again
  sent,           \* frame sets a client sent since it started
  requests,       \* datagrams on their way to the server
  replies,        \* datagrams on their way to the clients
  losses, adjusted,
  silent,         \* time since the session was made or last heard
  unsteady,       \* the clock was set since then
  forgotten       \* the session of the address timed out and was not remade

clientVars == <<phase, restarts, sent>>
timeVars == <<clock, adjusted>>
history == <<silent, unsteady, forgotten>>
vars == <<serverVars, clientVars, timeVars, requests, replies, losses, history>>

Phases == {"one", "two", "in", "refused"}
Request(kind, a, num) == [kind |-> kind, from |-> a, num |-> num]

Requests ==
  [kind : {"one", "two"}, from : Addresses, num : {0}]
    \cup [kind : {"data"}, from : Addresses, num : 0 .. NumberMod - 1]
Replies == [kind : {"incompatible", "reply one", "reply two"}, to : Addresses]

Init ==
  /\ ServerInit
  /\ phase = [a \in Addresses |-> "one"]
  /\ restarts = 0
  /\ sent = [a \in Addresses |-> 0]
  /\ requests = {}
  /\ replies = {}
  /\ losses = 0
  /\ adjusted = 0
  /\ silent = [a \in Addresses |-> 0]
  /\ unsteady = [a \in Addresses |-> FALSE]
  /\ forgotten = [a \in Addresses |-> FALSE]

-----------------------------------------------------------------------------
(* The clients.                                                            *)
Send(m) ==
  /\ m \notin requests
  /\ Cardinality(requests) < MaxInFlight
  /\ requests' = requests \cup {m}

SendOne(a) ==
  /\ phase[a] = "one"
  /\ Send(Request("one", a, 0))
  /\ UNCHANGED <<serverVars, clientVars, timeVars, replies, losses, history>>

SendTwo(a) ==
  /\ phase[a] = "two"
  /\ Send(Request("two", a, 0))
  /\ UNCHANGED <<serverVars, clientVars, timeVars, replies, losses, history>>

SendData(a) ==
  /\ phase[a] = "in"
  /\ sent[a] < MaxData
  /\ Send(Request("data", a, sent[a] % NumberMod))
  /\ sent' = [sent EXCEPT ![a] = @ + 1]
  /\ UNCHANGED <<serverVars, phase, restarts, timeVars, replies, losses, history>>

NextPhase(a, kind) ==
  CASE kind = "reply one" /\ phase[a] = "one" -> "two"
    [] kind = "reply two" /\ phase[a] = "two" -> "in"
    [] kind = "incompatible" /\ phase[a] = "one" -> "refused"
    [] OTHER -> phase[a]

Receive(r) ==
  /\ r \in replies
  /\ replies' = replies \ {r}
  /\ phase' = [phase EXCEPT ![r.to] = NextPhase(r.to, r.kind)]
  /\ UNCHANGED <<serverVars, restarts, sent, timeVars, requests, losses, history>>

Restart(a) ==
  /\ restarts < MaxRestarts
  /\ restarts' = restarts + 1
  /\ phase' = [phase EXCEPT ![a] = "one"]
  /\ sent' = [sent EXCEPT ![a] = 0]
  /\ UNCHANGED <<serverVars, timeVars, requests, replies, losses, history>>

(* The network: a datagram that was handled may be handled again.          *)
Arrives(m) == m \in requests /\ (requests' = requests \ {m} \/ UNCHANGED requests)

Lose ==
  /\ losses < MaxLosses
  /\ losses' = losses + 1
  /\ \/ \E m \in requests : requests' = requests \ {m} /\ UNCHANGED replies
     \/ \E r \in replies : replies' = replies \ {r} /\ UNCHANGED requests
  /\ UNCHANGED <<serverVars, clientVars, timeVars, history>>

(* Time passes, and the clock shows it; or the clock is set.               *)
Tick ==
  /\ clock < MaxClock
  /\ clock' = clock + 1
  /\ silent' = [a \in Addresses |-> IF silent[a] > Timeout THEN silent[a]
                                    ELSE silent[a] + 1]
  /\ UNCHANGED <<serverVars, clientVars, adjusted, requests, replies, losses,
                 unsteady, forgotten>>

SetClock ==
  /\ adjusted < MaxAdjusted
  /\ adjusted' = adjusted + 1
  /\ \E d \in Adjustments : clock' = clock + d
  /\ unsteady' = [a \in Addresses |-> TRUE]
  /\ UNCHANGED <<serverVars, clientVars, requests, replies, losses, silent, forgotten>>

-----------------------------------------------------------------------------
(* The server.                                                             *)
Reply(kind, a) == replies' = replies \cup {[kind |-> kind, to |-> a]}

Heard(a) ==
  /\ silent' = [silent EXCEPT ![a] = 0]
  /\ unsteady' = [unsteady EXCEPT ![a] = FALSE]

HandleOne(m) ==
  /\ m.kind = "one"
  /\ Arrives(m)
  /\ OpenConnectionRequest1(m.from)
  /\ Reply(ReplyToOne(Speaks[m.from]), m.from)
  /\ UNCHANGED <<clientVars, timeVars, losses, history>>

HandleTwo(m) ==
  /\ m.kind = "two"
  /\ Arrives(m)
  /\ OpenConnectionRequest2(m.from)
  /\ IF AnswersTwo(m.from) THEN Reply("reply two", m.from) ELSE UNCHANGED replies
  /\ IF m.from \in connected' \ connected
     THEN Heard(m.from) /\ forgotten' = [forgotten EXCEPT ![m.from] = FALSE]
     ELSE UNCHANGED history
  /\ UNCHANGED <<clientVars, timeVars, losses>>

HandleData(m) ==
  /\ m.kind = "data"
  /\ Arrives(m)
  /\ route(m.from, m.num)
  /\ IF m.from \in connected' THEN Heard(m.from) ELSE UNCHANGED <<silent, unsteady>>
  /\ forgotten' = [forgotten EXCEPT ![m.from] = @ \/ m.from \in connected \ connected']
  /\ UNCHANGED <<clientVars, timeVars, replies, losses>>

Handle(m) == HandleOne(m) \/ HandleTwo(m) \/ HandleData(m)

-----------------------------------------------------------------------------
Next ==
  \/ \E a \in Addresses : SendOne(a) \/ SendTwo(a) \/ SendData(a) \/ Restart(a)
  \/ \E r \in replies : Receive(r)
  \/ \E m \in requests : Handle(m)
  \/ Lose \/ Tick \/ SetClock

Spec == Init /\ [][Next]_vars

(* A client repeats its request until it is answered; what is not lost     *)
(* arrives, and is not repeated for ever; the listener handles what it     *)
(* receives.                                                               *)
Fairness ==
  /\ \A a \in Addresses : WF_vars(SendOne(a)) /\ WF_vars(SendTwo(a))
  /\ \A r \in Replies : WF_vars(Receive(r))
  /\ \A m \in Requests : WF_vars(Handle(m) /\ m \notin requests')

FairSpec == Spec /\ Fairness

-----------------------------------------------------------------------------
(***************************************************************************)
(* Properties.                                                             *)
(***************************************************************************)
TypeOK ==
  /\ clock \in Int
  /\ mid \subseteq Addresses
  /\ connected \subseteq Addresses
  /\ last_packet \in [Addresses -> Int]
  /\ expected \in [Addresses -> 0 .. NumberMod - 1]
  /\ phase \in [Addresses -> Phases]
  /\ restarts \in 0 .. MaxRestarts
  /\ sent \in [Addresses -> 0 .. MaxData]
  /\ requests \subseteq Requests
  /\ replies \subseteq Replies
  /\ losses \in 0 .. MaxLosses
  /\ adjusted \in 0 .. MaxAdjusted
  /\ silent \in [Addresses -> 0 .. Timeout + 1]
  /\ unsteady \in [Addresses -> BOOLEAN]
  /\ forgotten \in [Addresses -> BOOLEAN]

(* Only clients of the server's version get a session, although an address *)
(* is remembered in mid_connection_clients whatever version it asked with: *)
(* the refusal alone keeps the others from going on.                       *)
OldVersionsStayOut == \A a \in connected : Speaks[a] = protocol_version

(* A client that believes to be connected, and one whose OpenConnection-   *)
(* Reply2 is on its way, has a session, unless that timed out since.       *)
ReplyTwoMeansSession ==
  \A a \in Addresses :
     \/ phase[a] = "in"
     \/ [kind |-> "reply two", to |-> a] \in replies
     => a \in connected \/ forgotten[a]

(* A session ends only if its client was not heard for longer than the     *)
(* timeout, or the clock was set since: other clients, late datagrams and  *)
(* repeated handshakes do not end it.                                      *)
ForgottenOnlyWhenSilent ==
  [][\A a \in connected \ connected' : silent[a] > Timeout \/ unsteady[a]]_vars

(* No repeated or delayed handshake sets a session back, and no other      *)
(* client moves it on: while it lasts, the number it expects only changes  *)
(* by one, to 0 at the wrap, and for a datagram under way from its own     *)
(* address that has this number or a later one.                            *)
SessionOutlivesHandshakes ==
  [][\A a \in connected \cap connected' :
       expected'[a] # expected[a] =>
         /\ expected'[a] = (expected[a] + 1) % NumberMod
         /\ \E m \in requests :
              m.kind = "data" /\ m.from = a /\ m.num >= expected[a]]_vars

(* A client that speaks the server's version and keeps asking gets in.     *)
EveryClientGetsIn ==
  \A a \in Addresses :
     Speaks[a] = protocol_version => (phase[a] = "one" ~> phase[a] = "in")
=============================================================================
