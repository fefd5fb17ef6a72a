-------------------------- MODULE HandshakeProofs --------------------------
(***************************************************************************)
(* What Handshake promises, proved for any set of addresses, any timeout   *)
(* and any bounds.                                                         *)
(***************************************************************************)
EXTENDS Handshake, TLAPS

(* An address of another version is never answered with anything but       *)
(* "incompatible", so its client never gets past its first question, and   *)
(* nothing it sends can give it a session.                                 *)
RefusedInv ==
  \A a \in Addresses : Speaks[a] # protocol_version =>
     /\ phase[a] \notin {"two", "in"}
     /\ a \notin connected
     /\ [kind |-> "reply one", to |-> a] \notin replies
     /\ \A m \in requests : m.from = a => m.kind = "one"

(* While nobody sets the clock, a session's age by the clock is the time   *)
(* its client has been silent.                                             *)
SilenceInv ==
  \A a \in connected :
     ~unsteady[a] /\ silent[a] <= Timeout => clock - last_packet[a] = silent[a]

HandshakeInv == TypeOK /\ RefusedInv /\ ReplyTwoMeansSession /\ SilenceInv

-----------------------------------------------------------------------------
THEOREM Initially == Init => HandshakeInv
  BY TimeAssumption, BoundsAssumption, NumbersAssumption
  DEF Init, ServerInit, HandshakeInv, TypeOK, RefusedInv, ReplyTwoMeansSession,
      SilenceInv, Phases

LEMMA Updated ==
  ASSUME NEW S, NEW T, NEW f \in [S -> T], NEW x, NEW v \in T
  PROVE  [f EXCEPT ![x] = v] \in [S -> T]
  OBVIOUS

LEMMA ModuloRange ==
  ASSUME NEW x \in Nat, NEW n \in Nat \ {0} PROVE x % n \in 0 .. n - 1
  OBVIOUS

LEMMA ReplyType ==
  ASSUME NEW a \in Addresses, NEW k \in {"incompatible", "reply one", "reply two"}
  PROVE  [kind |-> k, to |-> a] \in Replies
  BY DEF Replies

LEMMA TypeStep == TypeOK /\ [Next]_vars => TypeOK'
<1> SUFFICES ASSUME TypeOK, [Next]_vars PROVE TypeOK'
  OBVIOUS
<1> USE TimeAssumption, BoundsAssumption, NumbersAssumption
<1>1. ASSUME NEW a \in Addresses, SendOne(a) PROVE TypeOK'
  BY <1>1 DEF TypeOK, SendOne, Send, Request, Requests, serverVars,
     sessions, clientVars, timeVars, history
<1>2. ASSUME NEW a \in Addresses, SendTwo(a) PROVE TypeOK'
  BY <1>2 DEF TypeOK, SendTwo, Send, Request, Requests, serverVars,
     sessions, clientVars, timeVars, history
<1>3. ASSUME NEW a \in Addresses, SendData(a) PROVE TypeOK'
  <2>1. sent[a] % NumberMod \in 0 .. NumberMod - 1
    <3>1. sent[a] \in Nat /\ NumberMod \in Nat \ {0}
      BY DEF TypeOK
    <3> QED
      BY <3>1, ModuloRange
  <2>2. Request("data", a, sent[a] % NumberMod) \in Requests
    BY <2>1 DEF Request, Requests
  <2>3. requests' \subseteq Requests
    BY <1>3, <2>2 DEF TypeOK, SendData, Send
  <2>4. sent' \in [Addresses -> 0 .. MaxData]
    BY <1>3 DEF TypeOK, SendData
  <2> QED
    BY <1>3, <2>3, <2>4 DEF TypeOK, SendData, serverVars, sessions, timeVars, history
<1>4. ASSUME NEW a \in Addresses, Restart(a) PROVE TypeOK'
  BY <1>4 DEF TypeOK, Restart, Phases, serverVars, sessions, timeVars, history
<1>5. ASSUME NEW r \in replies, Receive(r) PROVE TypeOK'
  BY <1>5 DEF TypeOK, Receive, NextPhase, Phases, Replies, serverVars, sessions,
     timeVars, history
<1>6. ASSUME NEW m \in requests, HandleOne(m) PROVE TypeOK'
  <2>1. m.from \in Addresses
    BY DEF TypeOK, Requests
  <2>2. requests' \subseteq Requests
    BY <1>6 DEF TypeOK, HandleOne, Arrives
  <2>3. replies' \subseteq Replies
    BY <1>6, <2>1, ReplyType DEF TypeOK, HandleOne, Reply, ReplyToOne
  <2> QED
    BY <1>6, <2>1, <2>2, <2>3
    DEF TypeOK, HandleOne, OpenConnectionRequest1, sessions, clientVars, timeVars, history
<1>7. ASSUME NEW m \in requests, HandleTwo(m) PROVE TypeOK'
  <2>1. m.from \in Addresses
    BY DEF TypeOK, Requests
  <2>2. requests' \subseteq Requests
    BY <1>7 DEF TypeOK, HandleTwo, Arrives
  <2>3. replies' \subseteq Replies
    <3>1. CASE Reply("reply two", m.from)
      BY <3>1, <2>1, ReplyType DEF TypeOK, Reply
    <3>2. CASE UNCHANGED replies
      BY <3>2 DEF TypeOK
    <3> QED
      BY <1>7, <3>1, <3>2 DEF HandleTwo
  <2>4. /\ connected' \subseteq Addresses
        /\ last_packet' \in [Addresses -> Int]
        /\ expected' \in [Addresses -> 0 .. NumberMod - 1]
    <3>1. CASE UNCHANGED sessions
      BY <3>1 DEF TypeOK, sessions
    <3>2. CASE NewSession(m.from)
      BY <3>2, <2>1, Updated DEF TypeOK, NewSession
    <3> QED
      BY <1>7, <3>1, <3>2 DEF HandleTwo, OpenConnectionRequest2, connect_client
  <2>5. /\ silent' \in [Addresses -> 0 .. Timeout + 1]
        /\ unsteady' \in [Addresses -> BOOLEAN]
        /\ forgotten' \in [Addresses -> BOOLEAN]
    <3>1. CASE UNCHANGED history
      BY <3>1 DEF TypeOK, history
    <3>2. CASE Heard(m.from) /\ forgotten' = [forgotten EXCEPT ![m.from] = FALSE]
      BY <3>2, Updated DEF TypeOK, Heard
    <3> QED
      BY <1>7, <3>1, <3>2 DEF HandleTwo
  <2> QED
    BY <1>7, <2>2, <2>3, <2>4, <2>5
    DEF TypeOK, HandleTwo, OpenConnectionRequest2, clientVars, timeVars
<1>8. ASSUME NEW m \in requests, HandleData(m) PROVE TypeOK'
  <2>1. m.from \in Addresses
    BY DEF TypeOK, Requests
  <2>2. requests' \subseteq Requests
    BY <1>8 DEF TypeOK, HandleData, Arrives
  <2>3. /\ connected' \subseteq Addresses
        /\ last_packet' \in [Addresses -> Int]
        /\ expected' \in [Addresses -> 0 .. NumberMod - 1]
    <3>1. (expected[m.from] + 1) % NumberMod \in 0 .. NumberMod - 1
      <4>1. expected[m.from] + 1 \in Nat /\ NumberMod \in Nat \ {0}
        BY <2>1 DEF TypeOK
      <4> QED
        BY <4>1, ModuloRange
    <3> QED
      BY <1>8, <2>1, <3>1 DEF TypeOK, HandleData, route, process_packet, sessions
  <2>4. /\ silent' \in [Addresses -> 0 .. Timeout + 1]
        /\ unsteady' \in [Addresses -> BOOLEAN]
    <3>1. CASE UNCHANGED <<silent, unsteady>>
      BY <3>1 DEF TypeOK
    <3>2. CASE Heard(m.from)
      BY <3>2, Updated DEF TypeOK, Heard
    <3> QED
      BY <1>8, <3>1, <3>2 DEF HandleData
  <2>5. forgotten' \in [Addresses -> BOOLEAN]
    BY <1>8 DEF TypeOK, HandleData
  <2> QED
    BY <1>8, <2>2, <2>3, <2>4, <2>5 DEF TypeOK, HandleData, route, clientVars, timeVars
<1>9. ASSUME Lose PROVE TypeOK'
  BY <1>9 DEF TypeOK, Lose, serverVars, sessions, clientVars, timeVars, history
<1>10. ASSUME Tick PROVE TypeOK'
  BY <1>10 DEF TypeOK, Tick, serverVars, sessions, clientVars
<1>11. ASSUME SetClock PROVE TypeOK'
  BY <1>11 DEF TypeOK, SetClock, serverVars, sessions, clientVars
<1>12. ASSUME UNCHANGED vars PROVE TypeOK'
  BY <1>12 DEF TypeOK, vars, serverVars, sessions, clientVars, timeVars, history
<1> QED
  BY <1>1, <1>2, <1>3, <1>4, <1>5, <1>6, <1>7, <1>8, <1>9, <1>10, <1>11, <1>12
  DEF Next, Handle

-----------------------------------------------------------------------------
LEMMA RefusedStep == TypeOK /\ RefusedInv /\ [Next]_vars => RefusedInv'
<1> SUFFICES ASSUME TypeOK, RefusedInv, [Next]_vars,
                    NEW c \in Addresses, Speaks[c] # protocol_version
             PROVE  /\ phase'[c] \notin {"two", "in"}
                    /\ c \notin connected'
                    /\ [kind |-> "reply one", to |-> c] \notin replies'
                    /\ \A m \in requests' : m.from = c => m.kind = "one"
  BY DEF RefusedInv
<1> DEFINE Out == /\ phase'[c] \notin {"two", "in"}
                  /\ c \notin connected'
                  /\ [kind |-> "reply one", to |-> c] \notin replies'
                  /\ \A m \in requests' : m.from = c => m.kind = "one"
<1>0. /\ phase[c] \notin {"two", "in"}
      /\ c \notin connected
      /\ [kind |-> "reply one", to |-> c] \notin replies
      /\ \A m \in requests : m.from = c => m.kind = "one"
  BY DEF RefusedInv
<1>1. ASSUME NEW a \in Addresses, SendOne(a) PROVE Out
  <2>1. Request("one", a, 0).kind = "one"
    BY DEF Request
  <2>2. \A m \in requests' : m.from = c => m.kind = "one"
    BY <1>0, <1>1, <2>1 DEF SendOne, Send
  <2> QED
    BY <1>0, <1>1, <2>2 DEF SendOne, serverVars, sessions, clientVars
<1>2. ASSUME NEW a \in Addresses, SendTwo(a) PROVE Out
  <2>1. a # c
    BY <1>0, <1>2 DEF SendTwo
  <2>2. Request("two", a, 0).from = a
    BY DEF Request
  <2>3. \A m \in requests' : m.from = c => m.kind = "one"
    BY <1>0, <1>2, <2>1, <2>2 DEF SendTwo, Send
  <2> QED
    BY <1>0, <1>2, <2>3 DEF SendTwo, serverVars, sessions, clientVars
<1>3. ASSUME NEW a \in Addresses, SendData(a) PROVE Out
  <2>1. a # c
    BY <1>0, <1>3 DEF SendData
  <2>2. Request("data", a, sent[a] % NumberMod).from = a
    BY DEF Request
  <2>3. \A m \in requests' : m.from = c => m.kind = "one"
    BY <1>0, <1>3, <2>1, <2>2 DEF SendData, Send
  <2> QED
    BY <1>0, <1>3, <2>3 DEF SendData, serverVars, sessions
<1>4. ASSUME NEW a \in Addresses, Restart(a) PROVE Out
  BY <1>0, <1>4 DEF TypeOK, Restart, serverVars, sessions
<1>5. ASSUME NEW r \in replies, Receive(r) PROVE Out
  <2>1. r \in Replies
    BY DEF TypeOK
  <2>2. r.to = c => r.kind # "reply one"
    BY <1>0, <2>1 DEF Replies
  <2>3. phase'[c] \notin {"two", "in"}
    BY <1>0, <1>5, <2>1, <2>2 DEF TypeOK, Receive, NextPhase, Replies
  <2> QED
    BY <1>0, <1>5, <2>3 DEF Receive, serverVars, sessions
<1>6. ASSUME NEW m \in requests, HandleOne(m) PROVE Out
  <2>1. [kind |-> "reply one", to |-> c] \notin replies'
    BY <1>0, <1>6 DEF HandleOne, Reply, ReplyToOne
  <2> QED
    BY <1>0, <1>6, <2>1
    DEF HandleOne, Arrives, OpenConnectionRequest1, sessions, clientVars
<1>7. ASSUME NEW m \in requests, HandleTwo(m) PROVE Out
  <2>1. m.from # c
    BY <1>0, <1>7 DEF HandleTwo
  <2>2. c \notin connected'
    BY <1>0, <1>7, <2>1
    DEF HandleTwo, OpenConnectionRequest2, connect_client, NewSession, sessions
  <2>3. [kind |-> "reply one", to |-> c] \notin replies'
    <3>1. CASE Reply("reply two", m.from)
      BY <1>0, <3>1 DEF Reply
    <3>2. CASE UNCHANGED replies
      BY <1>0, <3>2
    <3> QED
      BY <1>7, <3>1, <3>2 DEF HandleTwo
  <2> QED
    BY <1>0, <1>7, <2>2, <2>3 DEF HandleTwo, Arrives, clientVars
<1>8. ASSUME NEW m \in requests, HandleData(m) PROVE Out
  BY <1>0, <1>8 DEF HandleData, Arrives, route, sessions, clientVars
<1>9. ASSUME Lose PROVE Out
  BY <1>0, <1>9 DEF Lose, serverVars, sessions, clientVars
<1>10. ASSUME Tick PROVE Out
  BY <1>0, <1>10 DEF Tick, serverVars, sessions, clientVars
<1>11. ASSUME SetClock PROVE Out
  BY <1>0, <1>11 DEF SetClock, serverVars, sessions, clientVars
<1>12. ASSUME UNCHANGED vars PROVE Out
  BY <1>0, <1>12 DEF vars, serverVars, sessions, clientVars
<1> QED
  BY <1>1, <1>2, <1>3, <1>4, <1>5, <1>6, <1>7, <1>8, <1>9, <1>10, <1>11, <1>12
  DEF Next, Handle

-----------------------------------------------------------------------------
(* A client gets in only through a reply that met the condition when it    *)
(* was sent, and what ends a session leaves a note of it.                  *)
LEMMA ReplyTwoStep ==
  TypeOK /\ ReplyTwoMeansSession /\ [Next]_vars => ReplyTwoMeansSession'
<1> SUFFICES ASSUME TypeOK, ReplyTwoMeansSession, [Next]_vars, NEW c \in Addresses
             PROVE  \/ phase'[c] = "in"
                    \/ [kind |-> "reply two", to |-> c] \in replies'
                    => c \in connected' \/ forgotten'[c]
  BY DEF ReplyTwoMeansSession
<1> DEFINE Told == phase[c] = "in" \/ [kind |-> "reply two", to |-> c] \in replies
           Known == c \in connected \/ forgotten[c]
<1>0. Told => Known
  BY DEF ReplyTwoMeansSession
<1>1. ASSUME NEW a \in Addresses, SendOne(a) \/ SendTwo(a) \/ SendData(a)
      PROVE  Told' => Known'
  BY <1>0, <1>1
  DEF SendOne, SendTwo, SendData, serverVars, sessions, clientVars, history
<1>4. ASSUME NEW a \in Addresses, Restart(a) PROVE Told' => Known'
  BY <1>0, <1>4 DEF TypeOK, Restart, serverVars, sessions, history
<1>5. ASSUME NEW r \in replies, Receive(r) PROVE Told' => Known'
  <2>1. r \in Replies
    BY DEF TypeOK
  <2>2. phase'[c] = "in" => Told
    BY <1>5, <2>1 DEF TypeOK, Receive, NextPhase, Replies
  <2> QED
    BY <1>0, <1>5, <2>2 DEF Receive, serverVars, sessions, history
<1>6. ASSUME NEW m \in requests, HandleOne(m) PROVE Told' => Known'
  BY <1>0, <1>6
  DEF HandleOne, Reply, ReplyToOne, OpenConnectionRequest1, sessions, clientVars, history
<1>7. ASSUME NEW m \in requests, HandleTwo(m) PROVE Told' => Known'
  <2>0. connected \subseteq connected'
    BY <1>7 DEF HandleTwo, OpenConnectionRequest2, connect_client, NewSession, sessions
  <2>1. CASE m.from = c
    <3>1. AnswersTwo(m.from) => c \in connected'
      BY <1>7, <2>1 DEF HandleTwo, OpenConnectionRequest2, connect_client,
         NewSession, AnswersTwo, sessions
    <3>2. c \notin connected' => UNCHANGED <<phase, replies, forgotten>>
      BY <1>7, <2>1, <3>1 DEF HandleTwo, clientVars, history
    <3> QED
      BY <1>0, <2>0, <3>2
  <2>2. CASE m.from # c
    <3>1. forgotten'[c] = forgotten[c]
      BY <1>7, <2>2 DEF TypeOK, HandleTwo, history
    <3>2. Told' => Told
      <4>1. CASE Reply("reply two", m.from)
        BY <1>7, <2>2, <4>1 DEF HandleTwo, Reply, clientVars
      <4>2. CASE UNCHANGED replies
        BY <1>7, <4>2 DEF HandleTwo, clientVars
      <4> QED
        BY <1>7, <4>1, <4>2 DEF HandleTwo
    <3> QED
      BY <1>0, <2>0, <3>1, <3>2
  <2> QED
    BY <2>1, <2>2
<1>8. ASSUME NEW m \in requests, HandleData(m) PROVE Told' => Known'
  <2>1. Told' => Told
    BY <1>8 DEF HandleData, clientVars
  <2>2. Known => Known'
    BY <1>8 DEF TypeOK, HandleData, route, sessions
  <2> QED
    BY <1>0, <2>1, <2>2
<1>9. ASSUME Lose PROVE Told' => Known'
  BY <1>0, <1>9 DEF Lose, serverVars, sessions, clientVars, history
<1>10. ASSUME Tick PROVE Told' => Known'
  BY <1>0, <1>10 DEF Tick, serverVars, sessions, clientVars
<1>11. ASSUME SetClock PROVE Told' => Known'
  BY <1>0, <1>11 DEF SetClock, serverVars, sessions, clientVars
<1>12. ASSUME UNCHANGED vars PROVE Told' => Known'
  BY <1>0, <1>12 DEF vars, serverVars, sessions, clientVars, history
<1> QED
  BY <1>1, <1>4, <1>5, <1>6, <1>7, <1>8, <1>9, <1>10, <1>11, <1>12 DEF Next, Handle

-----------------------------------------------------------------------------
LEMMA SilenceStep == TypeOK /\ SilenceInv /\ [Next]_vars => SilenceInv'
<1> SUFFICES ASSUME TypeOK, SilenceInv, [Next]_vars,
                    NEW c \in connected', ~unsteady'[c], silent'[c] <= Timeout
             PROVE  clock' - last_packet'[c] = silent'[c]
  BY DEF SilenceInv
<1> USE TimeAssumption
<1>0. c \in Addresses
  BY TypeStep DEF TypeOK
<1>1. ASSUME UNCHANGED <<clock, connected, last_packet, silent, unsteady>>
      PROVE  clock' - last_packet'[c] = silent'[c]
  BY <1>1 DEF SilenceInv
<1>2. ASSUME NEW a \in Addresses, SendOne(a) \/ SendTwo(a) \/ SendData(a) \/ Restart(a)
      PROVE  UNCHANGED <<clock, connected, last_packet, silent, unsteady>>
  BY <1>2 DEF SendOne, SendTwo, SendData, Restart, serverVars, sessions, timeVars, history
<1>3. ASSUME NEW r \in replies, Receive(r)
      PROVE  UNCHANGED <<clock, connected, last_packet, silent, unsteady>>
  BY <1>3 DEF Receive, serverVars, sessions, timeVars, history
<1>4. ASSUME NEW m \in requests, HandleOne(m)
      PROVE  UNCHANGED <<clock, connected, last_packet, silent, unsteady>>
  BY <1>4 DEF HandleOne, OpenConnectionRequest1, sessions, timeVars, history
<1>5. ASSUME NEW m \in requests, HandleTwo(m)
      PROVE  clock' - last_packet'[c] = silent'[c]
  <2>1. CASE UNCHANGED sessions
    BY <1>1, <1>5, <2>1 DEF HandleTwo, sessions, timeVars, history
  <2>2. CASE m.from \notin connected /\ NewSession(m.from)
    <3>1. m.from \in Addresses
      BY DEF TypeOK, Requests
    <3>2. Heard(m.from) /\ UNCHANGED clock
      BY <1>5, <2>2 DEF HandleTwo, NewSession, timeVars
    <3>3. CASE c = m.from
      BY <2>2, <3>1, <3>2, <3>3 DEF TypeOK, NewSession, Heard
    <3>4. CASE c # m.from
      BY <2>2, <3>1, <3>2, <3>4, <1>0 DEF TypeOK, NewSession, Heard, SilenceInv
    <3> QED
      BY <3>3, <3>4
  <2> QED
    BY <1>5, <2>1, <2>2 DEF HandleTwo, OpenConnectionRequest2, connect_client
<1>6. ASSUME NEW m \in requests, HandleData(m)
      PROVE  clock' - last_packet'[c] = silent'[c]
  <2>1. m.from \in Addresses /\ UNCHANGED clock
    BY <1>6 DEF TypeOK, Requests, HandleData, timeVars
  <2>2. CASE m.from \in connected'
    <3>1. Heard(m.from)
      BY <1>6, <2>2 DEF HandleData
    <3>2. /\ connected' = connected
          /\ last_packet' = [last_packet EXCEPT ![m.from] = clock]
      BY <1>6, <2>2 DEF HandleData, route, sessions
    <3>3. CASE c = m.from
      BY <2>1, <3>1, <3>2, <3>3 DEF TypeOK, Heard
    <3>4. CASE c # m.from
      BY <2>1, <3>1, <3>2, <3>4, <1>0 DEF TypeOK, Heard, SilenceInv
    <3> QED
      BY <3>3, <3>4
  <2>3. CASE m.from \notin connected'
    <3>1. connected' \subseteq connected /\ UNCHANGED <<last_packet, silent, unsteady>>
      BY <1>6, <2>3 DEF HandleData, route, sessions
    <3> QED
      BY <2>1, <3>1 DEF SilenceInv
  <2> QED
    BY <2>2, <2>3
<1>7. ASSUME Lose PROVE UNCHANGED <<clock, connected, last_packet, silent, unsteady>>
  BY <1>7 DEF Lose, serverVars, sessions, timeVars, history
<1>8. ASSUME Tick PROVE clock' - last_packet'[c] = silent'[c]
  BY <1>8, <1>0 DEF TypeOK, Tick, serverVars, sessions, SilenceInv
<1>9. ASSUME SetClock PROVE FALSE
  BY <1>9, <1>0 DEF SetClock
<1>10. ASSUME UNCHANGED vars
       PROVE  UNCHANGED <<clock, connected, last_packet, silent, unsteady>>
  BY <1>10 DEF vars, serverVars, sessions, timeVars, history
<1> QED
  BY <1>1, <1>2, <1>3, <1>4, <1>5, <1>6, <1>7, <1>8, <1>9, <1>10 DEF Next, Handle

-----------------------------------------------------------------------------
THEOREM InvariantHolds == Spec => []HandshakeInv
<1>1. HandshakeInv /\ [Next]_vars => HandshakeInv'
  BY TypeStep, RefusedStep, ReplyTwoStep, SilenceStep DEF HandshakeInv
<1> QED
  BY Initially, <1>1, PTL DEF Spec

(* Everything keeps its type.                                              *)
THEOREM HandshakeTypes == Spec => []TypeOK
  BY InvariantHolds, PTL DEF HandshakeInv

(* Clients of another protocol version never get a session.                *)
THEOREM OldVersionsRefused == Spec => []OldVersionsStayOut
<1>1. HandshakeInv => OldVersionsStayOut
  BY DEF HandshakeInv, TypeOK, RefusedInv, OldVersionsStayOut
<1> QED
  BY InvariantHolds, <1>1, PTL

(* Whoever is told that it is connected has a session, or had one that     *)
(* timed out.                                                              *)
THEOREM ReplyTwoIsHonest == Spec => []ReplyTwoMeansSession
  BY InvariantHolds, PTL DEF HandshakeInv

LEMMA ModuloBound ==
  ASSUME NEW x \in Nat, NEW n \in Nat \ {0} PROVE x % n <= x
  OBVIOUS

(* A session that is taken away was found by `route', and the clock, which *)
(* nobody has set, showed that its client was silent for too long.         *)
THEOREM SilenceForgets == Spec => ForgottenOnlyWhenSilent
<1> DEFINE Ends == \A a \in connected \ connected' : silent[a] > Timeout \/ unsteady[a]
<1>1. ASSUME HandshakeInv, [Next]_vars PROVE Ends
  <2> SUFFICES ASSUME NEW a \in connected \ connected', silent[a] <= Timeout, ~unsteady[a]
               PROVE  FALSE
    BY <1>1, TimeAssumption DEF HandshakeInv, TypeOK
  <2>1. ~TimedOut(a)
    <3>1. clock - last_packet[a] \in Nat /\ clock - last_packet[a] <= Timeout
      BY <1>1, TimeAssumption DEF HandshakeInv, TypeOK, SilenceInv
    <3>2. Elapsed(a) <= Timeout /\ Elapsed(a) \in Nat
      BY <3>1, ModuloBound, TimeAssumption DEF Elapsed
    <3> QED
      BY <3>2, TimeAssumption DEF TimedOut
  <2>2. connected' # connected
    OBVIOUS
  <2>3. \E m \in requests : HandleTwo(m) \/ HandleData(m)
    BY <1>1, <2>2 DEF Next, Handle, SendOne, SendTwo, SendData, Restart, Receive,
       HandleOne, OpenConnectionRequest1, Lose, Tick, SetClock, vars, serverVars, sessions
  <2>4. PICK m \in requests : HandleTwo(m) \/ HandleData(m)
    BY <2>3
  <2>5. CASE HandleTwo(m)
    BY <2>5 DEF HandleTwo, OpenConnectionRequest2, connect_client, NewSession, sessions
  <2>6. CASE HandleData(m)
    BY <2>1, <2>6 DEF HandleData, route, sessions
  <2> QED
    BY <2>4, <2>5, <2>6
<1> QED
  BY InvariantHolds, <1>1, PTL DEF Spec, ForgottenOnlyWhenSilent

(* While a session lasts, the number it expects moves by one, at the wrap  *)
(* to 0, and only for a frame set of its own client with that number or a  *)
(* later one: no handshake sets it back.                                   *)
THEOREM HandshakesAreHarmless == Spec => SessionOutlivesHandshakes
<1> DEFINE Moves(a) ==
      /\ expected'[a] = (expected[a] + 1) % NumberMod
      /\ \E m \in requests : m.kind = "data" /\ m.from = a /\ m.num >= expected[a]
<1>1. ASSUME HandshakeInv, [Next]_vars,
             NEW a \in connected \cap connected', expected'[a] # expected[a]
      PROVE  Moves(a)
  <2>0. a \in Addresses /\ expected \in [Addresses -> 0 .. NumberMod - 1]
    BY <1>1 DEF HandshakeInv, TypeOK
  <2>1. \E m \in requests : HandleTwo(m) \/ HandleData(m)
    BY <1>1 DEF Next, Handle, SendOne, SendTwo, SendData, Restart, Receive,
       HandleOne, OpenConnectionRequest1, Lose, Tick, SetClock, vars, serverVars,
       sessions
  <2>2. PICK m \in requests : HandleTwo(m) \/ HandleData(m)
    BY <2>1
  <2>3. CASE HandleTwo(m)
    <3>1. m.from \notin connected /\ NewSession(m.from)
      BY <1>1, <2>3 DEF HandleTwo, OpenConnectionRequest2, connect_client, sessions
    <3>2. expected'[a] = expected[a]
      BY <2>0, <3>1 DEF NewSession
    <3> QED
      BY <1>1, <3>2
  <2>4. CASE HandleData(m)
    <3>1. m.from \in Addresses /\ process_packet(m.from, m.num) /\ m.kind = "data"
      BY <1>1, <2>4 DEF HandleData, route, sessions, HandshakeInv, TypeOK, Requests
    <3>2. m.num >= expected[m.from]
      BY <1>1, <3>1 DEF process_packet
    <3>3. expected' = [expected EXCEPT ![m.from] = (expected[m.from] + 1) % NumberMod]
      BY <1>1, <3>1 DEF process_packet
    <3>4. a = m.from
      BY <1>1, <2>0, <3>3
    <3> QED
      BY <2>0, <3>1, <3>2, <3>3, <3>4
  <2> QED
    BY <2>2, <2>3, <2>4
<1>2. HandshakeInv /\ [Next]_vars =>
        [\A a \in connected \cap connected' : expected'[a] # expected[a] => Moves(a)]_vars
  BY <1>1
<1> QED
  BY InvariantHolds, <1>2, PTL DEF Spec, SessionOutlivesHandshakes
=============================================================================
