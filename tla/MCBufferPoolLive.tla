-------------------------- MODULE MCBufferPoolLive --------------------------
(***************************************************************************)
(* Liveness of the pool.  Each thread rents at most MaxRents times: a      *)
(* std::mutex is not fair, so a thread that competes with others who rent  *)
(* for ever may starve, and the code does not promise otherwise.  Nobody   *)
(* is woken spuriously: a sleeper that wakes without end may likewise keep *)
(* the unfair mutex from the thread that would notify it.                  *)
(***************************************************************************)
EXTENDS BufferPool

CONSTANT MaxRents   \* bound: how often each thread calls rent()

VARIABLE rents      \* rents[t]: how often thread t has

liveVars == <<vars, rents>>

LiveInit == Init /\ rents = [t \in Threads |-> 0]

LiveStep(t) ==
  /\ Step(t)
  /\ pc[t] # "asleep"
  /\ IF pc[t] = "idle" /\ pc'[t] = "scan"
     THEN rents[t] < MaxRents /\ rents' = [rents EXCEPT ![t] = @ + 1]
     ELSE UNCHANGED rents

(* Everybody has finished, or the process is gone.                         *)
Finished ==
  /\ aborted \/ \A t \in Threads : pc[t] = "idle" /\ held[t] = {} /\ rents[t] = MaxRents
  /\ UNCHANGED liveVars

LiveNext == (\E t \in Threads : LiveStep(t)) \/ Finished

(* The scheduler runs every thread that can run, and a thread gives back   *)
(* what it rents; nobody has to rent.                                      *)
Works(t) == LiveStep(t) /\ ~(pc[t] = "idle" /\ pc'[t] = "scan")

LiveSpec ==
  LiveInit /\ [][LiveNext]_liveVars /\ \A t \in Threads : WF_liveVars(Works(t))

(* rent() always returns: a thread that waits on the last block of the     *)
(* list is woken in time, although buffers given back to the other blocks  *)
(* wake nobody (buffer_company.hpp:64: "it may sleep for a long time").    *)
EveryRentReturns ==
  \A t \in Threads : Renting(t) ~> (pc[t] = "idle" \/ aborted)
=============================================================================
