--------------------------- MODULE BufferPoolProofs -------------------------
(***************************************************************************)
(* Proofs about BufferPool, for any number of threads, blocks and buffers. *)
(***************************************************************************)
EXTENDS BufferPool, FiniteSetTheorems, TLAPS

(***************************************************************************)
(* The inductive invariant.  Conserved alone is not inductive: a push must *)
(* give back a buffer its thread really holds (PlaceInv), and two threads  *)
(* must not pop from the same free list at once, which the mutexes see to  *)
(* (LockInv).                                                              *)
(***************************************************************************)
Typed ==
  /\ blockCount \in Blocks
  /\ making \in BOOLEAN
  /\ free \in [Blocks -> SUBSET Buffers]
  /\ count \in [Blocks -> Int]
  /\ mutex \in [Blocks -> Threads \cup {NoThread}]
  /\ held \in [Threads -> SUBSET Buffers]
  /\ pc \in [Threads -> PCs]
  /\ mode \in [Threads -> {"first", "second", "back"}]
  /\ at \in [Threads -> Blocks]
  /\ giving \in [Threads -> Buffers \cup {NoBuffer}]
  /\ aborted \in BOOLEAN

(* A thread holds the buffer_mutex of a block exactly while it runs the    *)
(* steps that need it.                                                     *)
LockInv ==
  \A b \in Blocks, t \in Threads : mutex[b] = t <=> InMutex(t) /\ at[t] = b

(* Threads work on blocks that exist, pop from lists that are not empty,   *)
(* and push what they hold onto the list it came from.                     *)
PlaceInv ==
  \A t \in Threads :
     /\ at[t] <= blockCount
     /\ pc[t] \in {"pop", "bump"} => free[at[t]] # {}
     /\ pc[t] \in {"free", "push"} => giving[t] \in held[t] /\ giving[t][1] = at[t]

(* Between a pop or a push and the matching update of the counter, under   *)
(* the lock, the counter is one short; otherwise it is exact.              *)
OneShort(b) == \E t \in Threads : at[t] = b /\ pc[t] \in {"pop", "bump"}

CountInv ==
  \A b \in Blocks :
     count[b] = Cardinality(free[b]) - (IF OneShort(b) THEN 1 ELSE 0)

PoolInv ==
  /\ Typed
  /\ LockInv
  /\ PlaceInv
  /\ Conserved
  /\ StuckFlagOnlyAtLimit
  /\ CountInv

-----------------------------------------------------------------------------
(* The arithmetic of block numbers.                                        *)
LEMMA BlockFacts ==
  ASSUME NEW b \in Blocks
  PROVE  /\ b \in Int /\ 1 <= b /\ b <= BlockMaxCount
         /\ b > 1 => b - 1 \in Blocks
         /\ b < BlockMaxCount => b + 1 \in Blocks
BY SizesAssumption DEF Blocks

LEMMA FirstBlock == 1 \in Blocks /\ BlockMaxCount \in Int
BY SizesAssumption DEF Blocks

(* A buffer belongs to one block.                                          *)
LEMMA BufferFacts ==
  /\ \A x \in Buffers : x[1] \in Blocks /\ x \in BuffersOf(x[1])
  /\ \A b \in Blocks : BuffersOf(b) \subseteq Buffers
  /\ \A b \in Blocks : \A x \in BuffersOf(b) : x[1] = b
BY DEF Buffers, BuffersOf

LEMMA AtFacts ==
  ASSUME Typed, NEW t \in Threads
  PROVE  /\ at[t] \in Blocks /\ at[t] \in Int /\ 1 <= at[t]
         /\ at[t] > 1 => at[t] - 1 \in Blocks
BY BlockFacts DEF Typed

LEMMA BlockCountFacts ==
  ASSUME Typed
  PROVE  /\ blockCount \in Blocks /\ blockCount \in Int
         /\ blockCount <= BlockMaxCount
         /\ blockCount < BlockMaxCount => blockCount + 1 \in Blocks
BY BlockFacts DEF Typed

(* A miss moves a thread along the list or out of it, and nothing else.    *)
LEMMA MissFacts ==
  ASSUME Typed, NEW t \in Threads, Miss(t)
  PROVE  /\ pc' \in [Threads -> PCs]
         /\ at' \in [Threads -> Blocks]
         /\ aborted' \in BOOLEAN
         /\ \A u \in Threads \ {t} : pc'[u] = pc[u] /\ at'[u] = at[u]
         /\ pc'[t] \in {"waitlock", "scan", "full", "gone"}
         /\ at'[t] <= at[t]
<1>1. pc' \in [Threads -> PCs]
  BY DEF Typed, PCs, Miss, Goto
<1>2. at' \in [Threads -> Blocks] /\ aborted' \in BOOLEAN
  BY AtFacts DEF Typed, Miss
<1>3. \A u \in Threads \ {t} : pc'[u] = pc[u] /\ at'[u] = at[u]
  BY AtFacts DEF Typed, Miss, Goto
<1>4. pc'[t] \in {"waitlock", "scan", "full", "gone"} /\ at'[t] <= at[t]
  BY AtFacts DEF Typed, Miss, Goto
<1> QED
  BY <1>1, <1>2, <1>3, <1>4

-----------------------------------------------------------------------------
(* Every variable keeps its type; only a push needs more than the types,   *)
(* to know that what it pushes is a buffer.                                *)
LEMMA TypedInit == Init => Typed
<1> SUFFICES ASSUME Init PROVE Typed
  OBVIOUS
<1>1. free \in [Blocks -> SUBSET Buffers]
  BY BufferFacts, FirstBlock DEF Init
<1>2. count \in [Blocks -> Int]
  BY SizesAssumption DEF Init
<1> QED
  BY <1>1, <1>2, FirstBlock DEF Init, Typed, PCs

LEMMA TypedStep ==
  ASSUME Typed, PlaceInv, NEW t \in Threads, Step(t)
  PROVE  Typed'
<1>1. CASE Rent(t)
  BY <1>1 DEF Typed, PCs, Rent, Goto
<1>2. CASE CheckCount(t)
  BY <1>2, MissFacts DEF Typed, PCs, CheckCount, Goto
<1>3. CASE LockToTake(t)
  BY <1>3 DEF Typed, PCs, LockToTake, Goto
<1>4. CASE Take(t)
  <2>1. count' \in [Blocks -> Int] /\ mutex' \in [Blocks -> Threads \cup {NoThread}]
    BY <1>4, AtFacts DEF Take, Unlock, Typed
  <2>2. pc' \in [Threads -> PCs] /\ at' \in [Threads -> Blocks] /\ aborted' \in BOOLEAN
    BY <1>4, MissFacts DEF Take, Goto, Typed, PCs
  <2> QED
    BY <1>4, <2>1, <2>2 DEF Take, Typed
<1>5. CASE Pop(t)
  <2>1. free' \in [Blocks -> SUBSET Buffers] /\ held' \in [Threads -> SUBSET Buffers]
    BY <1>5, AtFacts DEF Pop, Typed
  <2> QED
    BY <1>5, <2>1 DEF Pop, Unlock, Goto, Typed, PCs
<1>6. CASE ReadSize(t)
  BY <1>6, FirstBlock DEF Typed, PCs, ReadSize, Goto
<1>7. CASE InitBlock(t)
  <2>1. pc' \in [Threads -> PCs] /\ UNCHANGED <<mutex, held, mode, at, giving, aborted>>
    BY <1>7 DEF InitBlock, Goto, Typed, PCs
  <2>2. blockCount' \in Blocks /\ making' \in BOOLEAN
    BY <1>7, BlockCountFacts DEF InitBlock, Typed
  <2>3. free' \in [Blocks -> SUBSET Buffers]
    BY <1>7, BlockCountFacts, BufferFacts DEF InitBlock, Typed
  <2>4. count' \in [Blocks -> Int]
    BY <1>7, BlockCountFacts, SizesAssumption DEF InitBlock, Typed
  <2> QED
    BY <2>1, <2>2, <2>3, <2>4 DEF Typed
<1>8. CASE Rescan(t)
  BY <1>8 DEF Typed, PCs, Rescan, Goto
<1>9. CASE LockToWait(t)
  BY <1>9 DEF Typed, PCs, LockToWait, Goto
<1>10. CASE WaitCheck(t)
  BY <1>10 DEF Typed, PCs, WaitCheck, Unlock, Goto
<1>11. CASE SpuriousWakeup(t)
  BY <1>11 DEF Typed, PCs, SpuriousWakeup, Goto
<1>12. CASE Release(t)
  <2>1. PICK x \in held[t] : giving' = [giving EXCEPT ![t] = x]
                             /\ at' = [at EXCEPT ![t] = x[1]]
    BY <1>12 DEF Release
  <2>2. x \in Buffers /\ x[1] \in Blocks
    BY BufferFacts DEF Typed
  <2> QED
    BY <1>12, <2>1, <2>2 DEF Release, Goto, Typed, PCs
<1>13. CASE LockToFree(t)
  BY <1>13 DEF Typed, PCs, LockToFree, Goto
<1>14. CASE Push(t)
  <2>1. giving[t] \in Buffers
    BY <1>14 DEF Push, PlaceInv, Typed
  <2> QED
    BY <1>14, <2>1 DEF Push, Goto, Typed, PCs
<1>15. CASE Bump(t)
  BY <1>15 DEF Typed, PCs, Bump, Goto
<1>16. CASE NotifyOne(t)
  BY <1>16 DEF Typed, PCs, NotifyOne, Unlock, Goto, Asleep
<1> QED
  BY <1>1, <1>2, <1>3, <1>4, <1>5, <1>6, <1>7, <1>8,
     <1>9, <1>10, <1>11, <1>12, <1>13, <1>14, <1>15, <1>16 DEF Step

(* Every thread takes a buffer_mutex that is free, and lets go of the one  *)
(* it holds before it works on another block.                              *)
LEMMA LockStep ==
  ASSUME Typed, LockInv, NEW t \in Threads, Step(t)
  PROVE  LockInv'
<1> USE ThreadsAssumption DEF Typed, LockInv, InMutex
<1>1. CASE Rent(t)
  BY <1>1 DEF Rent, Goto
<1>2. CASE CheckCount(t)
  BY <1>2 DEF CheckCount, Miss, Goto
<1>3. CASE LockToTake(t)
  BY <1>3 DEF LockToTake, Goto
<1>4. CASE Take(t)
  BY <1>4 DEF Take, Miss, Unlock, Goto
<1>5. CASE Pop(t)
  BY <1>5 DEF Pop, Unlock, Goto
<1>6. CASE ReadSize(t)
  BY <1>6 DEF ReadSize, Goto
<1>7. CASE InitBlock(t)
  BY <1>7 DEF InitBlock, Goto
<1>8. CASE Rescan(t)
  BY <1>8 DEF Rescan, Goto
<1>9. CASE LockToWait(t)
  BY <1>9 DEF LockToWait, Goto
<1>10. CASE WaitCheck(t)
  BY <1>10 DEF WaitCheck, Unlock, Goto
<1>11. CASE SpuriousWakeup(t)
  BY <1>11 DEF SpuriousWakeup, Goto
<1>12. CASE Release(t)
  BY <1>12 DEF Release, Goto
<1>13. CASE LockToFree(t)
  BY <1>13 DEF LockToFree, Goto
<1>14. CASE Push(t)
  BY <1>14 DEF Push, Goto
<1>15. CASE Bump(t)
  BY <1>15 DEF Bump, Goto
<1>16. CASE NotifyOne(t)
  BY <1>16 DEF NotifyOne, Unlock, Goto, Asleep
<1> QED
  BY <1>1, <1>2, <1>3, <1>4, <1>5, <1>6, <1>7, <1>8,
     <1>9, <1>10, <1>11, <1>12, <1>13, <1>14, <1>15, <1>16 DEF Step

(* Free lists, and who holds what, change in three actions only.           *)
LEMMA ConservedStep ==
  ASSUME Typed, PlaceInv, Conserved, NEW t \in Threads, Step(t)
  PROVE  Conserved'
<1>1. CASE Rent(t)
  BY <1>1 DEF Rent, Conserved, FreeAtHome, HeldNotFree, OneBorrower, NoneLost
<1>2. CASE CheckCount(t)
  BY <1>2 DEF CheckCount, Conserved, FreeAtHome, HeldNotFree, OneBorrower, NoneLost
<1>3. CASE LockToTake(t)
  BY <1>3 DEF LockToTake, Conserved, FreeAtHome, HeldNotFree, OneBorrower, NoneLost
<1>4. CASE Take(t)
  BY <1>4 DEF Take, Conserved, FreeAtHome, HeldNotFree, OneBorrower, NoneLost
<1>5. CASE Pop(t)
  <2>0. blockCount' = blockCount
    BY <1>5 DEF Pop
  <2>1. PICK x \in free[at[t]] :
          /\ free' = [free EXCEPT ![at[t]] = @ \ {x}]
          /\ held' = [held EXCEPT ![t] = @ \cup {x}]
    BY <1>5 DEF Pop
  <2>2. /\ at[t] \in Blocks /\ at[t] <= blockCount
        /\ x \in BuffersOf(at[t]) /\ x[1] = at[t] /\ x \in Buffers
    BY AtFacts, BufferFacts DEF PlaceInv, Conserved, FreeAtHome
  <2>3. \A u \in Threads : x \notin held[u]
    BY <2>2 DEF Conserved, HeldNotFree
  <2>4. \A b \in Blocks : free'[b] = (IF b = at[t] THEN free[b] \ {x} ELSE free[b])
    BY <2>1, <2>2 DEF Typed
  <2>5. \A u \in Threads : held'[u] = (IF u = t THEN held[u] \cup {x} ELSE held[u])
    BY <2>1 DEF Typed
  <2>6. \A b \in 1 .. blockCount : b \in Blocks
    BY BlockCountFacts, SizesAssumption DEF Blocks
  <2>7. \A u \in Threads : \A y \in held[u] : y[1] \in Blocks
    BY BufferFacts DEF Typed
  <2>8. FreeAtHome'
    BY <2>0, <2>2, <2>4 DEF Conserved, FreeAtHome
  <2>9. HeldNotFree'
    <3> SUFFICES ASSUME NEW u \in Threads, NEW y \in held'[u]
                 PROVE  y[1] <= blockCount /\ y \notin free'[y[1]]
      BY <2>0 DEF HeldNotFree
    <3>1. CASE y = x
      BY <3>1, <2>2, <2>4, <2>5
    <3>2. CASE y # x
      <4>1. y \in held[u] /\ y[1] \in Blocks
        BY <3>2, <2>5, <2>7
      <4>2. y[1] <= blockCount /\ y \notin free[y[1]]
        BY <4>1 DEF Conserved, HeldNotFree
      <4> QED
        BY <3>2, <4>1, <4>2, <2>4
    <3> QED
      BY <3>1, <3>2
  <2>10. OneBorrower'
    <3> SUFFICES ASSUME NEW u \in Threads, NEW v \in Threads, u # v,
                        NEW y \in held'[u], y \in held'[v]
                 PROVE  FALSE
      BY DEF OneBorrower
    <3>1. y \in held[u] \cup {x} /\ (u # t => y \in held[u])
      BY <2>5
    <3>2. y \in held[v] \cup {x} /\ (v # t => y \in held[v])
      BY <2>5
    <3>3. y # x
      BY <3>1, <3>2, <2>3
    <3>4. y \in held[u] /\ y \in held[v]
      BY <3>1, <3>2, <3>3
    <3> QED
      BY <3>4 DEF Conserved, OneBorrower
  <2>11. NoneLost'
    <3> SUFFICES ASSUME NEW b \in 1 .. blockCount, NEW y \in BuffersOf(b)
                 PROVE  y \in free'[b] \/ \E u \in Threads : y \in held'[u]
      BY <2>0 DEF NoneLost
    <3>1. b \in Blocks /\ (y \in free[b] \/ \E u \in Threads : y \in held[u])
      BY <2>6 DEF Conserved, NoneLost
    <3>2. y = x => b = at[t]
      BY <3>1, <2>2, BufferFacts
    <3> QED
      BY <3>1, <3>2, <2>2, <2>4, <2>5
  <2> QED
    BY <2>8, <2>9, <2>10, <2>11 DEF Conserved
<1>6. CASE ReadSize(t)
  BY <1>6 DEF ReadSize, Conserved, FreeAtHome, HeldNotFree, OneBorrower, NoneLost
<1>7. CASE InitBlock(t)
  <2>1. held' = held
    BY <1>7 DEF InitBlock
  <2>2. CASE blockCount' = blockCount /\ free' = free
    BY <2>1, <2>2 DEF Conserved, FreeAtHome, HeldNotFree, OneBorrower, NoneLost
  <2>3. CASE /\ blockCount < BlockMaxCount
             /\ blockCount' = blockCount + 1
             /\ free' = [free EXCEPT ![blockCount + 1] = BuffersOf(blockCount + 1)]
    <3> DEFINE n == blockCount + 1
    <3>1. n \in Blocks /\ blockCount \in Int /\ n = blockCount + 1 /\ blockCount' = n
      BY <2>3, BlockCountFacts
    <3>2. \A b \in Blocks : free'[b] = (IF b = n THEN BuffersOf(n) ELSE free[b])
      BY <2>3, <3>1 DEF Typed
    <3>3. \A b \in Blocks : b \in Int
      BY BlockFacts
    <3> HIDE DEF n
    <3>4. FreeAtHome'
      BY <3>1, <3>2, <3>3 DEF Conserved, FreeAtHome
    <3>5. HeldNotFree'
      <4> SUFFICES ASSUME NEW u \in Threads, NEW x \in held[u]
                   PROVE  x[1] <= blockCount' /\ x \notin free'[x[1]]
        BY <2>1 DEF HeldNotFree
      <4>1. x[1] <= blockCount /\ x \notin free[x[1]]
        BY DEF Conserved, HeldNotFree
      <4>2. x[1] \in Blocks /\ x[1] \in Int
        BY <3>3, BufferFacts DEF Typed
      <4> QED
        BY <4>1, <4>2, <3>1, <3>2
    <3>6. OneBorrower'
      BY <2>1 DEF Conserved, OneBorrower
    <3>7. NoneLost'
      <4> SUFFICES ASSUME NEW b \in 1 .. blockCount', NEW x \in BuffersOf(b)
                   PROVE  x \in free'[b] \/ \E u \in Threads : x \in held'[u]
        BY DEF NoneLost
      <4>1. CASE b = n
        BY <4>1, <3>1, <3>2
      <4>2. CASE b # n
        <5>1. b \in 1 .. blockCount /\ b \in Blocks
          BY <4>2, <3>1, SizesAssumption DEF Blocks
        <5> QED
          BY <5>1, <4>2, <3>2, <2>1 DEF Conserved, NoneLost
      <4> QED
        BY <4>1, <4>2
    <3> QED
      BY <3>4, <3>5, <3>6, <3>7 DEF Conserved
  <2> QED
    BY <1>7, <2>2, <2>3 DEF InitBlock
<1>8. CASE Rescan(t)
  BY <1>8 DEF Rescan, Conserved, FreeAtHome, HeldNotFree, OneBorrower, NoneLost
<1>9. CASE LockToWait(t)
  BY <1>9 DEF LockToWait, Conserved, FreeAtHome, HeldNotFree, OneBorrower, NoneLost
<1>10. CASE WaitCheck(t)
  BY <1>10 DEF WaitCheck, Conserved, FreeAtHome, HeldNotFree, OneBorrower, NoneLost
<1>11. CASE SpuriousWakeup(t)
  BY <1>11 DEF SpuriousWakeup, Conserved, FreeAtHome, HeldNotFree, OneBorrower, NoneLost
<1>12. CASE Release(t)
  BY <1>12 DEF Release, Conserved, FreeAtHome, HeldNotFree, OneBorrower, NoneLost
<1>13. CASE LockToFree(t)
  BY <1>13 DEF LockToFree, Conserved, FreeAtHome, HeldNotFree, OneBorrower, NoneLost
<1>14. CASE Push(t)
  <2> DEFINE x == giving[t]
  <2>0. blockCount' = blockCount
    BY <1>14 DEF Push
  <2>1. /\ free' = [free EXCEPT ![at[t]] = @ \cup {x}]
        /\ held' = [held EXCEPT ![t] = @ \ {x}]
    BY <1>14 DEF Push
  <2>2. /\ at[t] \in Blocks /\ at[t] <= blockCount /\ x \in held[t]
        /\ x \in BuffersOf(at[t]) /\ x[1] = at[t] /\ x \in Buffers
    BY <1>14, AtFacts, BufferFacts DEF Push, PlaceInv, Typed
  <2> HIDE DEF x
  <2>3. \A u \in Threads \ {t} : x \notin held[u]
    BY <2>2 DEF Conserved, OneBorrower
  <2>4. \A b \in Blocks : free'[b] = (IF b = at[t] THEN free[b] \cup {x} ELSE free[b])
    BY <2>1, <2>2 DEF Typed
  <2>5. \A u \in Threads : held'[u] = (IF u = t THEN held[u] \ {x} ELSE held[u])
    BY <2>1 DEF Typed
  <2>6. \A b \in 1 .. blockCount : b \in Blocks
    BY BlockCountFacts, SizesAssumption DEF Blocks
  <2>7. \A u \in Threads : \A y \in held[u] : y[1] \in Blocks
    BY BufferFacts DEF Typed
  <2>8. FreeAtHome'
    <3>1. \A b \in Blocks : free[b] \subseteq (IF b <= blockCount THEN BuffersOf(b) ELSE {})
      BY DEF Conserved, FreeAtHome
    <3>2. ASSUME NEW b \in Blocks
          PROVE  free'[b] \subseteq (IF b <= blockCount THEN BuffersOf(b) ELSE {})
      <4>1. CASE b = at[t]
        <5>1. b <= blockCount /\ x \in BuffersOf(b)
          BY <2>2, <4>1
        <5>2. free[b] \subseteq BuffersOf(b)
          BY <3>1, <5>1
        <5>3. free'[b] = free[b] \cup {x}
          BY <2>4, <4>1
        <5>. QED  BY <5>1, <5>2, <5>3
      <4>2. CASE b # at[t]
        BY <2>4, <3>1, <4>2
      <4>. QED  BY <4>1, <4>2
    <3>. QED  BY <2>0, <3>2 DEF FreeAtHome
  <2>9. HeldNotFree'
    <3> SUFFICES ASSUME NEW u \in Threads, NEW y \in held'[u]
                 PROVE  y[1] <= blockCount /\ y \notin free'[y[1]]
      BY <2>0 DEF HeldNotFree
    <3>1. CASE y = x
      BY <3>1, <2>2, <2>4, <2>5, <2>3
    <3>2. CASE y # x
      <4>1. y \in held[u] /\ y[1] \in Blocks
        BY <3>2, <2>5, <2>7
      <4>2. y[1] <= blockCount /\ y \notin free[y[1]]
        BY <4>1 DEF Conserved, HeldNotFree
      <4> QED
        BY <3>2, <4>1, <4>2, <2>4
    <3> QED
      BY <3>1, <3>2
  <2>10. OneBorrower'
    <3> SUFFICES ASSUME NEW u \in Threads, NEW v \in Threads, u # v,
                        NEW y \in held'[u], y \in held'[v]
                 PROVE  FALSE
      BY DEF OneBorrower
    <3>1. y \in held[u]
      BY <2>5
    <3>2. y \in held[v]
      BY <2>5
    <3> QED
      BY <3>1, <3>2 DEF Conserved, OneBorrower
  <2>11. NoneLost'
    <3> SUFFICES ASSUME NEW b \in 1 .. blockCount, NEW y \in BuffersOf(b)
                 PROVE  y \in free'[b] \/ \E u \in Threads : y \in held'[u]
      BY <2>0 DEF NoneLost
    <3>1. b \in Blocks /\ (y \in free[b] \/ \E u \in Threads : y \in held[u])
      BY <2>6 DEF Conserved, NoneLost
    <3>2. y = x => b = at[t]
      BY <3>1, <2>2, BufferFacts
    <3> QED
      BY <3>1, <3>2, <2>2, <2>4, <2>5
  <2> QED
    BY <2>8, <2>9, <2>10, <2>11 DEF Conserved
<1>15. CASE Bump(t)
  BY <1>15 DEF Bump, Conserved, FreeAtHome, HeldNotFree, OneBorrower, NoneLost
<1>16. CASE NotifyOne(t)
  BY <1>16 DEF NotifyOne, Conserved, FreeAtHome, HeldNotFree, OneBorrower, NoneLost
<1> QED
  BY <1>1, <1>2, <1>3, <1>4, <1>5, <1>6, <1>7, <1>8,
     <1>9, <1>10, <1>11, <1>12, <1>13, <1>14, <1>15, <1>16 DEF Step

(* The mutex of a block keeps the other threads from emptying the list a   *)
(* thread is about to pop from.                                            *)
LEMMA PlaceStep ==
  ASSUME Typed, LockInv, PlaceInv, Conserved, NEW t \in Threads, Step(t)
  PROVE  PlaceInv'
<1> SUFFICES ASSUME NEW u \in Threads
             PROVE  (/\ at[u] <= blockCount
                     /\ pc[u] \in {"pop", "bump"} => free[at[u]] # {}
                     /\ pc[u] \in {"free", "push"} =>
                          giving[u] \in held[u] /\ giving[u][1] = at[u])'
  BY DEF PlaceInv
<1>0. /\ at[u] <= blockCount /\ at[u] \in Int /\ at[u] \in Blocks
      /\ at[t] <= blockCount /\ at[t] \in Int /\ at[t] \in Blocks
      /\ blockCount \in Int /\ 1 <= blockCount
      /\ pc[u] \in {"pop", "bump"} => free[at[u]] # {}
      /\ pc[u] \in {"free", "push"} => giving[u] \in held[u] /\ giving[u][1] = at[u]
  BY AtFacts, BlockCountFacts, BlockFacts DEF PlaceInv
<1>1. CASE Rent(t)
  BY <1>1, <1>0 DEF Typed, Rent, Goto
<1>2. CASE CheckCount(t)
  <2>1. CASE count[at[t]] # 0
    BY <1>2, <2>1, <1>0 DEF Typed, CheckCount, Goto
  <2>2. CASE count[at[t]] = 0 /\ Miss(t)
    <3>1. UNCHANGED <<blockCount, free, held, giving>>
      BY <1>2 DEF CheckCount
    <3>2. CASE u = t
      <4>1. at'[t] \in Int /\ at'[t] <= at[t] /\ pc'[t] \notin {"pop", "bump", "free", "push"}
        BY <2>2, MissFacts, BlockFacts
      <4> QED
        BY <1>0, <3>1, <3>2, <4>1
    <3>3. CASE u # t
      BY <1>0, <2>2, <3>1, <3>3, MissFacts
    <3> QED
      BY <3>2, <3>3
  <2> QED
    BY <1>2, <2>1, <2>2 DEF CheckCount
<1>3. CASE LockToTake(t)
  BY <1>3, <1>0 DEF Typed, LockToTake, Goto
<1>4. CASE Take(t)
  <2>1. CASE free[at[t]] # {}
    BY <1>4, <2>1, <1>0 DEF Typed, Take, Goto
  <2>2. CASE free[at[t]] = {} /\ Miss(t)
    <3>1. at'[t] \in Int /\ at'[t] \in Blocks
      BY <2>2, MissFacts, BlockFacts
    <3> QED
      BY <1>4, <2>2, <3>1, <1>0, MissFacts DEF Typed, Take
  <2> QED
    BY <1>4, <2>1, <2>2 DEF Take
<1>5. CASE Pop(t)
  <2>1. PICK x \in free[at[t]] :
          /\ free' = [free EXCEPT ![at[t]] = @ \ {x}]
          /\ held' = [held EXCEPT ![t] = @ \cup {x}]
    BY <1>5 DEF Pop
  <2>2. u # t => ~(pc[u] \in {"pop", "bump"} /\ at[u] = at[t])
    BY <1>5, <1>0 DEF Pop, LockInv, InMutex
  <2> QED
    BY <1>5, <1>0, <2>1, <2>2 DEF Typed, Pop, Goto
<1>6. CASE ReadSize(t)
  BY <1>6, <1>0 DEF Typed, ReadSize, Goto
<1>7. CASE InitBlock(t)
  <2>1. UNCHANGED <<at, held, giving>> /\ blockCount' \in Int /\ blockCount <= blockCount'
    BY <1>7, <1>0 DEF InitBlock
  <2>2. pc'[u] = (IF u = t THEN "rescan" ELSE pc[u])
    BY <1>7 DEF InitBlock, Goto, Typed
  <2>3. free'[at[u]] = free[at[u]]
    BY <1>7, <1>0 DEF InitBlock, Typed
  <2> QED
    BY <1>0, <2>1, <2>2, <2>3
<1>8. CASE Rescan(t)
  BY <1>8, <1>0 DEF Typed, Rescan, Goto
<1>9. CASE LockToWait(t)
  BY <1>9, <1>0 DEF Typed, LockToWait, Goto
<1>10. CASE WaitCheck(t)
  BY <1>10, <1>0 DEF Typed, WaitCheck, Unlock, Goto
<1>11. CASE SpuriousWakeup(t)
  BY <1>11, <1>0 DEF Typed, SpuriousWakeup, Goto
<1>12. CASE Release(t)
  <2>1. PICK x \in held[t] : giving' = [giving EXCEPT ![t] = x]
                             /\ at' = [at EXCEPT ![t] = x[1]]
    BY <1>12 DEF Release
  <2>2. x[1] <= blockCount
    BY DEF Conserved, HeldNotFree
  <2>3. UNCHANGED <<blockCount, free, held>> /\ pc' = [pc EXCEPT ![t] = "free"]
    BY <1>12 DEF Release, Goto
  <2> QED
    BY <1>0, <2>1, <2>2, <2>3 DEF Typed
<1>13. CASE LockToFree(t)
  BY <1>13, <1>0 DEF Typed, LockToFree, Goto
<1>14. CASE Push(t)
  <2>1. u # t => held'[u] = held[u] /\ giving'[u] = giving[u] /\ pc'[u] = pc[u]
    BY <1>14 DEF Push, Goto, Typed
  <2>2. u = t => pc'[u] = "bump" /\ giving[t] \in free'[at[u]]
    BY <1>14, <1>0 DEF Push, Goto, Typed
  <2>3. free[at[u]] \subseteq free'[at[u]] /\ UNCHANGED <<at, blockCount>>
    BY <1>14, <1>0 DEF Push, Typed
  <2> QED
    BY <1>0, <2>1, <2>2, <2>3
<1>15. CASE Bump(t)
  BY <1>15, <1>0 DEF Typed, Bump, Goto
<1>16. CASE NotifyOne(t)
  BY <1>16, <1>0 DEF Typed, NotifyOne, Unlock, Goto, Asleep
<1> QED
  BY <1>1, <1>2, <1>3, <1>4, <1>5, <1>6, <1>7, <1>8,
     <1>9, <1>10, <1>11, <1>12, <1>13, <1>14, <1>15, <1>16 DEF Step

(* The flag is left set in one place, at the limit.                        *)
LEMMA FlagStep ==
  ASSUME Typed, StuckFlagOnlyAtLimit, NEW t \in Threads, Step(t)
  PROVE  StuckFlagOnlyAtLimit'
<1> USE DEF StuckFlagOnlyAtLimit
<1>1. CASE Rent(t)
  BY <1>1 DEF Rent
<1>2. CASE CheckCount(t)
  BY <1>2 DEF CheckCount
<1>3. CASE LockToTake(t)
  BY <1>3 DEF LockToTake
<1>4. CASE Take(t)
  BY <1>4 DEF Take
<1>5. CASE Pop(t)
  BY <1>5 DEF Pop
<1>6. CASE ReadSize(t)
  BY <1>6 DEF ReadSize
<1>7. CASE InitBlock(t)
  <2>1. making \in BOOLEAN /\ blockCount \in Int /\ blockCount <= BlockMaxCount /\ BlockMaxCount \in Int
    BY BlockCountFacts, FirstBlock DEF Typed
  <2>2. CASE making
    BY <1>7, <2>1, <2>2 DEF InitBlock
  <2>3. CASE ~making /\ blockCount >= BlockMaxCount
    <3>1. blockCount = BlockMaxCount /\ ~(blockCount < BlockMaxCount)
      BY <2>1, <2>3
    <3>2. blockCount' = blockCount
      BY <1>7, <2>3, <3>1 DEF InitBlock
    <3> QED
      BY <3>1, <3>2
  <2>4. CASE ~making /\ blockCount < BlockMaxCount
    <3>1. making' = making
      BY <1>7, <2>1, <2>4 DEF InitBlock
    <3> QED
      BY <3>1, <2>4
  <2> QED
    BY <2>1, <2>2, <2>3, <2>4
<1>8. CASE Rescan(t)
  BY <1>8 DEF Rescan
<1>9. CASE LockToWait(t)
  BY <1>9 DEF LockToWait
<1>10. CASE WaitCheck(t)
  BY <1>10 DEF WaitCheck
<1>11. CASE SpuriousWakeup(t)
  BY <1>11 DEF SpuriousWakeup
<1>12. CASE Release(t)
  BY <1>12 DEF Release
<1>13. CASE LockToFree(t)
  BY <1>13 DEF LockToFree
<1>14. CASE Push(t)
  BY <1>14 DEF Push
<1>15. CASE Bump(t)
  BY <1>15 DEF Bump
<1>16. CASE NotifyOne(t)
  BY <1>16 DEF NotifyOne
<1> QED
  BY <1>1, <1>2, <1>3, <1>4, <1>5, <1>6, <1>7, <1>8,
     <1>9, <1>10, <1>11, <1>12, <1>13, <1>14, <1>15, <1>16 DEF Step

-----------------------------------------------------------------------------
(* Counting.  A block's list is finite and holds no more than the block.   *)
LEMMA BlockFinite ==
  ASSUME NEW b \in Blocks
  PROVE  IsFiniteSet(BuffersOf(b)) /\ Cardinality(BuffersOf(b)) = BufferCount
<1>1. IsFiniteSet(1 .. BufferCount) /\ Cardinality(1 .. BufferCount) = BufferCount
  BY FS_Interval, SizesAssumption
<1>2. IsFiniteSet({b}) /\ Cardinality({b}) = 1
  BY FS_Singleton
<1>3. /\ IsFiniteSet({b} \X (1 .. BufferCount))
      /\ Cardinality({b} \X (1 .. BufferCount)) = 1 * BufferCount
  <2>1. /\ IsFiniteSet({b} \X (1 .. BufferCount))
        /\ Cardinality({b} \X (1 .. BufferCount))
             = Cardinality({b}) * Cardinality(1 .. BufferCount)
    BY <1>1, <1>2, FS_Product
  <2>. QED  BY <1>1, <1>2, <2>1
<1> QED
  BY <1>3, SizesAssumption DEF BuffersOf

LEMMA FreeFinite ==
  ASSUME Conserved, NEW b \in Blocks
  PROVE  /\ IsFiniteSet(free[b])
         /\ Cardinality(free[b]) \in Nat
         /\ Cardinality(free[b]) <= BufferCount
         /\ free[b] # {} => Cardinality(free[b]) >= 1
<1>1. free[b] \in SUBSET BuffersOf(b)
  BY DEF Conserved, FreeAtHome
<1>2. IsFiniteSet(free[b]) /\ Cardinality(free[b]) <= BufferCount
  BY <1>1, BlockFinite, FS_Subset
<1>3. Cardinality(free[b]) \in Nat
  BY <1>2, FS_CardinalityType
<1>4. free[b] # {} => Cardinality(free[b]) # 0
  BY <1>2, FS_EmptySet
<1> QED
  BY <1>2, <1>3, <1>4

LEMMA CountInit == Init => CountInv
<1> SUFFICES ASSUME Init, NEW b \in Blocks
             PROVE  count[b] = Cardinality(free[b]) - (IF OneShort(b) THEN 1 ELSE 0)
  BY DEF CountInv
<1>1. ~OneShort(b)
  BY DEF Init, OneShort
<1>2. CASE b = 1
  BY <1>1, <1>2, BlockFinite, SizesAssumption DEF Init
<1>3. CASE b # 1
  BY <1>1, <1>3, FS_EmptySet DEF Init
<1> QED
  BY <1>2, <1>3

(* A step that leaves the lists, the counters and who is between them      *)
(* alone.                                                                  *)
LEMMA CountStutter ==
  ASSUME CountInv, UNCHANGED <<free, count>>,
         \A u \in Threads : /\ pc'[u] \in {"pop", "bump"} <=> pc[u] \in {"pop", "bump"}
                            /\ pc[u] \in {"pop", "bump"} => at'[u] = at[u]
  PROVE  CountInv'
<1>1. \A b \in Blocks : OneShort(b)' <=> OneShort(b)
  BY DEF OneShort
<1> QED
  BY <1>1 DEF CountInv

(* While t holds the mutex of its block, only t can make its counter       *)
(* one short; the other blocks keep what they have.                        *)
LEMMA OneShortStep ==
  ASSUME Typed, LockInv, NEW t \in Threads, InMutex(t), at' = at,
         \A u \in Threads \ {t} : pc'[u] = pc[u]
  PROVE  /\ OneShort(at[t]) <=> pc[t] \in {"pop", "bump"}
         /\ OneShort(at[t])' <=> pc'[t] \in {"pop", "bump"}
         /\ \A b \in Blocks \ {at[t]} : OneShort(b)' <=> OneShort(b)
<1>1. \A u \in Threads \ {t} : ~(at[u] = at[t] /\ pc[u] \in {"pop", "bump"})
  BY AtFacts DEF LockInv, InMutex
<1> QED
  BY <1>1 DEF OneShort

(* A step under the mutex of one block settles that block's count and      *)
(* leaves the others alone.                                                *)
LEMMA CountUnderMutex ==
  ASSUME Typed, LockInv, CountInv, NEW t \in Threads, InMutex(t), at' = at,
         \A u \in Threads \ {t} : pc'[u] = pc[u],
         \A b \in Blocks \ {at[t]} : free'[b] = free[b] /\ count'[b] = count[b],
         count'[at[t]] = Cardinality(free'[at[t]])
                           - (IF pc'[t] \in {"pop", "bump"} THEN 1 ELSE 0)
  PROVE  CountInv'
<1> SUFFICES ASSUME NEW b \in Blocks
             PROVE  count'[b] = Cardinality(free'[b]) - (IF OneShort(b)' THEN 1 ELSE 0)
  BY DEF CountInv
<1>1. CASE b = at[t]
  <2>1. OneShort(b)' <=> pc'[t] \in {"pop", "bump"}
    BY <1>1, OneShortStep
  <2> QED
    BY <1>1, <2>1
<1>2. CASE b # at[t]
  <2>1. OneShort(b)' <=> OneShort(b)
    BY <1>2, OneShortStep
  <2>2. count[b] = Cardinality(free[b]) - (IF OneShort(b) THEN 1 ELSE 0)
    BY DEF CountInv
  <2>3. free'[b] = free[b] /\ count'[b] = count[b]
    BY <1>2
  <2> QED
    BY <2>1, <2>2, <2>3
<1> QED
  BY <1>1, <1>2

LEMMA CountStep ==
  ASSUME Typed, LockInv, PlaceInv, Conserved, CountInv, NEW t \in Threads, Step(t)
  PROVE  CountInv'
<1>0. /\ at[t] \in Blocks /\ IsFiniteSet(free[at[t]])
      /\ Cardinality(free[at[t]]) \in Nat
      /\ pc[t] \in {"take", "pop", "push", "bump"} =>
           count[at[t]] = Cardinality(free[at[t]])
                            - (IF pc[t] \in {"pop", "bump"} THEN 1 ELSE 0)
  <2>1. at[t] \in Blocks /\ IsFiniteSet(free[at[t]]) /\ Cardinality(free[at[t]]) \in Nat
    BY AtFacts, FreeFinite
  <2>2. ASSUME pc[t] \in {"take", "pop", "push", "bump"}
        PROVE  OneShort(at[t]) <=> pc[t] \in {"pop", "bump"}
    <3>1. \A u \in Threads \ {t} : ~(at[u] = at[t] /\ pc[u] \in {"pop", "bump"})
      BY <2>1, <2>2 DEF LockInv, InMutex
    <3> QED
      BY <3>1 DEF OneShort
  <2> QED
    BY <2>1, <2>2 DEF CountInv
<1>1. CASE Rent(t)
  BY <1>1, CountStutter DEF Rent, Goto, Typed
<1>2. CASE CheckCount(t)
  BY <1>2, CountStutter, MissFacts DEF CheckCount, Goto, Typed
<1>3. CASE LockToTake(t)
  BY <1>3, CountStutter DEF LockToTake, Goto, Typed
<1>4. CASE Take(t)
  <2>1. CASE free[at[t]] # {}
    <3>1. /\ InMutex(t) /\ at' = at /\ pc'[t] = "pop" /\ free' = free
          /\ \A u \in Threads \ {t} : pc'[u] = pc[u]
      BY <1>4, <2>1 DEF Take, InMutex, Goto, Typed
    <3>2. /\ count'[at[t]] = count[at[t]] - 1
          /\ \A b \in Blocks \ {at[t]} : count'[b] = count[b]
      BY <1>4, <2>1, <1>0 DEF Take, Typed
    <3>3. count[at[t]] = Cardinality(free[at[t]])
      BY <1>4, <1>0 DEF Take
    <3> QED
      BY <3>1, <3>2, <3>3, <1>0, CountUnderMutex
  <2>2. CASE free[at[t]] = {}
    <3>1. UNCHANGED <<free, count>> /\ Miss(t) /\ pc[t] = "take"
      BY <1>4, <2>2 DEF Take
    <3> QED
      BY <3>1, CountStutter, MissFacts
  <2> QED
    BY <2>1, <2>2
<1>5. CASE Pop(t)
  <2>1. PICK x \in free[at[t]] : free' = [free EXCEPT ![at[t]] = @ \ {x}]
    BY <1>5 DEF Pop
  <2>2. /\ InMutex(t) /\ at' = at /\ pc'[t] = "idle" /\ count' = count
        /\ \A u \in Threads \ {t} : pc'[u] = pc[u]
    BY <1>5 DEF Pop, InMutex, Goto, Typed
  <2>3. /\ free'[at[t]] = free[at[t]] \ {x}
        /\ \A b \in Blocks \ {at[t]} : free'[b] = free[b]
    BY <2>1, <1>0 DEF Typed
  <2>4. Cardinality(free'[at[t]]) = Cardinality(free[at[t]]) - 1
    BY <2>3, <1>0, FS_RemoveElement
  <2>5. count[at[t]] = Cardinality(free[at[t]]) - 1
    BY <1>5, <1>0 DEF Pop
  <2>6. count'[at[t]] = Cardinality(free'[at[t]])
    BY <2>2, <2>4, <2>5, <1>0
  <2>7. count'[at[t]] = Cardinality(free'[at[t]]) - (IF pc'[t] \in {"pop", "bump"} THEN 1 ELSE 0)
    BY <2>2, <2>4, <2>6, <1>0
  <2>8. \A b \in Blocks \ {at[t]} : free'[b] = free[b] /\ count'[b] = count[b]
    BY <2>2, <2>3
  <2> QED
    BY <2>2, <2>7, <2>8, CountUnderMutex
<1>6. CASE ReadSize(t)
  BY <1>6, CountStutter DEF ReadSize, Goto, Typed
<1>7. CASE InitBlock(t)
  <2>1. at' = at /\ \A u \in Threads : pc'[u] \in {"pop", "bump"} <=> pc[u] \in {"pop", "bump"}
    BY <1>7 DEF InitBlock, Goto, Typed
  <2>2. CASE UNCHANGED <<free, count>>
    BY <2>1, <2>2, CountStutter
  <2>3. CASE /\ blockCount < BlockMaxCount
             /\ free' = [free EXCEPT ![blockCount + 1] = BuffersOf(blockCount + 1)]
             /\ count' = [count EXCEPT ![blockCount + 1] = BufferCount]
    <3> DEFINE n == blockCount + 1
    <3>1. n \in Blocks /\ \A u \in Threads : at[u] # n
      BY <2>3, BlockCountFacts, AtFacts DEF PlaceInv
    <3>2. \A b \in Blocks : free'[b] = (IF b = n THEN BuffersOf(n) ELSE free[b])
      BY <2>3, <3>1 DEF Typed
    <3>3. \A b \in Blocks : count'[b] = (IF b = n THEN BufferCount ELSE count[b])
      BY <2>3, <3>1 DEF Typed
    <3> HIDE DEF n
    <3> SUFFICES ASSUME NEW b \in Blocks
                 PROVE  count'[b] = Cardinality(free'[b]) - (IF OneShort(b)' THEN 1 ELSE 0)
      BY DEF CountInv
    <3>4. OneShort(b)' <=> OneShort(b)
      BY <2>1 DEF OneShort
    <3>5. CASE b = n
      <4>1. ~OneShort(b)
        BY <3>1, <3>5 DEF OneShort
      <4>2. Cardinality(free'[b]) = BufferCount /\ count'[b] = BufferCount
        BY <3>2, <3>3, <3>5, BlockFinite
      <4> QED
        BY <3>4, <4>1, <4>2, SizesAssumption
    <3>6. CASE b # n
      BY <3>2, <3>3, <3>4, <3>6 DEF CountInv
    <3> QED
      BY <3>5, <3>6
  <2> QED
    BY <1>7, <2>2, <2>3 DEF InitBlock
<1>8. CASE Rescan(t)
  BY <1>8, CountStutter DEF Rescan, Goto, Typed
<1>9. CASE LockToWait(t)
  BY <1>9, CountStutter DEF LockToWait, Goto, Typed
<1>10. CASE WaitCheck(t)
  BY <1>10, CountStutter DEF WaitCheck, Unlock, Goto, Typed
<1>11. CASE SpuriousWakeup(t)
  BY <1>11, CountStutter DEF SpuriousWakeup, Goto, Typed
<1>12. CASE Release(t)
  BY <1>12, CountStutter DEF Release, Goto, Typed
<1>13. CASE LockToFree(t)
  BY <1>13, CountStutter DEF LockToFree, Goto, Typed
<1>14. CASE Push(t)
  <2> DEFINE x == giving[t]
  <2>1. /\ free' = [free EXCEPT ![at[t]] = @ \cup {x}]
        /\ InMutex(t) /\ at' = at /\ pc'[t] = "bump" /\ count' = count
        /\ \A u \in Threads \ {t} : pc'[u] = pc[u]
    BY <1>14 DEF Push, InMutex, Goto, Typed
  <2>2. x \in held[t] /\ x[1] = at[t] /\ x \notin free[at[t]]
    BY <1>14 DEF Push, PlaceInv, Conserved, HeldNotFree
  <2> HIDE DEF x
  <2>3. /\ free'[at[t]] = free[at[t]] \cup {x}
        /\ \A b \in Blocks \ {at[t]} : free'[b] = free[b]
    BY <2>1, <1>0 DEF Typed
  <2>4. Cardinality(free'[at[t]]) = Cardinality(free[at[t]]) + 1
    <3>1. IsFiniteSet(free[at[t]]) /\ x \notin free[at[t]]
      BY <1>0, <2>2
    <3>. QED  BY <2>3, <3>1, FS_AddElement
  <2>5. count[at[t]] = Cardinality(free[at[t]])
    BY <1>14, <1>0 DEF Push
  <2>6. count'[at[t]] = Cardinality(free'[at[t]]) - (IF pc'[t] \in {"pop", "bump"} THEN 1 ELSE 0)
    BY <2>1, <2>4, <2>5, <1>0
  <2>7. \A b \in Blocks \ {at[t]} : free'[b] = free[b] /\ count'[b] = count[b]
    BY <2>1, <2>3
  <2> QED
    BY <2>1, <2>6, <2>7, CountUnderMutex
<1>15. CASE Bump(t)
  <2>1. /\ InMutex(t) /\ at' = at /\ pc'[t] = "notify" /\ free' = free
        /\ \A u \in Threads \ {t} : pc'[u] = pc[u]
    BY <1>15 DEF Bump, InMutex, Goto, Typed
  <2>2. /\ count'[at[t]] = count[at[t]] + 1
        /\ \A b \in Blocks \ {at[t]} : count'[b] = count[b]
    BY <1>15, <1>0 DEF Bump, Typed
  <2>3. count[at[t]] = Cardinality(free[at[t]]) - 1
    BY <1>15, <1>0 DEF Bump
  <2> QED
    BY <2>1, <2>2, <2>3, <1>0, CountUnderMutex
<1>16. CASE NotifyOne(t)
  BY <1>16, CountStutter DEF NotifyOne, Unlock, Goto, Asleep, Typed
<1> QED
  BY <1>1, <1>2, <1>3, <1>4, <1>5, <1>6, <1>7, <1>8,
     <1>9, <1>10, <1>11, <1>12, <1>13, <1>14, <1>15, <1>16 DEF Step

-----------------------------------------------------------------------------
(* The whole invariant.                                                    *)
LEMMA PoolInit == Init => PoolInv
<1> SUFFICES ASSUME Init PROVE PoolInv
  OBVIOUS
<1>1. Typed
  BY TypedInit
<1>2. LockInv
  BY ThreadsAssumption DEF Init, LockInv, InMutex
<1>3. PlaceInv
  BY DEF Init, PlaceInv
<1>4. Conserved
  <2>1. FreeAtHome
    BY DEF Init, FreeAtHome
  <2>2. HeldNotFree /\ OneBorrower
    BY DEF Init, HeldNotFree, OneBorrower
  <2>3. NoneLost
    BY FirstBlock DEF Init, NoneLost
  <2> QED
    BY <2>1, <2>2, <2>3 DEF Conserved
<1>5. StuckFlagOnlyAtLimit
  BY DEF Init, StuckFlagOnlyAtLimit
<1> QED
  BY <1>1, <1>2, <1>3, <1>4, <1>5, CountInit DEF PoolInv

LEMMA PoolStep == PoolInv /\ [Next]_vars => PoolInv'
<1> SUFFICES ASSUME PoolInv, [Next]_vars PROVE PoolInv'
  OBVIOUS
<1>1. ASSUME NEW t \in Threads, Step(t)
      PROVE  PoolInv'
  BY <1>1, TypedStep, LockStep, PlaceStep, ConservedStep, FlagStep, CountStep DEF PoolInv
<1>2. CASE UNCHANGED vars
  BY <1>2 DEF vars, PoolInv, Typed, LockInv, InMutex, PlaceInv, Conserved, FreeAtHome,
              HeldNotFree, OneBorrower, NoneLost, StuckFlagOnlyAtLimit, CountInv, OneShort
<1> QED
  BY <1>1, <1>2 DEF Next

THEOREM PoolInvariant == Spec => []PoolInv
BY PoolInit, PoolStep, PTL DEF Spec

(* No buffer of the pool is ever lost, lent twice, or on a list and lent   *)
(* at the same time, whatever the threads do and however many there are.   *)
THEOREM BuffersConserved == Spec => []Conserved
<1>1. PoolInv => Conserved
  BY DEF PoolInv
<1> QED
  BY <1>1, PoolInvariant, PTL

(* The counter that rent() reads without the lock is exact whenever the    *)
(* lock is free, and errs on the side of an empty block otherwise.         *)
THEOREM CountsAgree == Spec => []CountAgrees
<1>1. ASSUME PoolInv PROVE CountAgrees
  <2> SUFFICES ASSUME NEW b \in Blocks
               PROVE  /\ count[b] <= Cardinality(free[b])
                      /\ mutex[b] = NoThread => count[b] = Cardinality(free[b])
    BY DEF CountAgrees
  <2>1. Cardinality(free[b]) \in Nat
    BY <1>1, FreeFinite DEF PoolInv
  <2>2. count[b] = Cardinality(free[b]) - (IF OneShort(b) THEN 1 ELSE 0)
    BY <1>1 DEF PoolInv, CountInv
  <2>3. mutex[b] = NoThread => ~OneShort(b)
    BY <1>1, ThreadsAssumption DEF PoolInv, LockInv, InMutex, OneShort
  <2> QED
    BY <2>1, <2>2, <2>3
<1> QED
  BY <1>1, PoolInvariant, PTL

(* Types, the bounds of the unsigned counters among them: no decrement of  *)
(* free_buffer_count wraps, no increment exceeds buffer_count.             *)
THEOREM TypesCorrect == Spec => []TypeOK
<1>1. ASSUME PoolInv PROVE TypeOK
  <2>1. count \in [Blocks -> 0 .. BufferCount]
    <3> SUFFICES ASSUME NEW b \in Blocks PROVE count[b] \in 0 .. BufferCount
      BY <1>1 DEF PoolInv, Typed
    <3>1. /\ Cardinality(free[b]) \in Nat /\ Cardinality(free[b]) <= BufferCount
          /\ free[b] # {} => Cardinality(free[b]) >= 1
      BY <1>1, FreeFinite DEF PoolInv
    <3>2. count[b] = Cardinality(free[b]) - (IF OneShort(b) THEN 1 ELSE 0)
      BY <1>1 DEF PoolInv, CountInv
    <3>3. OneShort(b) => free[b] # {}
      BY <1>1 DEF PoolInv, PlaceInv, OneShort
    <3> QED
      BY <3>1, <3>2, <3>3, SizesAssumption
  <2> QED
    BY <1>1, <2>1 DEF PoolInv, Typed, TypeOK
<1> QED
  BY <1>1, PoolInvariant, PTL

(* is_making_block, which init_block forgets to clear at the limit, is     *)
(* never set while the company could still grow.                           *)
THEOREM FlagOnlyAtLimit == Spec => []StuckFlagOnlyAtLimit
<1>1. PoolInv => StuckFlagOnlyAtLimit
  BY DEF PoolInv
<1> QED
  BY <1>1, PoolInvariant, PTL

-----------------------------------------------------------------------------
(* Refinement.                                                             *)

LEMMA BorrowerOfHeld ==
  ASSUME Typed, Conserved, NEW t \in Threads, NEW x \in held[t]
  PROVE  Borrower(x) = t
<1>1. x \in Buffers /\ x[1] \in Int
  BY BufferFacts, BlockFacts DEF Typed
<1>2. x[1] <= blockCount /\ x \notin free[x[1]]
  BY DEF Conserved, HeldNotFree
<1>3. ~(x[1] > blockCount)
  BY <1>1, <1>2, BlockCountFacts
<1>4. \A u \in Threads : x \in held[u] => u = t
  BY DEF Conserved, OneBorrower
<1> QED
  BY <1>2, <1>3, <1>4 DEF Borrower

LEMMA BorrowerOfFree ==
  ASSUME Typed, Conserved, NEW b \in Blocks, NEW x \in free[b]
  PROVE  Borrower(x) = Free /\ x \in Buffers /\ x[1] = b
<1>1. x \in BuffersOf(b) /\ b <= blockCount
  BY DEF Conserved, FreeAtHome
<1>2. x \in Buffers /\ x[1] = b /\ b \in Int
  BY <1>1, BufferFacts, BlockFacts
<1>3. ~(x[1] > blockCount)
  BY <1>1, <1>2, BlockCountFacts
<1> QED
  BY <1>2, <1>3 DEF Borrower

(* What the mapping says of a buffer, read off where the buffer is.        *)
Mapped ==
  /\ \A t \in Threads : \A x \in held[t] : Borrower(x) = t
  /\ \A b \in Blocks : \A x \in free[b] : Borrower(x) = Free
  /\ \A x \in Buffers : x[1] > blockCount => Borrower(x) = Unmade
  /\ \A x \in Buffers : \/ x[1] > blockCount
                        \/ x \in free[x[1]]
                        \/ \E t \in Threads : x \in held[t]

LEMMA MappedHolds == PoolInv => Mapped
<1> SUFFICES ASSUME PoolInv PROVE Mapped
  OBVIOUS
<1>1. Typed /\ Conserved
  BY DEF PoolInv
<1>2. \A t \in Threads : \A x \in held[t] : Borrower(x) = t
  BY <1>1, BorrowerOfHeld
<1>3. \A b \in Blocks : \A x \in free[b] : Borrower(x) = Free
  BY <1>1, BorrowerOfFree
<1>4. \A x \in Buffers : x[1] > blockCount => Borrower(x) = Unmade
  BY DEF Borrower
<1>5. ASSUME NEW x \in Buffers
      PROVE  x[1] > blockCount \/ x \in free[x[1]] \/ \E t \in Threads : x \in held[t]
  <2>1. x[1] \in Blocks /\ x[1] \in Int /\ 1 <= x[1] /\ x \in BuffersOf(x[1])
    BY BufferFacts, BlockFacts
  <2>2. x[1] > blockCount \/ x[1] \in 1 .. blockCount
    BY <1>1, <2>1, BlockCountFacts
  <2> QED
    BY <1>1, <2>1, <2>2 DEF Conserved, NoneLost
<1> QED
  BY <1>2, <1>3, <1>4, <1>5 DEF Mapped

LEMMA LendingInit == Init => Lending!Init
<1> SUFFICES ASSUME Init PROVE Lending!Init
  OBVIOUS
<1>1. ASSUME NEW x \in Buffers
      PROVE  Borrower(x) = IF x[1] = 1 THEN Free ELSE Unmade
  <2>1. x[1] \in Blocks /\ x[1] \in Int /\ 1 <= x[1] /\ x \in BuffersOf(x[1])
    BY BufferFacts, BlockFacts
  <2>2. CASE x[1] = 1
    BY <2>1, <2>2 DEF Init, Borrower
  <2>3. CASE x[1] # 1
    BY <2>1, <2>3 DEF Init, Borrower
  <2> QED
    BY <2>2, <2>3
<1> QED
  BY <1>1 DEF Init, Lending!Init, Lending!Buffers, Lending!Blocks, Buffers, Blocks

LEMMA LendingStep ==
  ASSUME PoolInv, PoolInv', NEW t \in Threads, Step(t)
  PROVE  [Lending!Next]_(Lending!poolVars)
<1> DEFINE B == [x \in Buffers |-> Borrower(x)]
<1>0. Typed /\ Conserved /\ PlaceInv /\ Typed' /\ Conserved'
  BY DEF PoolInv
<1>a. ASSUME UNCHANGED <<blockCount, free, held>>
      PROVE  UNCHANGED Lending!poolVars
  BY <1>a DEF Lending!poolVars, Lending!Buffers, Lending!Blocks, Buffers, Blocks, Borrower
<1>m. Mapped /\ Mapped'
  <2>1. (PoolInv => Mapped)'
    BY MappedHolds, PTL
  <2> QED
    BY <2>1, MappedHolds
<1>b. Lending!Buffers = Buffers
  BY DEF Lending!Buffers, Lending!Blocks, Buffers, Blocks
<1>1. CASE Rent(t)
  BY <1>1, <1>a DEF Rent
<1>2. CASE CheckCount(t)
  BY <1>2, <1>a DEF CheckCount
<1>3. CASE LockToTake(t)
  BY <1>3, <1>a DEF LockToTake
<1>4. CASE Take(t)
  BY <1>4, <1>a DEF Take
<1>5. CASE Pop(t)
  <2>1. PICK x \in free[at[t]] :
          /\ free' = [free EXCEPT ![at[t]] = @ \ {x}]
          /\ held' = [held EXCEPT ![t] = @ \cup {x}]
    BY <1>5 DEF Pop
  <2>2. at[t] \in Blocks /\ blockCount' = blockCount
    BY <1>5, <1>0, AtFacts DEF Pop
  <2>3. Borrower(x) = Free /\ x \in Buffers /\ x[1] = at[t]
    BY <1>0, <2>2, BorrowerOfFree
  <2>4. x \in held'[t]
    BY <1>0, <2>1 DEF Typed
  <2>5. Borrower(x)' = t
    BY <1>m, <2>4 DEF Mapped
  <2>6. ASSUME NEW y \in Buffers, y # x PROVE Borrower(y)' = Borrower(y)
    <3>1. y[1] \in Blocks
      BY <2>6, BufferFacts
    <3>2. y \in free'[y[1]] <=> y \in free[y[1]]
      BY <1>0, <2>1, <2>2, <2>6, <3>1 DEF Typed
    <3>3. \A u \in Threads : y \in held'[u] <=> y \in held[u]
      BY <1>0, <2>1, <2>6 DEF Typed
    <3>4. y[1] > blockCount' <=> y[1] > blockCount
      BY <2>2
    <3> QED
      BY <1>m, <3>1, <3>2, <3>3, <3>4 DEF Mapped
  <2>7. B' = [B EXCEPT ![x] = t]
    BY <2>3, <2>5, <2>6
  <2>8. Lending!Lend(t, x)
    BY <1>b, <2>2, <2>3, <2>7 DEF Lending!Lend
  <2> QED
    BY <1>b, <2>3, <2>8 DEF Lending!Next
<1>6. CASE ReadSize(t)
  BY <1>6, <1>a DEF ReadSize
<1>7. CASE InitBlock(t)
  <2>1. CASE UNCHANGED <<blockCount, free, held>>
    BY <2>1, <1>a
  <2>2. CASE /\ blockCount < BlockMaxCount
             /\ blockCount' = blockCount + 1
             /\ free' = [free EXCEPT ![blockCount + 1] = BuffersOf(blockCount + 1)]
             /\ held' = held
    <3>1. blockCount \in Int /\ blockCount + 1 \in Blocks
      BY <1>0, <2>2, BlockCountFacts
    <3>2. ASSUME NEW y \in Buffers
          PROVE  Borrower(y)' = IF y[1] = blockCount + 1 THEN Free ELSE Borrower(y)
      <4>1. y[1] \in Blocks /\ y[1] \in Int /\ y \in BuffersOf(y[1])
        BY <3>2, BufferFacts, BlockFacts
      <4>2. CASE y[1] = blockCount + 1
        <5>1. y \in free'[y[1]]
          BY <1>0, <2>2, <3>1, <4>1, <4>2 DEF Typed
        <5> QED
          BY <1>m, <4>1, <4>2, <5>1 DEF Mapped
      <4>3. CASE y[1] # blockCount + 1
        <5>1. free'[y[1]] = free[y[1]]
          BY <1>0, <2>2, <3>1, <4>1, <4>3 DEF Typed
        <5>2. y[1] > blockCount' <=> y[1] > blockCount
          BY <2>2, <3>1, <4>1, <4>3
        <5> QED
          BY <2>2, <4>3, <5>1, <5>2 DEF Borrower
      <4> QED
        BY <4>2, <4>3
    <3>3. B' = [y \in Buffers |-> IF y[1] = blockCount + 1 THEN Free ELSE B[y]]
      BY <3>2
    <3>4. Lending!Grow
      BY <1>b, <2>2, <3>3 DEF Lending!Grow
    <3> QED
      BY <3>4 DEF Lending!Next
  <2> QED
    BY <1>7, <2>1, <2>2 DEF InitBlock
<1>8. CASE Rescan(t)
  BY <1>8, <1>a DEF Rescan
<1>9. CASE LockToWait(t)
  BY <1>9, <1>a DEF LockToWait
<1>10. CASE WaitCheck(t)
  BY <1>10, <1>a DEF WaitCheck
<1>11. CASE SpuriousWakeup(t)
  BY <1>11, <1>a DEF SpuriousWakeup
<1>12. CASE Release(t)
  BY <1>12, <1>a DEF Release
<1>13. CASE LockToFree(t)
  BY <1>13, <1>a DEF LockToFree
<1>14. CASE Push(t)
  <2>1. PICK x :
        /\ x = giving[t]
        /\ free' = [free EXCEPT ![at[t]] = @ \cup {x}]
        /\ held' = [held EXCEPT ![t] = @ \ {x}]
        /\ blockCount' = blockCount /\ pc[t] = "push"
    BY <1>14 DEF Push
  <2>2. at[t] \in Blocks /\ x \in held[t] /\ x \in Buffers /\ x[1] = at[t]
    BY <1>0, <2>1, AtFacts DEF PlaceInv, Typed
  <2>3. Borrower(x) = t
    BY <1>0, <2>2, BorrowerOfHeld
  <2>4. x \in free'[at[t]]
    BY <1>0, <2>1, <2>2 DEF Typed
  <2>5. Borrower(x)' = Free
    BY <1>m, <2>2, <2>4 DEF Mapped
  <2>6. ASSUME NEW y \in Buffers, y # x PROVE Borrower(y)' = Borrower(y)
    <3>1. y[1] \in Blocks
      BY <2>6, BufferFacts
    <3>2. y \in free'[y[1]] <=> y \in free[y[1]]
      BY <1>0, <2>1, <2>2, <2>6, <3>1 DEF Typed
    <3>3. \A u \in Threads : y \in held'[u] <=> y \in held[u]
      BY <1>0, <2>1, <2>6 DEF Typed
    <3>4. y[1] > blockCount' <=> y[1] > blockCount
      BY <2>1
    <3> QED
      BY <1>m, <3>1, <3>2, <3>3, <3>4 DEF Mapped
  <2>7. B' = [B EXCEPT ![x] = Free]
    BY <2>2, <2>5, <2>6
  <2>8. Lending!GiveBack(t, x)
    BY <1>b, <2>1, <2>2, <2>3, <2>7 DEF Lending!GiveBack
  <2> QED
    BY <1>b, <2>2, <2>8 DEF Lending!Next
<1>15. CASE Bump(t)
  BY <1>15, <1>a DEF Bump
<1>16. CASE NotifyOne(t)
  BY <1>16, <1>a DEF NotifyOne
<1> QED
  BY <1>1, <1>2, <1>3, <1>4, <1>5, <1>6, <1>7, <1>8,
     <1>9, <1>10, <1>11, <1>12, <1>13, <1>14, <1>15, <1>16 DEF Step

(* The pool with its locks, counters, list walk and condition variables    *)
(* implements the abstract lending pool.                                   *)
THEOREM ImplementsLendingPool == Spec => LendsLikeLendingPool
<1>1. Init => Lending!Init
  BY LendingInit
<1>2. PoolInv /\ PoolInv' /\ [Next]_vars => [Lending!Next]_(Lending!poolVars)
  <2> SUFFICES ASSUME PoolInv, PoolInv', [Next]_vars
               PROVE  [Lending!Next]_(Lending!poolVars)
    OBVIOUS
  <2>1. ASSUME NEW t \in Threads, Step(t)
        PROVE  [Lending!Next]_(Lending!poolVars)
    BY <2>1, LendingStep
  <2>2. CASE UNCHANGED vars
    BY <2>2 DEF vars, Lending!poolVars, Lending!Buffers, Lending!Blocks, Buffers, Blocks, Borrower
  <2> QED
    BY <2>1, <2>2 DEF Next
<1> QED
  BY <1>1, <1>2, PoolInvariant, PTL DEF Spec, LendsLikeLendingPool, Lending!Spec

-----------------------------------------------------------------------------
(***************************************************************************)
(* One thread that rents, as in a RakServer whose listener does all the    *)
(* work.  Once it has found every block empty below the limit it really    *)
(* makes a block, and nobody empties that block before its second search.  *)
(***************************************************************************)
AloneInv ==
  /\ \A t \in Threads :
        /\ pc[t] = "grow" => blockCount < BlockMaxCount
        /\ pc[t] = "rescan" => free[blockCount] # {}
        /\ mode[t] = "second" /\ pc[t] \in {"scan", "lock", "take"} =>
             at[t] = blockCount /\ free[at[t]] # {}
        /\ pc[t] \in {"waitlock", "waitcheck", "asleep"} => mode[t] = "back"
  /\ ~aborted

LEMMA AloneStep ==
  ASSUME PoolInv, AloneInv, NEW t \in Threads, Threads = {t}, Step(t)
  PROVE  AloneInv'
<1>0. /\ Typed /\ at[t] \in Blocks /\ blockCount \in Blocks /\ blockCount \in Int
      /\ blockCount <= BlockMaxCount /\ BlockMaxCount \in Int /\ ~aborted
      /\ pc[t] = "grow" => blockCount < BlockMaxCount
      /\ pc[t] = "rescan" => free[blockCount] # {}
      /\ mode[t] = "second" /\ pc[t] \in {"scan", "lock", "take"} =>
           at[t] = blockCount /\ free[at[t]] # {}
      /\ pc[t] \in {"waitlock", "waitcheck", "asleep"} => mode[t] = "back"
  BY AtFacts, BlockCountFacts, FirstBlock DEF PoolInv, AloneInv
<1> SUFFICES /\ pc'[t] = "grow" => blockCount' < BlockMaxCount
             /\ pc'[t] = "rescan" => free'[blockCount'] # {}
             /\ mode'[t] = "second" /\ pc'[t] \in {"scan", "lock", "take"} =>
                  at'[t] = blockCount' /\ free'[at'[t]] # {}
             /\ pc'[t] \in {"waitlock", "waitcheck", "asleep"} => mode'[t] = "back"
             /\ ~aborted'
  BY DEF AloneInv
<1>1. CASE Rent(t)
  BY <1>1, <1>0 DEF Typed, Rent, Goto
<1>2. CASE CheckCount(t)
  <2>1. CASE count[at[t]] # 0
    BY <1>2, <2>1, <1>0 DEF Typed, CheckCount, Goto
  <2>2. CASE count[at[t]] = 0 /\ Miss(t)
    <3>1. mode[t] # "second"
      <4>1. ~OneShort(at[t])
        BY <1>2 DEF CheckCount, OneShort
      <4>2. Cardinality(free[at[t]]) \in Nat /\ IsFiniteSet(free[at[t]])
        BY <1>0, FreeFinite DEF PoolInv
      <4>3. count[at[t]] = Cardinality(free[at[t]]) - 0
        BY <1>0, <4>1 DEF PoolInv, CountInv
      <4>4. Cardinality(free[at[t]]) = 0
        BY <2>2, <4>2, <4>3
      <4>5. free[at[t]] = {}
        BY <4>2, <4>4, FS_EmptySet
      <4> QED
        BY <1>2, <1>0, <4>5 DEF CheckCount
    <3>2. UNCHANGED <<mode, free, blockCount>>
      BY <1>2 DEF CheckCount
    <3>3. aborted' = aborted /\ pc'[t] # "grow" /\ pc'[t] # "rescan"
      BY <2>2, <3>1, <1>0 DEF Miss, Goto, Typed
    <3>4. pc'[t] = "waitlock" => mode[t] = "back"
      BY <2>2, <1>0 DEF Miss, Goto, Typed
    <3>5. pc'[t] \notin {"waitcheck", "asleep"}
      BY <2>2, <1>0, MissFacts
    <3> QED
      BY <1>0, <3>1, <3>2, <3>3, <3>4, <3>5
  <2> QED
    BY <1>2, <2>1, <2>2 DEF CheckCount
<1>3. CASE LockToTake(t)
  BY <1>3, <1>0 DEF Typed, LockToTake, Goto
<1>4. CASE Take(t)
  <2>1. CASE free[at[t]] # {}
    BY <1>4, <2>1, <1>0 DEF Typed, Take, Goto
  <2>2. CASE free[at[t]] = {} /\ Miss(t)
    <3>1. mode[t] # "second"
      BY <1>4, <1>0, <2>2 DEF Take
    <3>2. UNCHANGED <<mode, free, blockCount>>
      BY <1>4 DEF Take
    <3>3. aborted' = aborted /\ pc'[t] # "grow" /\ pc'[t] # "rescan"
      BY <2>2, <3>1, <1>0 DEF Miss, Goto, Typed
    <3>4. pc'[t] = "waitlock" => mode[t] = "back"
      BY <2>2, <1>0 DEF Miss, Goto, Typed
    <3>5. pc'[t] \notin {"waitcheck", "asleep"}
      BY <2>2, <1>0, MissFacts
    <3> QED
      BY <1>0, <3>1, <3>2, <3>3, <3>4, <3>5
  <2> QED
    BY <1>4, <2>1, <2>2 DEF Take
<1>5. CASE Pop(t)
  BY <1>5, <1>0 DEF Typed, Pop, Unlock, Goto
<1>6. CASE ReadSize(t)
  BY <1>6, <1>0 DEF Typed, ReadSize, Goto
<1>7. CASE InitBlock(t)
  <2>1. ~making /\ blockCount < BlockMaxCount
    BY <1>7, <1>0 DEF InitBlock, PoolInv, StuckFlagOnlyAtLimit
  <2>2. /\ blockCount' = blockCount + 1
        /\ free' = [free EXCEPT ![blockCount + 1] = BuffersOf(blockCount + 1)]
        /\ pc' = [pc EXCEPT ![t] = "rescan"] /\ UNCHANGED <<mode, at, aborted>>
    BY <1>7, <1>0, <2>1 DEF InitBlock, Goto
  <2>3. blockCount + 1 \in Blocks
    BY <1>0, <2>1, BlockCountFacts
  <2>4. BuffersOf(blockCount + 1) # {}
    <3>1. <<blockCount + 1, 1>> \in BuffersOf(blockCount + 1)
      BY SizesAssumption DEF BuffersOf
    <3> QED
      BY <3>1
  <2> QED
    BY <1>0, <2>2, <2>3, <2>4 DEF Typed
<1>8. CASE Rescan(t)
  BY <1>8, <1>0 DEF Typed, Rescan, Goto
<1>9. CASE LockToWait(t)
  BY <1>9, <1>0 DEF Typed, LockToWait, Goto
<1>10. CASE WaitCheck(t)
  BY <1>10, <1>0 DEF Typed, WaitCheck, Unlock, Goto
<1>11. CASE SpuriousWakeup(t)
  BY <1>11, <1>0 DEF Typed, SpuriousWakeup, Goto
<1>12. CASE Release(t)
  BY <1>12, <1>0 DEF Typed, Release, Goto
<1>13. CASE LockToFree(t)
  BY <1>13, <1>0 DEF Typed, LockToFree, Goto
<1>14. CASE Push(t)
  BY <1>14, <1>0 DEF Typed, Push, Goto
<1>15. CASE Bump(t)
  BY <1>15, <1>0 DEF Typed, Bump, Goto
<1>16. CASE NotifyOne(t)
  BY <1>16, <1>0 DEF Typed, NotifyOne, Unlock, Goto
<1> QED
  BY <1>1, <1>2, <1>3, <1>4, <1>5, <1>6, <1>7, <1>8,
     <1>9, <1>10, <1>11, <1>12, <1>13, <1>14, <1>15, <1>16 DEF Step

(* A single thread that rents is never turned away: the exception of the   *)
(* second search is out of reach.                                          *)
THEOREM SingleRenterNeverAborts ==
  ASSUME NEW me, Threads = {me}
  PROVE  Spec => []RentReturnsABuffer
<1>1. Init => AloneInv
  BY DEF Init, AloneInv
<1>2. PoolInv /\ AloneInv /\ [Next]_vars => AloneInv'
  <2> SUFFICES ASSUME PoolInv, AloneInv, [Next]_vars PROVE AloneInv'
    OBVIOUS
  <2>1. CASE Next
    BY <2>1, AloneStep DEF Next
  <2>2. CASE UNCHANGED vars
    BY <2>2 DEF vars, AloneInv
  <2> QED
    BY <2>1, <2>2
<1>3. AloneInv => RentReturnsABuffer
  BY DEF AloneInv, RentReturnsABuffer
<1> QED
  BY <1>1, <1>2, <1>3, PoolInvariant, PTL DEF Spec

-----------------------------------------------------------------------------
(***************************************************************************)
(* No wakeup is lost, with any finite number of threads.                   *)
(*                                                                         *)
(* NoLostWakeup counts the threads that will still see to a free buffer.   *)
(* It is nearly inductive: what is missing is that who waits does so in    *)
(* the last of rent()'s searches, so that a thread that is woken counts.   *)
(* Each action either leaves the list of a block and those threads alone,  *)
(* or changes both: a push brings a notifier, a notify makes a waker out   *)
(* of a sleeper, a pop takes a buffer and one who looked for it.           *)
(***************************************************************************)
(* Threads that will try block b again, or are about to notify.            *)
WakesFor(u, b) ==
  /\ at[u] = b
  /\ \/ mode[u] = "back" /\ pc[u] \in {"scan", "lock", "take", "pop", "waitlock", "waitcheck"}
     \/ pc[u] \in {"bump", "notify"}

Wakers(b) == {u \in Threads : WakesFor(u, b)}

WaitersAreLast ==
  \A t \in Threads : pc[t] \in {"waitlock", "waitcheck", "asleep"} => mode[t] = "back"

Enough(b) == Asleep(b) # {} => Cardinality(free[b]) <= Cardinality(Wakers(b))

WakeInv == WaitersAreLast /\ \A b \in Blocks : Enough(b)

-----------------------------------------------------------------------------
(* Only threads wake: there are finitely many.                             *)
LEMMA WakersFinite ==
  ASSUME IsFiniteSet(Threads), NEW b
  PROVE  IsFiniteSet(Wakers(b)) /\ Cardinality(Wakers(b)) \in Nat
<1>1. Wakers(b) \in SUBSET Threads
  BY DEF Wakers
<1>. QED  BY <1>1, FS_Subset, FS_CardinalityType

(* The same after a step.                                                  *)
LEMMA WakersFiniteNext ==
  ASSUME IsFiniteSet(Threads), NEW b
  PROVE  IsFiniteSet(Wakers(b)') /\ Cardinality(Wakers(b)') \in Nat
<1>1. Wakers(b)' \in SUBSET Threads
  BY DEF Wakers
<1>. QED  BY <1>1, FS_Subset, FS_CardinalityType

(* A list that does not grow and threads that stay on.                     *)
LEMMA EnoughKept ==
  ASSUME IsFiniteSet(Threads), Conserved, NEW b \in Blocks, Enough(b),
         free'[b] = free[b], Wakers(b) \subseteq Wakers(b)',
         Asleep(b)' # {} => Asleep(b) # {}
  PROVE  Enough(b)'
<1>1. Cardinality(Wakers(b)) <= Cardinality(Wakers(b)')
  BY WakersFiniteNext, FS_Subset
<1>. HIDE DEF Wakers
<1>2. Cardinality(free[b]) \in Nat
  BY FreeFinite
<1>3. Cardinality(Wakers(b)) \in Nat /\ Cardinality(Wakers(b)') \in Nat
  BY WakersFinite, WakersFiniteNext
<1>. QED  BY <1>1, <1>2, <1>3 DEF Enough

(* One buffer less, for one of the threads at most.                        *)
LEMMA EnoughPopped ==
  ASSUME IsFiniteSet(Threads), Conserved, NEW b \in Blocks, Enough(b),
         NEW x \in free[b], free'[b] = free[b] \ {x},
         NEW t, Wakers(b) \ {t} \subseteq Wakers(b)',
         Asleep(b)' # {} => Asleep(b) # {}
  PROVE  Enough(b)'
<1>1. Cardinality(free'[b]) = Cardinality(free[b]) - 1
  BY FreeFinite, FS_RemoveElement
<1>2. /\ IsFiniteSet(Wakers(b) \ {t})
      /\ Cardinality(Wakers(b) \ {t}) \in {Cardinality(Wakers(b)), Cardinality(Wakers(b)) - 1}
  BY WakersFinite, FS_RemoveElement
<1>3. Cardinality(Wakers(b) \ {t}) <= Cardinality(Wakers(b)')
  BY WakersFiniteNext, FS_Subset
<1>4. /\ Cardinality(free[b]) \in Nat
      /\ Cardinality(Wakers(b)) \in Nat /\ Cardinality(Wakers(b)') \in Nat
      /\ Cardinality(Wakers(b) \ {t}) \in Nat
  BY <1>2, FreeFinite, WakersFinite, WakersFiniteNext, FS_CardinalityType
<1>. QED  BY <1>1, <1>2, <1>3, <1>4 DEF Enough

(* One buffer more, and one thread.                                        *)
LEMMA EnoughPushed ==
  ASSUME IsFiniteSet(Threads), Conserved, NEW b \in Blocks, Enough(b),
         NEW x, free'[b] = free[b] \cup {x},
         NEW t, t \notin Wakers(b), Wakers(b) \cup {t} \subseteq Wakers(b)',
         Asleep(b)' # {} => Asleep(b) # {}
  PROVE  Enough(b)'
<1>1. /\ IsFiniteSet(free[b] \cup {x})
      /\ Cardinality(free[b] \cup {x}) \in {Cardinality(free[b]), Cardinality(free[b]) + 1}
  <2>1. IsFiniteSet(free[b])
    BY FreeFinite
  <2>. QED  BY <2>1, FS_AddElement
<1>2. Cardinality(Wakers(b) \cup {t}) = Cardinality(Wakers(b)) + 1
  BY WakersFinite, FS_AddElement
<1>3. Cardinality(Wakers(b) \cup {t}) <= Cardinality(Wakers(b)')
  BY WakersFiniteNext, FS_Subset
<1>4. /\ Cardinality(free[b]) \in Nat
      /\ Cardinality(Wakers(b)) \in Nat /\ Cardinality(Wakers(b)') \in Nat
  BY FreeFinite, WakersFinite, WakersFiniteNext
<1>. QED  BY <1>1, <1>2, <1>3, <1>4 DEF Enough

(* One thread in place of another.                                         *)
LEMMA EnoughNotified ==
  ASSUME IsFiniteSet(Threads), Conserved, NEW b \in Blocks, Enough(b),
         free'[b] = free[b],
         NEW t \in Wakers(b), NEW u, u \notin Wakers(b),
         (Wakers(b) \ {t}) \cup {u} \subseteq Wakers(b)',
         Asleep(b) # {}
  PROVE  Enough(b)'
<1>1. /\ IsFiniteSet(Wakers(b) \ {t})
      /\ Cardinality(Wakers(b) \ {t}) = Cardinality(Wakers(b)) - 1
  BY WakersFinite, FS_RemoveElement
<1>2. Cardinality((Wakers(b) \ {t}) \cup {u}) = Cardinality(Wakers(b) \ {t}) + 1
  BY <1>1, FS_AddElement
<1>3. Cardinality((Wakers(b) \ {t}) \cup {u}) <= Cardinality(Wakers(b)')
  BY WakersFiniteNext, FS_Subset
<1>4. /\ Cardinality(free[b]) \in Nat
      /\ Cardinality(Wakers(b)) \in Nat /\ Cardinality(Wakers(b)') \in Nat
  BY FreeFinite, WakersFinite, WakersFiniteNext
<1>. QED  BY <1>1, <1>2, <1>3, <1>4 DEF Enough

-----------------------------------------------------------------------------
(* Whoever waits in the condition variable is in rent()'s last search.     *)
LEMMA WaitersAreLastStep ==
  ASSUME Typed, WaitersAreLast, NEW t \in Threads, Step(t)
  PROVE  WaitersAreLast'
<1>. USE DEF Typed, WaitersAreLast
<1>1. CASE CheckCount(t) \/ Take(t)
  BY <1>1 DEF CheckCount, Take, Miss, Goto
<1>2. CASE Rent(t) \/ ReadSize(t) \/ InitBlock(t) \/ Rescan(t)
  BY <1>2 DEF Rent, ReadSize, InitBlock, Rescan, Goto
<1>3. CASE LockToTake(t) \/ Pop(t) \/ LockToWait(t) \/ WaitCheck(t) \/ SpuriousWakeup(t)
  BY <1>3 DEF LockToTake, Pop, LockToWait, WaitCheck, SpuriousWakeup, Goto
<1>4. CASE Release(t) \/ LockToFree(t) \/ Push(t) \/ Bump(t)
  BY <1>4 DEF Release, LockToFree, Push, Bump, Goto
<1>5. CASE NotifyOne(t)
  BY <1>5 DEF NotifyOne, Asleep, Goto
<1>. QED  BY <1>1, <1>2, <1>3, <1>4, <1>5 DEF Step

(* What a thread does that leaves the lists alone, wakes for nobody less,  *)
(* and does not fall asleep.                                               *)
LEMMA QuietStep ==
  ASSUME Typed, NEW t \in Threads,
         free' = free,
         \A u \in Threads \ {t} : pc'[u] = pc[u] /\ mode'[u] = mode[u] /\ at'[u] = at[u],
         pc'[t] # "asleep",
         \A c \in Blocks : WakesFor(t, c) => WakesFor(t, c)',
         NEW b \in Blocks
  PROVE  /\ free'[b] = free[b]
         /\ Wakers(b) \subseteq Wakers(b)'
         /\ Asleep(b)' # {} => Asleep(b) # {}
<1>1. ASSUME NEW u \in Threads, WakesFor(u, b)
      PROVE  WakesFor(u, b)'
  <2>1. CASE u = t
    BY <1>1, <2>1
  <2>2. CASE u # t
    BY <1>1, <2>2 DEF WakesFor
  <2>. QED  BY <2>1, <2>2
<1>2. Asleep(b)' \subseteq Asleep(b)
  BY DEF Asleep
<1>. QED  BY <1>1, <1>2 DEF Wakers

(* Those steps: all but the moves of buffers, the wait and the notify.     *)
LEMMA QuietActions ==
  ASSUME Typed, NEW t \in Threads,
         \/ Rent(t) \/ CheckCount(t) \/ LockToTake(t) \/ Take(t) \/ ReadSize(t)
         \/ Rescan(t) \/ LockToWait(t) \/ SpuriousWakeup(t) \/ Release(t)
         \/ LockToFree(t) \/ Bump(t)
  PROVE  /\ free' = free
         /\ \A u \in Threads \ {t} : pc'[u] = pc[u] /\ mode'[u] = mode[u] /\ at'[u] = at[u]
         /\ pc'[t] # "asleep"
         /\ \A b \in Blocks : WakesFor(t, b) => WakesFor(t, b)'
<1>. USE DEF Typed, WakesFor
<1>1. CASE CheckCount(t)
  BY <1>1 DEF CheckCount, Miss, Goto
<1>2. CASE Take(t)
  BY <1>2 DEF Take, Miss, Goto
<1>3. CASE Rent(t) \/ ReadSize(t) \/ Rescan(t)
  BY <1>3 DEF Rent, ReadSize, Rescan, Goto
<1>4. CASE LockToTake(t) \/ LockToWait(t) \/ SpuriousWakeup(t)
  BY <1>4 DEF LockToTake, LockToWait, SpuriousWakeup, Goto
<1>5. CASE Release(t) \/ LockToFree(t) \/ Bump(t)
  BY <1>5 DEF Release, LockToFree, Bump, Goto
<1>. QED  BY <1>1, <1>2, <1>3, <1>4, <1>5

(* Every step of a thread leaves enough threads for a block's free buffers.*)
LEMMA WakeStep ==
  ASSUME IsFiniteSet(Threads), PoolInv, WakeInv, NEW t \in Threads, Step(t),
         NEW b \in Blocks
  PROVE  Enough(b)'
<1>0. Typed /\ Conserved /\ PlaceInv /\ WaitersAreLast /\ Enough(b)
  BY DEF PoolInv, WakeInv
<1>1. CASE \/ Rent(t) \/ CheckCount(t) \/ LockToTake(t) \/ Take(t) \/ ReadSize(t)
           \/ Rescan(t) \/ LockToWait(t) \/ SpuriousWakeup(t) \/ Release(t)
           \/ LockToFree(t) \/ Bump(t)
  BY <1>0, <1>1, QuietActions, QuietStep, EnoughKept
<1>2. CASE Pop(t)
  <2>1. PICK x \in free[at[t]] : free' = [free EXCEPT ![at[t]] = @ \ {x}]
    BY <1>2 DEF Pop
  <2>2. /\ \A u \in Threads \ {t} : pc'[u] = pc[u] /\ mode'[u] = mode[u] /\ at'[u] = at[u]
        /\ pc'[t] = "idle" /\ pc[t] = "pop" /\ at'[t] = at[t]
    BY <1>0, <1>2 DEF Pop, Goto, Typed
  <2>3. Asleep(b)' \subseteq Asleep(b) /\ Wakers(b) \ {t} \subseteq Wakers(b)'
    BY <2>2 DEF Asleep, Wakers, WakesFor
  <2>4. CASE at[t] = b
    BY <1>0, <2>1, <2>3, <2>4, EnoughPopped DEF Typed
  <2>5. CASE at[t] # b
    <3>1. t \notin Wakers(b) /\ free'[b] = free[b]
      BY <1>0, <2>1, <2>5 DEF Wakers, WakesFor, Typed
    <3>. QED  BY <1>0, <2>3, <3>1, EnoughKept
  <2>. QED  BY <2>4, <2>5
<1>3. CASE InitBlock(t)
  <2>1. /\ \A u \in Threads \ {t} : pc'[u] = pc[u] /\ mode'[u] = mode[u] /\ at'[u] = at[u]
        /\ pc'[t] = "rescan" /\ pc[t] = "grow"
    BY <1>0, <1>3 DEF InitBlock, Goto, Typed
  <2>2. Asleep(b)' \subseteq Asleep(b) /\ Wakers(b) \subseteq Wakers(b)'
    BY <2>1 DEF Asleep, Wakers, WakesFor
  <2>3. CASE free'[b] = free[b]
    BY <1>0, <2>2, <2>3, EnoughKept
  <2>4. CASE free'[b] # free[b]
    <3>1. b = blockCount + 1 /\ blockCount \in Int
      BY <1>0, <1>3, <2>4, BlockCountFacts DEF InitBlock, Typed
    <3>2. Asleep(b) = {}
      BY <1>0, <3>1, AtFacts DEF PlaceInv, Asleep
    <3>. QED  BY <2>2, <3>2 DEF Enough
  <2>. QED  BY <2>3, <2>4
<1>4. CASE WaitCheck(t)
  <2>1. /\ \A u \in Threads \ {t} : pc'[u] = pc[u] /\ mode'[u] = mode[u] /\ at'[u] = at[u]
        /\ pc[t] = "waitcheck" /\ at'[t] = at[t] /\ mode'[t] = mode[t] /\ free' = free
    BY <1>0, <1>4 DEF WaitCheck, Goto, Typed
  <2>2. CASE pc'[t] = "scan"
    <3>1. \A c \in Blocks : WakesFor(t, c) => WakesFor(t, c)'
      BY <2>1, <2>2 DEF WakesFor
    <3>. QED  BY <1>0, <2>1, <2>2, <3>1, QuietStep, EnoughKept
  <2>3. CASE free[at[t]] = {} /\ at[t] = b
    <3>1. Cardinality(free'[b]) = 0
      BY <2>1, <2>3, FS_EmptySet
    <3>. QED  BY <3>1, WakersFiniteNext DEF Enough
  <2>4. CASE at[t] # b
    <3>1. Wakers(b) \subseteq Wakers(b)' /\ Asleep(b)' \subseteq Asleep(b)
      BY <2>1, <2>4 DEF Wakers, WakesFor, Asleep
    <3>. QED  BY <1>0, <2>1, <3>1, EnoughKept
  <2>5. pc'[t] = "scan" \/ free[at[t]] = {}
    BY <1>0, <1>4 DEF WaitCheck, Goto, Typed
  <2>. QED  BY <2>2, <2>3, <2>4, <2>5
<1>5. CASE Push(t)
  <2>1. /\ \A u \in Threads \ {t} : pc'[u] = pc[u] /\ mode'[u] = mode[u] /\ at'[u] = at[u]
        /\ pc[t] = "push" /\ pc'[t] = "bump" /\ at'[t] = at[t]
    BY <1>0, <1>5 DEF Push, Goto, Typed
  <2>2. Wakers(b) \subseteq Wakers(b)' /\ Asleep(b)' \subseteq Asleep(b)
    BY <2>1 DEF Wakers, WakesFor, Asleep
  <2>3. CASE at[t] = b
    <3>1. t \notin Wakers(b) /\ t \in Wakers(b)'
      BY <2>1, <2>3 DEF Wakers, WakesFor
    <3>2. free'[b] = free[b] \cup {giving[t]}
      BY <1>0, <1>5, <2>3 DEF Push, Typed
    <3>. QED  BY <1>0, <2>2, <3>1, <3>2, EnoughPushed
  <2>4. CASE at[t] # b
    BY <1>0, <1>5, <2>2, <2>4, EnoughKept DEF Push, Typed
  <2>. QED  BY <2>3, <2>4
<1>6. CASE NotifyOne(t)
  <2>1. at' = at /\ mode' = mode /\ free' = free /\ pc[t] = "notify"
    BY <1>6 DEF NotifyOne
  <2>2. CASE Asleep(at[t]) = {} /\ Goto(t, "idle")
    <3>1. Asleep(b)' \subseteq Asleep(b) /\ (at[t] # b => Wakers(b) \subseteq Wakers(b)')
      BY <1>0, <2>1, <2>2 DEF Asleep, Wakers, WakesFor, Goto, Typed
    <3>. QED  BY <1>0, <2>1, <2>2, <3>1, EnoughKept DEF Enough
  <2>3. ASSUME NEW u \in Asleep(at[t]), pc' = [pc EXCEPT ![t] = "idle", ![u] = "waitlock"]
        PROVE  Enough(b)'
    <3>1. u \in Threads /\ u # t /\ pc[u] = "asleep" /\ at[u] = at[t] /\ mode[u] = "back"
      BY <1>0, <2>1 DEF Asleep, WaitersAreLast
    <3>2. /\ pc'[u] = "waitlock" /\ pc'[t] = "idle"
          /\ \A v \in Threads \ {t, u} : pc'[v] = pc[v]
      BY <1>0, <2>3, <3>1 DEF Typed
    <3>3. Asleep(b)' \subseteq Asleep(b)
      BY <2>1, <3>1, <3>2 DEF Asleep
    <3>4. CASE at[t] = b
      <4>1. t \in Wakers(b) /\ u \notin Wakers(b) /\ u \in Wakers(b)'
        BY <2>1, <3>1, <3>2, <3>4 DEF Wakers, WakesFor
      <4>2. Wakers(b) \ {t} \subseteq Wakers(b)'
        BY <2>1, <3>1, <3>2, <4>1 DEF Wakers, WakesFor
      <4>3. Asleep(b) # {}
        BY <2>3, <3>4
      <4>. QED  BY <1>0, <2>1, <4>1, <4>2, <4>3, EnoughNotified
    <3>5. CASE at[t] # b
      <4>1. Wakers(b) \subseteq Wakers(b)'
        BY <2>1, <3>1, <3>2, <3>5 DEF Wakers, WakesFor
      <4>. QED  BY <1>0, <2>1, <3>3, <4>1, EnoughKept
    <3>. QED  BY <3>4, <3>5
  <2>. QED  BY <1>6, <2>2, <2>3 DEF NotifyOne
<1>. QED  BY <1>1, <1>2, <1>3, <1>4, <1>5, <1>6 DEF Step

-----------------------------------------------------------------------------
(* A thread sleeps on a block with free buffers only while there are as    *)
(* many others that will take them or wake it (the wait of                 *)
(* BufferBlock::rent, and notify_one in add_free).                         *)
THEOREM NoWakeupIsLost ==
  ASSUME IsFiniteSet(Threads)
  PROVE  Spec => []NoLostWakeup
<1>1. Init => WakeInv
  <2>. SUFFICES ASSUME Init PROVE WakeInv
    OBVIOUS
  <2>1. \A t \in Threads : pc[t] = "idle"
    BY DEF Init
  <2>. QED  BY <2>1 DEF WakeInv, WaitersAreLast, Enough, Asleep
<1>2. PoolInv /\ WakeInv /\ [Next]_vars => WakeInv'
  <2>. SUFFICES ASSUME PoolInv, WakeInv, [Next]_vars PROVE WakeInv'
    OBVIOUS
  <2>1. ASSUME NEW t \in Threads, Step(t) PROVE WakeInv'
    BY <2>1, WaitersAreLastStep, WakeStep DEF PoolInv, WakeInv
  <2>2. CASE UNCHANGED vars
    BY <2>2 DEF vars, WakeInv, WaitersAreLast, Enough, Asleep, Wakers, WakesFor
  <2>. QED  BY <2>1, <2>2 DEF Next
<1>3. PoolInv /\ WakeInv => NoLostWakeup
  <2>. SUFFICES ASSUME PoolInv, WakeInv, NEW b \in Blocks, Asleep(b) # {}
                PROVE  Cardinality(free[b]) <= Cardinality(AwakeFor(b) \cup AboutToNotify(b))
    BY DEF NoLostWakeup
  <2>. DEFINE awake == AwakeFor(b) \cup AboutToNotify(b)
  <2>1. Wakers(b) \subseteq awake /\ awake \in SUBSET Threads
    BY DEF Wakers, WakesFor, AwakeFor, AboutToNotify, Renting
  <2>. HIDE DEF awake
  <2>2. /\ IsFiniteSet(awake) /\ Cardinality(awake) \in Nat
        /\ Cardinality(Wakers(b)) <= Cardinality(awake)
    BY <2>1, FS_Subset, FS_CardinalityType
  <2>3. Cardinality(free[b]) <= Cardinality(Wakers(b))
    BY DEF WakeInv, Enough
  <2>4. Cardinality(free[b]) \in Nat /\ Cardinality(Wakers(b)) \in Nat
    BY FreeFinite, WakersFinite DEF PoolInv
  <2>5. Cardinality(free[b]) <= Cardinality(awake)
    BY <2>2, <2>3, <2>4
  <2>. QED  BY <2>5 DEF awake
<1>. QED  BY <1>1, <1>2, <1>3, PoolInvariant, PTL DEF Spec
=============================================================================
