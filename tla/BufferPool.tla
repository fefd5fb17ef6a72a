----------------------------- MODULE BufferPool -----------------------------
(***************************************************************************)
(* The buffer pool of rakro: BufferCompany, its BufferBlocks and the       *)
(* RentedBuffers they lend (rakro/internal/buffer_company.{hpp,cpp}).      *)
(*                                                                         *)
(* Any number of threads rent and give back buffers.  A step of the model  *)
(* is what a thread does between two points where another thread can see   *)
(* or disturb it: the unlocked reads of free_buffer_count and of           *)
(* blocks.size(), taking a buffer_mutex, each update made under it, and    *)
(* going to sleep on the condition variable.                               *)
(*                                                                         *)
(* Blocks are numbered in the order of their creation.  init_block puts a  *)
(* new block at the front of the list, so a walk of the list visits        *)
(* blockCount, ..., 2, 1 and blocks.back() is block 1.                     *)
(*                                                                         *)
(* Abstracted: the bytes of a buffer, and the LIFO order of the stack of   *)
(* free buffers (any free buffer of the block may be popped).              *)
(***************************************************************************)
EXTENDS Integers, FiniteSets

CONSTANTS
  Threads,        \* the threads that share the pool
  BufferCount,    \* buffer_count: buffers in one block
  BlockMaxCount,  \* block_max_count: most blocks the company makes
  MaxHeld,        \* bound: most buffers one thread holds at a time
  NoThread,       \* the owner of a mutex nobody holds
  Free, Unmade    \* where LendingPool has a buffer that no thread has

ASSUME ThreadsAssumption ==
  /\ Threads # {}
  /\ NoThread \notin Threads
  /\ Free \notin Threads
  /\ Unmade \notin Threads
  /\ Free # Unmade
ASSUME SizesAssumption ==
  /\ BufferCount \in Nat \ {0}
  /\ BlockMaxCount \in Nat \ {0}
  /\ MaxHeld \in Nat \ {0}

Blocks == 1 .. BlockMaxCount

(* The buffers block b is cut into; x[1] is the `owner' of a buffer x.     *)
BuffersOf(b) == {b} \X (1 .. BufferCount)
Buffers == Blocks \X (1 .. BufferCount)

VARIABLES
  blockCount,   \* blocks.size()
  making,       \* is_making_block, as it is while blocks_mutex is free
  free,         \* free[b]: the free_buffers of block b
  count,        \* count[b]: its free_buffer_count
  mutex,        \* mutex[b]: who holds its buffer_mutex
  held,         \* held[t]: the RentedBuffers thread t owns
  pc,           \* pc[t]: what thread t does next
  mode,         \* mode[t]: which of rent()'s searches t is in
  at,           \* at[t]: the block t is working on
  giving,       \* giving[t]: the buffer t is giving back
  aborted       \* an exception has left a noexcept function

vars == <<blockCount, making, free, count, mutex, held, pc, mode, at, giving,
          aborted>>

(***************************************************************************)
(* Where a thread can be.  scan..pop are try_rent, full and grow the rest  *)
(* of BufferCompany::rent, waitlock..asleep the wait of BufferBlock::rent, *)
(* free..notify RentedBuffer::owner_free and add_free; gone is where the   *)
(* exception that ends the process was thrown.                             *)
(***************************************************************************)
PCs == {"idle", "scan", "lock", "take", "pop", "full", "grow", "rescan",
        "waitlock", "waitcheck", "asleep", "free", "push", "bump", "notify",
        "gone"}

(* Inside try_rent.                                                        *)
InTryRent(t) == pc[t] \in {"scan", "lock", "take", "pop"}

(* The two calls of try_all hold blocks_mutex shared from end to end; the  *)
(* search of BufferBlock::rent ("back") does not.                          *)
ReadsBlocks(t) == InTryRent(t) /\ mode[t] \in {"first", "second"}

(* Inside rent(), with nothing to show for it yet.                         *)
Renting(t) == pc[t] \notin {"idle", "free", "push", "bump", "notify"}

(* The steps that run with a buffer_mutex in hand.                         *)
InMutex(t) == pc[t] \in {"take", "pop", "waitcheck", "push", "bump", "notify"}

NoBuffer == <<0, 0>>

(* A block as its constructor leaves it.                                   *)
Init ==
  /\ blockCount = 1
  /\ making = FALSE
  /\ free = [b \in Blocks |-> IF b = 1 THEN BuffersOf(b) ELSE {}]
  /\ count = [b \in Blocks |-> IF b = 1 THEN BufferCount ELSE 0]
  /\ mutex = [b \in Blocks |-> NoThread]
  /\ held = [t \in Threads |-> {}]
  /\ pc = [t \in Threads |-> "idle"]
  /\ mode = [t \in Threads |-> "first"]
  /\ at = [t \in Threads |-> 1]
  /\ giving = [t \in Threads |-> NoBuffer]
  /\ aborted = FALSE

-----------------------------------------------------------------------------
(***************************************************************************)
(* Renting.                                                                *)
(***************************************************************************)

Goto(t, label) == pc' = [pc EXCEPT ![t] = label]
Unlock(b) == mutex' = [mutex EXCEPT ![b] = NoThread]

(* BufferCompany::rent begins: try_all takes blocks_mutex shared and       *)
(* starts at the front of the list.                                        *)
Rent(t) ==
  /\ pc[t] = "idle"
  /\ Cardinality(held[t]) < MaxHeld
  /\ Goto(t, "scan")
  /\ mode' = [mode EXCEPT ![t] = "first"]
  /\ at' = [at EXCEPT ![t] = blockCount]
  /\ UNCHANGED <<blockCount, making, free, count, mutex, held, giving, aborted>>

(* try_rent returned nullopt.  try_all goes on to the next block; at the   *)
(* end of the list the first try_all returns to rent(), while the second   *)
(* makes `try_all().value()' throw inside a noexcept function.             *)
Miss(t) ==
  \/ /\ mode[t] = "back"
     /\ Goto(t, "waitlock")
     /\ UNCHANGED <<at, aborted>>
  \/ /\ mode[t] # "back"
     /\ at[t] > 1
     /\ at' = [at EXCEPT ![t] = @ - 1]
     /\ Goto(t, "scan")
     /\ UNCHANGED aborted
  \/ /\ mode[t] = "first"
     /\ at[t] = 1
     /\ Goto(t, "full")
     /\ UNCHANGED <<at, aborted>>
  \/ /\ mode[t] = "second"
     /\ at[t] = 1
     /\ aborted' = TRUE
     /\ Goto(t, "gone")
     /\ UNCHANGED at

(* try_rent reads free_buffer_count without the lock.                      *)
CheckCount(t) ==
  /\ pc[t] = "scan"
  /\ \/ /\ count[at[t]] = 0
        /\ Miss(t)
     \/ /\ count[at[t]] # 0
        /\ Goto(t, "lock")
        /\ UNCHANGED <<at, aborted>>
  /\ UNCHANGED <<blockCount, making, free, count, mutex, held, mode, giving>>

(* Mutant: no unique_lock in try_rent.                                     *)
LockToTakeUnguarded(t) ==
  /\ pc[t] = "lock"
  /\ mutex' = [mutex EXCEPT ![at[t]] = t]
  /\ Goto(t, "take")
  /\ UNCHANGED <<blockCount, making, free, count, held, mode, at, giving, aborted>>

LockToTake(t) ==
  /\ pc[t] = "lock"
  /\ mutex[at[t]] = NoThread
  /\ mutex' = [mutex EXCEPT ![at[t]] = t]
  /\ Goto(t, "take")
  /\ UNCHANGED <<blockCount, making, free, count, held, mode, at, giving, aborted>>

(* With the lock: free_buffer_count-- if there is a buffer, else give up.  *)
Take(t) ==
  /\ pc[t] = "take"
  /\ \/ /\ free[at[t]] # {}
        /\ count' = [count EXCEPT ![at[t]] = @ - 1]
        /\ Goto(t, "pop")
        /\ UNCHANGED <<mutex, at, aborted>>
     \/ /\ free[at[t]] = {}
        /\ Unlock(at[t])
        /\ Miss(t)
        /\ UNCHANGED count
  /\ UNCHANGED <<blockCount, making, free, held, mode, giving>>

(* Pop the buffer, unlock, and return it from rent().                      *)
Pop(t) ==
  /\ pc[t] = "pop"
  /\ \E x \in free[at[t]] :
        /\ free' = [free EXCEPT ![at[t]] = @ \ {x}]
        /\ held' = [held EXCEPT ![t] = @ \cup {x}]
  /\ Unlock(at[t])
  /\ Goto(t, "idle")
  /\ UNCHANGED <<blockCount, making, count, mode, at, giving, aborted>>

(* rent() reads blocks.size() without blocks_mutex: at the limit it waits  *)
(* on the last block of the list, else it asks for a new one.              *)
ReadSize(t) ==
  /\ pc[t] = "full"
  /\ \/ /\ blockCount = BlockMaxCount
        /\ mode' = [mode EXCEPT ![t] = "back"]
        /\ at' = [at EXCEPT ![t] = 1]
        /\ Goto(t, "scan")
     \/ /\ blockCount # BlockMaxCount
        /\ Goto(t, "grow")
        /\ UNCHANGED <<mode, at>>
  /\ UNCHANGED <<blockCount, making, free, count, mutex, held, giving, aborted>>

(* Mutant: is_making_block is not reset.                                   *)
InitBlockKeepingFlag(t) ==
  /\ pc[t] = "grow"
  /\ ~making
  /\ blockCount < BlockMaxCount
  /\ making' = TRUE
  /\ blockCount' = blockCount + 1
  /\ free' = [free EXCEPT ![blockCount + 1] = BuffersOf(blockCount + 1)]
  /\ count' = [count EXCEPT ![blockCount + 1] = BufferCount]
  /\ Goto(t, "rescan")
  /\ UNCHANGED <<mutex, held, mode, at, giving, aborted>>

(* Mutant: the limit is not tested again in init_block.                    *)
InitBlockUnchecked(t) ==
  /\ pc[t] = "grow"
  /\ \A u \in Threads : ~ReadsBlocks(u)
  /\ blockCount' = blockCount + 1
  /\ free' = [free EXCEPT ![blockCount + 1] = BuffersOf(blockCount + 1)]
  /\ count' = [count EXCEPT ![blockCount + 1] = BufferCount]
  /\ Goto(t, "rescan")
  /\ UNCHANGED <<making, mutex, held, mode, at, giving, aborted>>

(* init_block, which needs blocks_mutex exclusively: no try_all may be     *)
(* under way.  At the limit it returns with is_making_block left set.      *)
InitBlock(t) ==
  /\ pc[t] = "grow"
  /\ \A u \in Threads : ~ReadsBlocks(u)
  /\ \/ /\ making
        /\ UNCHANGED <<blockCount, making, free, count>>
     \/ /\ ~making
        /\ blockCount >= BlockMaxCount
        /\ making' = TRUE
        /\ UNCHANGED <<blockCount, free, count>>
     \/ /\ ~making
        /\ blockCount < BlockMaxCount
        /\ blockCount' = blockCount + 1
        /\ free' = [free EXCEPT ![blockCount + 1] = BuffersOf(blockCount + 1)]
        /\ count' = [count EXCEPT ![blockCount + 1] = BufferCount]
        /\ UNCHANGED making
  /\ Goto(t, "rescan")
  /\ UNCHANGED <<mutex, held, mode, at, giving, aborted>>

(* The second try_all.                                                     *)
Rescan(t) ==
  /\ pc[t] = "rescan"
  /\ Goto(t, "scan")
  /\ mode' = [mode EXCEPT ![t] = "second"]
  /\ at' = [at EXCEPT ![t] = blockCount]
  /\ UNCHANGED <<blockCount, making, free, count, mutex, held, giving, aborted>>

(* BufferBlock::rent after a failed try_rent: lock, test the predicate of  *)
(* waiter.wait, and sleep or unlock and try again.                         *)
LockToWait(t) ==
  /\ pc[t] = "waitlock"
  /\ mutex[at[t]] = NoThread
  /\ mutex' = [mutex EXCEPT ![at[t]] = t]
  /\ Goto(t, "waitcheck")
  /\ UNCHANGED <<blockCount, making, free, count, held, mode, at, giving, aborted>>

WaitCheck(t) ==
  /\ pc[t] = "waitcheck"
  /\ Unlock(at[t])
  /\ \/ free[at[t]] # {} /\ Goto(t, "scan")
     \/ free[at[t]] = {} /\ Goto(t, "asleep")
  /\ UNCHANGED <<blockCount, making, free, count, held, mode, at, giving, aborted>>

(* A condition variable may wake a thread that nobody notified.            *)
SpuriousWakeup(t) ==
  /\ pc[t] = "asleep"
  /\ Goto(t, "waitlock")
  /\ UNCHANGED <<blockCount, making, free, count, mutex, held, mode, at, giving,
                 aborted>>

-----------------------------------------------------------------------------
(***************************************************************************)
(* Giving back: ~RentedBuffer or a move assignment calls owner_free, which *)
(* calls add_free of the block that owns the memory.                       *)
(***************************************************************************)

Release(t) ==
  /\ pc[t] = "idle"
  /\ \E x \in held[t] :
        /\ giving' = [giving EXCEPT ![t] = x]
        /\ at' = [at EXCEPT ![t] = x[1]]
  /\ Goto(t, "free")
  /\ UNCHANGED <<blockCount, making, free, count, mutex, held, mode, aborted>>

LockToFree(t) ==
  /\ pc[t] = "free"
  /\ mutex[at[t]] = NoThread
  /\ mutex' = [mutex EXCEPT ![at[t]] = t]
  /\ Goto(t, "push")
  /\ UNCHANGED <<blockCount, making, free, count, held, mode, at, giving, aborted>>

(* Mutant: owner_free does not clear the RentedBuffer it frees.            *)
PushCopy(t) ==
  /\ pc[t] = "push"
  /\ free' = [free EXCEPT ![at[t]] = @ \cup {giving[t]}]
  /\ giving' = [giving EXCEPT ![t] = NoBuffer]
  /\ Goto(t, "bump")
  /\ UNCHANGED <<blockCount, making, count, mutex, held, mode, at, aborted>>

Push(t) ==
  /\ pc[t] = "push"
  /\ free' = [free EXCEPT ![at[t]] = @ \cup {giving[t]}]
  /\ held' = [held EXCEPT ![t] = @ \ {giving[t]}]
  /\ giving' = [giving EXCEPT ![t] = NoBuffer]
  /\ Goto(t, "bump")
  /\ UNCHANGED <<blockCount, making, count, mutex, mode, at, aborted>>

Bump(t) ==
  /\ pc[t] = "bump"
  /\ count' = [count EXCEPT ![at[t]] = @ + 1]
  /\ Goto(t, "notify")
  /\ UNCHANGED <<blockCount, making, free, mutex, held, mode, at, giving, aborted>>

Asleep(b) == {u \in Threads : pc[u] = "asleep" /\ at[u] = b}

(* Mutant: add_free does not notify.                                       *)
NotifyNobody(t) ==
  /\ pc[t] = "notify"
  /\ Unlock(at[t])
  /\ Goto(t, "idle")
  /\ UNCHANGED <<blockCount, making, free, count, held, mode, at, giving, aborted>>

(* waiter.notify_one, then the lock goes out of scope.                     *)
NotifyOne(t) ==
  /\ pc[t] = "notify"
  /\ Unlock(at[t])
  /\ \/ /\ Asleep(at[t]) = {}
        /\ Goto(t, "idle")
     \/ \E u \in Asleep(at[t]) :
           pc' = [pc EXCEPT ![t] = "idle", ![u] = "waitlock"]
  /\ UNCHANGED <<blockCount, making, free, count, held, mode, at, giving, aborted>>

-----------------------------------------------------------------------------

(* One step of thread t; after std::terminate there are none.              *)
Step(t) ==
  /\ ~aborted
  /\ \/ Rent(t) \/ CheckCount(t) \/ LockToTake(t) \/ Take(t) \/ Pop(t)
     \/ ReadSize(t) \/ InitBlock(t) \/ Rescan(t)
     \/ LockToWait(t) \/ WaitCheck(t) \/ SpuriousWakeup(t)
     \/ Release(t) \/ LockToFree(t) \/ Push(t) \/ Bump(t) \/ NotifyOne(t)

Next == \E t \in Threads : Step(t)

Spec == Init /\ [][Next]_vars

-----------------------------------------------------------------------------
(***************************************************************************)
(* What the pool promises.                                                 *)
(***************************************************************************)

TypeOK ==
  /\ blockCount \in Blocks
  /\ making \in BOOLEAN
  /\ free \in [Blocks -> SUBSET Buffers]
  /\ count \in [Blocks -> 0 .. BufferCount]
  /\ mutex \in [Blocks -> Threads \cup {NoThread}]
  /\ held \in [Threads -> SUBSET Buffers]
  /\ pc \in [Threads -> PCs]
  /\ mode \in [Threads -> {"first", "second", "back"}]
  /\ at \in [Threads -> Blocks]
  /\ giving \in [Threads -> Buffers \cup {NoBuffer}]
  /\ aborted \in BOOLEAN

(* Every buffer of a block that exists is in one place: on the free list   *)
(* of its own block, or with the one thread that rents it.  (The moves of  *)
(* RentedBuffer and add_free neither lose nor copy a buffer, and no two    *)
(* calls of rent() return the same memory.)                                *)
FreeAtHome ==
  \A b \in Blocks : free[b] \subseteq (IF b <= blockCount THEN BuffersOf(b) ELSE {})

HeldNotFree ==
  \A t \in Threads : \A x \in held[t] : x[1] <= blockCount /\ x \notin free[x[1]]

OneBorrower ==
  \A t, u \in Threads : t # u => held[t] \cap held[u] = {}

NoneLost ==
  \A b \in 1 .. blockCount : \A x \in BuffersOf(b) :
     x \in free[b] \/ \E t \in Threads : x \in held[t]

Conserved == FreeAtHome /\ HeldNotFree /\ OneBorrower /\ NoneLost

(* free_buffer_count, which try_rent and so BufferCompany::rent trust      *)
(* without the lock, never runs ahead of the free list, and is exact       *)
(* whenever nobody holds the block's buffer_mutex.                         *)
CountAgrees ==
  \A b \in Blocks :
     /\ count[b] <= Cardinality(free[b])
     /\ mutex[b] = NoThread => count[b] = Cardinality(free[b])

(* init_block returns early with is_making_block set when the limit is     *)
(* reached, and the flag then turns every later call into a no-op: it is   *)
(* never set while the company could still grow.                           *)
StuckFlagOnlyAtLimit == making => blockCount = BlockMaxCount

(* Threads that are past the wait of BufferBlock::rent on block b but have *)
(* not tried their luck yet, and threads about to call notify_one.         *)
AwakeFor(b) == {u \in Threads : at[u] = b /\ mode[u] = "back" /\ Renting(u)
                                /\ pc[u] # "asleep"}
AboutToNotify(b) == {u \in Threads : at[u] = b /\ pc[u] \in {"bump", "notify"}}

(* rent() hands out a buffer whatever the other threads do: `.value()' of  *)
(* the second try_all never throws, which in a noexcept function ends the  *)
(* process.  It fails when threads rent at the same time, and holds when a *)
(* single one does, as the listener thread of a RakServer.                 *)
RentReturnsABuffer == ~aborted

(* No lost wakeup: a thread sleeps on a block that has a free buffer only  *)
(* while another is about to notify, or was woken and will look again, and *)
(* there are as many of those as there are free buffers to be had or       *)
(* sleepers to be woken.                                                   *)
NoLostWakeup ==
  \A b \in Blocks :
     Asleep(b) # {} =>
        Cardinality(free[b]) <= Cardinality(AwakeFor(b) \cup AboutToNotify(b))

-----------------------------------------------------------------------------
(***************************************************************************)
(* BufferPool implements LendingPool: a buffer leaves the stock when it is *)
(* popped and is back when it is pushed, whatever the counters say.        *)
(***************************************************************************)
Borrower(x) ==
  IF x[1] > blockCount THEN Unmade
  ELSE IF x \in free[x[1]] THEN Free
  ELSE CHOOSE t \in Threads : x \in held[t]

Lending == INSTANCE LendingPool
             WITH made <- blockCount, borrower <- [x \in Buffers |-> Borrower(x)]

LendsLikeLendingPool == Lending!Spec
=============================================================================
