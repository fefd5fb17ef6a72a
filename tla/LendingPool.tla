----------------------------- MODULE LendingPool ----------------------------
(***************************************************************************)
(* What BufferCompany promises its callers, with no lock, counter or list: *)
(* a stock of buffers, each with at most one borrower, that grows by one   *)
(* whole block at a time up to a limit.                                    *)
(***************************************************************************)
EXTENDS Integers

CONSTANTS
  Threads, BufferCount, BlockMaxCount,
  Free,      \* the borrower of a buffer that can be lent
  Unmade     \* the borrower of a buffer of a block that does not exist yet

Blocks == 1 .. BlockMaxCount
Buffers == Blocks \X (1 .. BufferCount)

VARIABLES
  made,       \* how many blocks exist
  borrower    \* who has a buffer

poolVars == <<made, borrower>>

Init ==
  /\ made = 1
  /\ borrower = [x \in Buffers |-> IF x[1] = 1 THEN Free ELSE Unmade]

(* rent() hands a free buffer to its caller.                               *)
Lend(t, x) ==
  /\ borrower[x] = Free
  /\ borrower' = [borrower EXCEPT ![x] = t]
  /\ UNCHANGED made

(* The RentedBuffer of t is destroyed.                                     *)
GiveBack(t, x) ==
  /\ borrower[x] = t
  /\ borrower' = [borrower EXCEPT ![x] = Free]
  /\ UNCHANGED made

(* init_block adds a block, and touches no buffer of another one.          *)
Grow ==
  /\ made < BlockMaxCount
  /\ made' = made + 1
  /\ borrower' = [x \in Buffers |-> IF x[1] = made + 1 THEN Free ELSE borrower[x]]

Next ==
  \/ \E t \in Threads, x \in Buffers : Lend(t, x) \/ GiveBack(t, x)
  \/ Grow

Spec == Init /\ [][Next]_poolVars
=============================================================================
