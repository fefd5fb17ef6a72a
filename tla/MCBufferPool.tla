---------------------------- MODULE MCBufferPool ----------------------------
(* BufferPool for TLC: the constants come from the .cfg files, the threads *)
(* are interchangeable.                                                    *)
EXTENDS BufferPool, TLC

ThreadSymmetry == Permutations(Threads)
=============================================================================
