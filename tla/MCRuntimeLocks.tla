---------------------------- MODULE MCRuntimeLocks ----------------------------
(* Three threads and two locks, by each way of making a lock. *)
EXTENDS RuntimeLocks, TLC

Symmetry == Permutations(Threads) \cup Permutations(Locks)
==============================================================================
