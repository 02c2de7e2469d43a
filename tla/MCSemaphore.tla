----------------------------- MODULE MCSemaphore -----------------------------
(* Both classes on both platforms, and seeds on both sides of zero.         *)
EXTENDS Semaphore, TLC

MCSeeds == -1..2

Symmetry == Permutations(Threads)
==============================================================================
