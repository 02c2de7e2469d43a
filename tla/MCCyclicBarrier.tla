--------------------------- MODULE MCCyclicBarrier ---------------------------
(* Two parties and a third thread, so that a late comer meets a generation  *)
(* that is over but not yet left.                                           *)
EXTENDS CyclicBarrier, TLC

Symmetry == Permutations(Threads)
==============================================================================
