--------------------------- MODULE MCReadWriteLock ---------------------------
(* Four threads, each of the classes, on either platform. *)
EXTENDS ReadWriteLock, TLC

Symmetry == Permutations(Threads)
==============================================================================
