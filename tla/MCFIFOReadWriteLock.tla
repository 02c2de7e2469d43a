------------------------- MODULE MCFIFOReadWriteLock -------------------------
(* Three threads; with four nodes at least one abandoned node may still be  *)
(* queued while all of them wait.  While a writer is in, or waits, at most  *)
(* two readers are inside, so counters modulo three tell all its cases      *)
(* apart, and wrap.  At the entry of the lock two nodes let a writer and a  *)
(* reader queue behind whoever has the permit.                              *)
EXTENDS FIFOReadWriteLock

MCSeeds == 0..1

Symmetry == Permutations(Threads)
==============================================================================
