------------------------- MODULE MCSynchronousChannel -------------------------
(* Three threads and four nodes, so that cancelled nodes stay queued. *)
EXTENDS SynchronousChannel, TLC

Symmetry == Permutations(Threads) \cup Permutations(Nodes)
==============================================================================
