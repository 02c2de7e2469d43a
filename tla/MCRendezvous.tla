----------------------------- MODULE MCRendezvous -----------------------------
(* Three threads and parties of two to four: one that can be full with a    *)
(* thread to spare, one that needs them all, and one that never meets, which*)
(* is left by its members in broken meetings only.                          *)
EXTENDS Rendezvous, TLC

Symmetry == Permutations(Threads)
==============================================================================
