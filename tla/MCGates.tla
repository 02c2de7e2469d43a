------------------------------ MODULE MCGates ------------------------------
(* A gate that is open from the start, and ones that one or two calls open. *)
EXTENDS Gates

MCCounts == -1..2
==============================================================================
