------------------------------- MODULE Locking -------------------------------
(***************************************************************************)
(* What the locks of DinrusConc and those of the runtime have in common:   *)
(* threads, one of which at a time is the owner, and the place each thread *)
(* is at in its call.                                                      *)
(***************************************************************************)
EXTENDS Naturals, FiniteSets

CONSTANT Threads   (* the threads of the program                           *)

NoThread == "nobody"

ASSUME ThreadsAssumption == NoThread \notin Threads

VARIABLE phase   (* the place each thread is at                            *)

Goto(t, p) == phase' = [phase EXCEPT ![t] = p]
==============================================================================
