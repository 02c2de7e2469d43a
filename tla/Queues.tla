-------------------------------- MODULE Queues --------------------------------
(***************************************************************************)
(* What the linked channels and the queued executor have in common: a queue*)
(* of limited capacity, and threads that are in a call that uses it.       *)
(***************************************************************************)
EXTENDS Integers, Sequences

CONSTANT Capacities   (* of the queue                                      *)

NoThread == "none"

ASSUME CapacityAssumption == Capacities \subseteq Nat \ {0}

VARIABLES
  queue,   (* the items in it, the first to be taken first                 *)
  phase    (* the call each thread is in                                   *)

Goto(t, p) == phase' = [phase EXCEPT ![t] = p]
==============================================================================
