------------------------------ MODULE Gathering ------------------------------
(***************************************************************************)
(* What latch.d, countdown.d and cyclicbarrier.d have in common: threads   *)
(* gather at one object until a count is down, and are then woken together *)
(* (they mix in ЖдиУведомиВсех).  The object has a счёт_ and one monitor.  *)
(***************************************************************************)
EXTENDS Integers, FiniteSets, WaitNotify

CONSTANTS Threads,   (* the threads that use the object                    *)
          Systems    (* platforms                                          *)

ASSUME GatheringAssumption == Systems \subseteq Platforms

VARIABLES
  schyot_,   (* счёт_                                                      *)
  monitor,   (* the wait set of the object's monitor                       *)
  phase      (* the call each thread is in                                 *)

Goto(t, p) == phase' = [phase EXCEPT ![t] = p]
=============================================================================
