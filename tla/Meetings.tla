------------------------------- MODULE Meetings -------------------------------
(***************************************************************************)
(* What rendezvous.d and synchronouschannel.d have in common: threads that *)
(* meet in pairs or in parties, each with an item to give or to get, on one*)
(* of two platforms.                                                       *)
(***************************************************************************)
EXTENDS Integers, Sequences, WaitNotify

CONSTANTS Threads,   (* the threads that use the object                    *)
          Systems    (* platforms                                          *)

ASSUME MeetingAssumption == Systems \subseteq Platforms
==============================================================================
