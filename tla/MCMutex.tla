------------------------------- MODULE MCMutex -------------------------------
(* Four threads on either platform. *)
EXTENDS Mutex
==============================================================================
