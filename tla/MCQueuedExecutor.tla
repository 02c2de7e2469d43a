--------------------------- MODULE MCQueuedExecutor ---------------------------
(* Three callers make up to six calls, with a channel of one, two or six places. *)
EXTENDS QueuedExecutor
==============================================================================
