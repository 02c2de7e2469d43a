--------------------------- MODULE MCLinkedChannels ---------------------------
(* Three threads and two items, on either class and platform. *)
EXTENDS LinkedChannels
==============================================================================
