--------------------------- MODULE ChannelContract ---------------------------
(***************************************************************************)
(* What channel.d and boundedchannel.d promise of a Канал that keeps order:*)
(* an accepted item stays until one take receives it, items come out in the*)
(* order they went in, and nothing is accepted beyond the capacity.        *)
(***************************************************************************)
EXTENDS Naturals, Sequences

VARIABLES queue,     (* the items accepted and not yet taken               *)
          capacity   (* how many may be accepted; lowering it removes none *)

Init == queue = <<>> /\ capacity \in Nat \ {0}

\* помести returns, or предложи returns true.
Put(x) ==
  /\ Len(queue) < capacity
  /\ queue' = Append(queue, x)
  /\ UNCHANGED capacity

\* возьми, or запроси that returns an item: Head(queue).
Take ==
  /\ queue # <<>>
  /\ queue' = Tail(queue)
  /\ UNCHANGED capacity

SetCapacity(n) ==
  /\ capacity' = n
  /\ UNCHANGED queue

Next ==
  \/ queue' # <<>> /\ Put(queue'[Len(queue')])
  \/ Take
  \/ capacity' \in Nat \ {0} /\ SetCapacity(capacity')

Spec == Init /\ [][Next]_<<queue, capacity>>
==============================================================================
