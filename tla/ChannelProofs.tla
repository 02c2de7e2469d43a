---------------------------- MODULE ChannelProofs ----------------------------
(***************************************************************************)
(* The channels on linked nodes, and the executor that queues its tasks,   *)
(* for any threads, items, capacities and calls.                           *)
(*                                                                         *)
(* The channels.  ChannelInv has, besides the types,                       *)
(*   PutsPlaced, TakesPlaced, GuardInUse                                   *)
(*                  which calls may wait where, and that стражПомещения_ is*)
(*                  held exactly by a put that waits or is about to link;  *)
(*   PlacesCounted  every place of the queue is free, promised or taken: a *)
(*                  permit that has been used is a place the guard keeps.  *)
(* It gives PermitsSplit on any platform and for any threads, and that a   *)
(* put never links beyond the capacity (KeepsContract).  NobodyStranded    *)
(* needs it and, as its own parts, TakersServed, PutterServed and          *)
(* TakersCounted: a put of the linked class leaves уведоми out when the    *)
(* count says that nobody waits.                                           *)
(*                                                                         *)
(* The executor.  OneWorker is inductive as it stands.  AtMostOneMore is   *)
(* not: a second late task would need a worker that is past its test of    *)
(* прерывание_, in возьми, when the first has been begun.  LateOnce        *)
(* excludes it: the one worker has left возьми to begin that task and      *)
(* cannot come back.                                                       *)
(***************************************************************************)
EXTENDS LinkedChannels, QueuedExecutor, CommonTheorems

\* How many items are linked, and how many puts have a permit for another.
Filled == Len(queue)

Linking == IF guard # NoThread /\ phase[guard] = "link" THEN 1 ELSE 0

ChannelTypes ==
  /\ queue \in Seq(Items) /\ emkost_ \in Nat \ {0}
  /\ putSidePutPermits_ \in Int /\ takeSidePutPermits_ \in Nat
  /\ ozhidanieZabora_ \in Int
  /\ guard \in Threads \cup {NoThread}
  /\ WaitSetOK(room, Threads) /\ WaitSetOK(takers, Threads) /\ takers.os = room.os
  /\ phase \in [Threads -> Phases]
  /\ item \in [Threads -> Items \cup {NoItem}]
  /\ cls \in {"linked", "bounded"}

\* Who waits is in a call that waits, and who puts has an item and the guard.
PutsPlaced ==
  \A t \in Threads :
    /\ phase[t] \in {"put", "offer"} <=> room.at[t] # "running"
    /\ phase[t] \in {"put", "offer", "link"} => Bounded /\ guard = t /\ item[t] \in Items

TakesPlaced ==
  \A t \in Threads : phase[t] \in {"take", "poll"} <=> takers.at[t] # "running"

GuardInUse == guard # NoThread => Bounded /\ phase[guard] \in {"put", "offer", "link"}

\* Every place of the queue is free, promised or taken; one that is promised was
\* there, and stays while the guard keeps установиЁмкость out.
PlacesCounted ==
  Bounded =>
    /\ Reconciled = emkost_ - Filled - Linking
    /\ Linking = 1 => putSidePutPermits_ >= 0

FixedLength == ~Bounded => emkost_ = MaxLength

ChannelInv ==
  ChannelTypes /\ PutsPlaced /\ TakesPlaced /\ GuardInUse /\ PlacesCounted /\ FixedLength

LEMMA FilledIs ==
  ASSUME queue \in Seq(Items)
  PROVE  Filled \in Nat /\ (queue = <<>> <=> Filled = 0)
  BY EmptySeq, LenProperties DEF Filled

LEMMA FilledMore ==
  ASSUME queue \in Seq(Items), NEW x \in Items, queue' = Append(queue, x)
  PROVE  queue' \in Seq(Items) /\ Filled' = Filled + 1
  BY AppendProperties DEF Filled

LEMMA FilledLess ==
  ASSUME queue \in Seq(Items), queue # <<>>, queue' = Tail(queue)
  PROVE  queue' \in Seq(Items) /\ Filled' = Filled - 1
  BY HeadTailProperties DEF Filled

\* Nobody comes back from a wait, or begins one, by what the kernel does.
LEMMA KernelStays ==
  ASSUME NEW w, WaitSetOK(w, Threads), NEW t \in Threads, NEW timed,
         NEW x \in KernelSteps(w, t, timed)
  PROVE  /\ WaitSetOK(x, Threads) /\ x.os = w.os
         /\ \A s \in Threads : x.at[s] = "running" <=> w.at[s] = "running"
  <1>1. /\ WaitSetOK(x, Threads) /\ x.os = w.os
        /\ \A s \in Threads : s # t => x.at[s] = w.at[s]
    BY KernelStepOK
  <1>2. w.at[t] # "running" /\ x.at[t] # "running"
    BY KernelStepMoves
  <1> QED BY <1>1, <1>2

LEMMA ChannelStarts == Init => ChannelInv
  <1> SUFFICES ASSUME Init PROVE ChannelInv
    OBVIOUS
  <1>1. PICK os \in Systems : room = NewWaitSet(os, Threads)
    BY DEF Init
  <1>2. WaitSetOK(room, Threads) /\ takers = room /\ \A t \in Threads : room.at[t] = "running"
    BY <1>1, NewWaitSetOK, ChannelAssumption DEF Init, NewWaitSet
  <1>3. cls \in {"linked", "bounded"} /\ emkost_ \in Nat \ {0}
        /\ putSidePutPermits_ \in Int /\ putSidePutPermits_ = (IF Bounded THEN emkost_ ELSE 0)
    BY ChannelAssumption, CapacityAssumption DEF Init, Bounded
  <1>4. queue = <<>> /\ queue \in Seq(Items) /\ Filled = 0
    BY EmptySeq, FilledIs DEF Init
  <1>5. ChannelTypes
    BY <1>2, <1>3, <1>4 DEF Init, ChannelTypes, Phases
  <1>6. PutsPlaced /\ TakesPlaced /\ GuardInUse
    BY <1>2 DEF Init, PutsPlaced, TakesPlaced, GuardInUse
  <1>7. PlacesCounted
    BY <1>3, <1>4 DEF Init, PlacesCounted, Reconciled, Linking, Bounded
  <1>8. FixedLength
    BY DEF Init, FixedLength
  <1> QED BY <1>5, <1>6, <1>7, <1>8 DEF ChannelInv

\* The putter gets a permit.
LEMMA PermitKeeps ==
  ASSUME ChannelInv, Bounded, NEW t \in Threads, guard \in {NoThread, t}, phase[t] # "link",
         phase[t] \in {"idle", "put", "offer"}, guard = t <=> phase[t] # "idle",
         OwnPermit(t) \/ UsePermit(t),
         room' = Resume(room, t) \/ (phase[t] = "idle" /\ room' = room), guard' = t,
         item' \in [Threads -> Items \cup {NoItem}], item'[t] \in Items,
         UNCHANGED <<queue, emkost_, cls>>, UNCHANGED takeVars
  PROVE  ChannelInv'
  <1>1. /\ WaitSetOK(room', Threads) /\ room'.os = room.os /\ room'.at[t] = "running"
        /\ \A s \in Threads : s # t => room'.at[s] = room.at[s]
    BY ResumeOK DEF ChannelInv, ChannelTypes, PutsPlaced
  <1>2. phase' = [phase EXCEPT ![t] = "link"] /\ phase \in [Threads -> Phases]
    BY DEF ChannelInv, ChannelTypes, OwnPermit, UsePermit, Goto
  <1>3. /\ putSidePutPermits_' \in Int /\ takeSidePutPermits_' \in Nat
        /\ Reconciled \in Int /\ Reconciled' = Reconciled - 1
        /\ putSidePutPermits_' >= 0
    BY DEF ChannelInv, ChannelTypes, OwnPermit, UsePermit, Reconciled
  <1>4. ChannelTypes'
    BY <1>1, <1>2, <1>3 DEF ChannelInv, ChannelTypes, Phases, takeVars
  <1>5. \A s \in Threads : s # t => phase[s] \notin {"put", "offer", "link"}
    BY ChannelAssumption DEF ChannelInv, PutsPlaced
  <1>6. PutsPlaced' /\ TakesPlaced' /\ GuardInUse'
    BY <1>1, <1>2, <1>5
       DEF ChannelInv, PutsPlaced, TakesPlaced, GuardInUse, Bounded, takeVars
  <1>7. Linking = 0 /\ Linking' = 1
    BY <1>2, ChannelAssumption DEF Linking
  <1>8. PlacesCounted'
    <2>1. Filled \in Nat /\ Filled' = Filled /\ emkost_ \in Nat /\ emkost_' = emkost_
          /\ cls' = cls
      BY FilledIs DEF ChannelInv, ChannelTypes, Filled
    <2> QED BY <1>3, <1>7, <2>1 DEF ChannelInv, PlacesCounted, Bounded
  <1>9. FixedLength'
    BY DEF ChannelInv, FixedLength, Bounded
  <1> QED BY <1>4, <1>6, <1>8, <1>9 DEF ChannelInv

\* The putter finds none, and waits or leaves.
LEMMA NoPermitKeeps ==
  ASSUME ChannelInv, Bounded, NEW t \in Threads, guard \in {NoThread, t}, phase[t] # "link",
         phase[t] \in {"idle", "put", "offer"}, guard = t <=> phase[t] # "idle",
         NoPermit,
         \/ /\ room' = Zhdi(room, t) /\ guard' = t
            /\ \E p \in {"put", "offer"} : Goto(t, p)
            /\ item'[t] \in Items
         \/ room' = Resume(room, t) /\ Goto(t, "idle") /\ guard' = NoThread
         \/ UNCHANGED <<room, phase, guard>> /\ phase[t] = "idle",
         item' \in [Threads -> Items \cup {NoItem}],
         UNCHANGED <<queue, emkost_, cls>>, UNCHANGED takeVars
  PROVE  ChannelInv'
  <1>1. /\ WaitSetOK(room', Threads) /\ room'.os = room.os
        /\ \A s \in Threads : s # t => room'.at[s] = room.at[s]
    <2>1. WaitSetOK(room, Threads)
      BY DEF ChannelInv, ChannelTypes
    <2>2. CASE room' = Zhdi(room, t)
      BY <2>1, <2>2, ZhdiOK
    <2>3. CASE room' = Resume(room, t)
      BY <2>1, <2>3, ResumeOK
    <2> QED BY <2>1, <2>2, <2>3
  <1>2. PICK p \in {"put", "offer", "idle"} :
          /\ phase' = [phase EXCEPT ![t] = p] /\ phase \in [Threads -> Phases]
          /\ guard' = (IF p = "idle" THEN NoThread ELSE t)
          /\ room'.at[t] # "running" <=> p # "idle"
          /\ p # "idle" => item'[t] \in Items
    <2>1. WaitSetOK(room, Threads) /\ phase \in [Threads -> Phases]
      BY DEF ChannelInv, ChannelTypes
    <2>2. CASE room' = Zhdi(room, t) /\ guard' = t /\ item'[t] \in Items
                 /\ \E p \in {"put", "offer"} : Goto(t, p)
      BY <2>1, <2>2, ZhdiOK DEF Goto
    <2>3. CASE room' = Resume(room, t) /\ Goto(t, "idle") /\ guard' = NoThread
      BY <2>1, <2>3, ResumeOK DEF Goto
    <2>4. CASE UNCHANGED <<room, phase, guard>> /\ phase[t] = "idle"
      BY <2>1, <2>4 DEF Goto, ChannelInv, PutsPlaced
    <2> QED BY <2>2, <2>3, <2>4
  <1>3. /\ putSidePutPermits_' \in Int /\ takeSidePutPermits_' \in Nat
        /\ Reconciled \in Int /\ Reconciled' = Reconciled
    BY DEF ChannelInv, ChannelTypes, NoPermit, Reconciled
  <1>4. ChannelTypes'
    BY <1>1, <1>2, <1>3 DEF ChannelInv, ChannelTypes, Phases, takeVars
  <1>5. \A s \in Threads : s # t => phase[s] \notin {"put", "offer", "link"}
    BY ChannelAssumption DEF ChannelInv, PutsPlaced
  <1>6. PutsPlaced' /\ TakesPlaced' /\ GuardInUse'
    BY <1>1, <1>2, <1>5, ChannelAssumption
       DEF ChannelInv, PutsPlaced, TakesPlaced, GuardInUse, Bounded, takeVars
  <1>7. Linking = 0 /\ Linking' = 0
    BY <1>2, ChannelAssumption DEF Linking, ChannelInv, ChannelTypes
  <1>8. PlacesCounted'
    <2>1. Filled \in Nat /\ Filled' = Filled /\ emkost_ \in Nat /\ emkost_' = emkost_
          /\ cls' = cls
      BY FilledIs DEF ChannelInv, ChannelTypes, Filled
    <2> QED BY <1>3, <1>7, <2>1 DEF ChannelInv, PlacesCounted, Bounded
  <1>9. FixedLength'
    BY DEF ChannelInv, FixedLength, Bounded
  <1> QED BY <1>4, <1>6, <1>8, <1>9 DEF ChannelInv

LEMMA BoundedPutKeeps ==
  ASSUME ChannelInv, NEW t \in Threads, NEW x \in Items, NEW call \in {"put", "offer"},
         BoundedPut(t, x, call)
  PROVE  ChannelInv'
  <1>1. /\ Bounded /\ phase[t] = "idle" /\ guard = NoThread /\ guard # t
        /\ item' \in [Threads -> Items \cup {NoItem}] /\ item'[t] \in Items
        /\ UNCHANGED <<queue, emkost_, cls>> /\ UNCHANGED takeVars
    BY ChannelAssumption DEF BoundedPut, ChannelInv, ChannelTypes
  <1>2. \/ (OwnPermit(t) \/ UsePermit(t)) /\ guard' = t /\ room' = room
        \/ NoPermit /\ room' = Zhdi(room, t) /\ Goto(t, call) /\ guard' = t
    BY DEF BoundedPut, OwnPermit, UsePermit
  <1> QED BY <1>1, <1>2, PermitKeeps, NoPermitKeeps

LEMMA OfferRefusedKeeps ==
  ASSUME ChannelInv, NEW t \in Threads, OfferRefused(t)
  PROVE  ChannelInv'
  <1>1. /\ Bounded /\ phase[t] = "idle" /\ guard = NoThread /\ guard # t /\ NoPermit
        /\ item' \in [Threads -> Items \cup {NoItem}]
        /\ UNCHANGED <<queue, emkost_, cls>> /\ UNCHANGED takeVars
        /\ UNCHANGED <<room, phase, guard>>
    BY ChannelAssumption DEF OfferRefused, ChannelInv, ChannelTypes
  <1> QED BY <1>1, NoPermitKeeps

LEMMA RetryPutKeeps ==
  ASSUME ChannelInv, NEW t \in Threads, NEW call \in {"put", "offer"}, RetryPut(t, call)
  PROVE  ChannelInv'
  <1>1. /\ Bounded /\ phase[t] = call /\ guard = t
        /\ item \in [Threads -> Items \cup {NoItem}] /\ item[t] \in Items
        /\ UNCHANGED <<queue, emkost_, cls>> /\ UNCHANGED takeVars
    BY DEF RetryPut, ChannelInv, ChannelTypes, PutsPlaced
  <1>2. CASE UsePermit(t) /\ room' = Resume(room, t) /\ UNCHANGED item
    BY <1>1, <1>2, PermitKeeps DEF UsePermit
  <1>3. CASE NoPermit /\ room' = Zhdi(room, t) /\ UNCHANGED <<guard, phase, item>>
    <2>1. Goto(t, call)
      BY <1>1, <1>3 DEF Goto, ChannelInv, ChannelTypes
    <2> QED BY <1>1, <1>3, <2>1, NoPermitKeeps
  <1>4. CASE NoPermit /\ room' = Resume(room, t) /\ Goto(t, "idle") /\ guard' = NoThread
             /\ Drop(t)
    <2>1. item' \in [Threads -> Items \cup {NoItem}]
      BY <1>1, <1>4 DEF Drop
    <2> QED BY <1>1, <1>4, <2>1, NoPermitKeeps
  <1> QED BY <1>2, <1>3, <1>4 DEF RetryPut

LEMMA PutFailsKeeps ==
  ASSUME ChannelInv, NEW t \in Threads, PutFails(t)
  PROVE  ChannelInv'
  <1>1. /\ phase[t] \in {"put", "offer"} /\ guard = t /\ Bounded
        /\ WaitSetOK(room, Threads) /\ phase \in [Threads -> Phases]
        /\ item' \in [Threads -> Items \cup {NoItem}]
    BY DEF PutFails, Drop, ChannelInv, ChannelTypes, PutsPlaced
  <1>2. /\ WaitSetOK(room', Threads) /\ room'.os = room.os /\ room'.at[t] = "running"
        /\ \A s \in Threads : s # t => (room'.at[s] = "running" <=> room.at[s] = "running")
    <2> DEFINE w == Resume(room, t)
    <2>1. /\ WaitSetOK(w, Threads) /\ w.os = room.os /\ w.at[t] = "running"
          /\ \A s \in Threads : s # t => w.at[s] = room.at[s]
      BY <1>1, ResumeOK
    <2>2. room' = UvedomiVseh(w)
      BY DEF PutFails
    <2> HIDE DEF w
    <2>3. /\ WaitSetOK(UvedomiVseh(w), Threads) /\ UvedomiVseh(w).os = w.os
          /\ \A s \in Threads : \/ UvedomiVseh(w).at[s] = w.at[s]
                                \/ w.at[s] = "blocked" /\ UvedomiVseh(w).at[s] = "awake"
      BY <2>1, UvedomiVsehOK
    <2> QED BY <2>1, <2>2, <2>3
  <1>3. phase' = [phase EXCEPT ![t] = "idle"] /\ guard' = NoThread
    BY DEF PutFails, Goto
  <1>4. ChannelTypes'
    BY <1>1, <1>2, <1>3 DEF PutFails, permits, ChannelInv, ChannelTypes, Phases, takeVars
  <1>5. \A s \in Threads : s # t => phase[s] \notin {"put", "offer", "link"}
    BY <1>1 DEF ChannelInv, PutsPlaced
  <1>6. PutsPlaced' /\ TakesPlaced' /\ GuardInUse'
    BY <1>1, <1>2, <1>3, <1>5
       DEF PutFails, ChannelInv, PutsPlaced, TakesPlaced, GuardInUse, Bounded, takeVars
  <1>7. Linking = 0 /\ Linking' = 0
    BY <1>1, <1>3 DEF Linking
  <1>8. PlacesCounted' /\ FixedLength'
    BY <1>7 DEF PutFails, permits, ChannelInv, PlacesCounted, FixedLength, Bounded,
       Reconciled, Filled
  <1> QED BY <1>4, <1>6, <1>8 DEF ChannelInv

LEMMA LinkKeeps ==
  ASSUME ChannelInv, NEW t \in Threads, Link(t)
  PROVE  ChannelInv' /\ Bounded /\ Filled < emkost_
  <1>1. /\ guard = t /\ Bounded /\ phase \in [Threads -> Phases] /\ guard # NoThread
        /\ queue \in Seq(Items) /\ item[t] \in Items
        /\ item' \in [Threads -> Items \cup {NoItem}]
    BY ChannelAssumption DEF Link, Drop, ChannelInv, ChannelTypes, PutsPlaced
  <1>2. phase' = [phase EXCEPT ![t] = "announce"] /\ guard' = NoThread
    BY DEF Link, Goto
  <1>3. queue' \in Seq(Items) /\ Filled' = Filled + 1 /\ Filled \in Nat
    BY <1>1, FilledMore, FilledIs DEF Link
  <1>4. ChannelTypes'
    BY <1>1, <1>2, <1>3 DEF Link, permits, ChannelInv, ChannelTypes, Phases, takeVars
  <1>5. \A s \in Threads : s # t => phase[s] \notin {"put", "offer", "link"}
    BY <1>1 DEF ChannelInv, PutsPlaced
  <1>6. PutsPlaced' /\ TakesPlaced' /\ GuardInUse'
    BY <1>1, <1>2, <1>5
       DEF Link, ChannelInv, PutsPlaced, TakesPlaced, GuardInUse, Bounded, takeVars
  <1>7. Linking = 1 /\ Linking' = 0
    BY <1>1, <1>2 DEF Linking, Link
  <1>8. Reconciled \in Int /\ Reconciled >= 0 /\ Reconciled' = Reconciled
        /\ Reconciled = emkost_ - Filled - 1 /\ emkost_ \in Nat /\ emkost_' = emkost_
    BY <1>1, <1>7 DEF Link, permits, ChannelInv, ChannelTypes, PlacesCounted, Reconciled
  <1>9. Filled < emkost_ /\ PlacesCounted'
    BY <1>3, <1>7, <1>8 DEF PlacesCounted
  <1>10. FixedLength'
    BY <1>1 DEF Link, FixedLength, Bounded
  <1> QED BY <1>1, <1>4, <1>6, <1>9, <1>10 DEF ChannelInv

LEMMA AnnounceKeeps ==
  ASSUME ChannelInv, NEW t \in Threads, Announce(t)
  PROVE  ChannelInv'
  <1>1. phase \in [Threads -> Phases] /\ WaitSetOK(takers, Threads)
        /\ phase' = [phase EXCEPT ![t] = "idle"]
    BY DEF Announce, Goto, ChannelInv, ChannelTypes
  <1>2. /\ WaitSetOK(takers', Threads) /\ takers'.os = takers.os
        /\ \A s \in Threads : takers'.at[s] = "running" <=> takers.at[s] = "running"
    <2>1. LET x == UvedomiVseh(takers) IN
            /\ WaitSetOK(x, Threads) /\ x.os = takers.os
            /\ \A s \in Threads : \/ x.at[s] = takers.at[s]
                                  \/ takers.at[s] = "blocked" /\ x.at[s] = "awake"
      BY <1>1, UvedomiVsehOK
    <2> QED BY <2>1 DEF Announce
  <1>3. ChannelTypes'
    BY <1>1, <1>2 DEF Announce, permits, ChannelInv, ChannelTypes, Phases
  <1>4. PutsPlaced' /\ TakesPlaced' /\ GuardInUse'
    BY <1>1, <1>2 DEF Announce, ChannelInv, ChannelTypes, PutsPlaced, TakesPlaced,
       GuardInUse, Bounded
  <1>5. Linking' = Linking
    BY <1>1 DEF Linking, Announce, ChannelInv, ChannelTypes
  <1>6. PlacesCounted' /\ FixedLength'
    BY <1>5 DEF Announce, permits, ChannelInv, PlacesCounted, FixedLength, Bounded,
       Reconciled, Filled
  <1> QED BY <1>3, <1>4, <1>6 DEF ChannelInv

LEMMA SetCapacityKeeps ==
  ASSUME ChannelInv, NEW t \in Threads, NEW n \in Capacities, SetCapacity(t, n)
  PROVE  ChannelInv'
  <1>1. /\ n \in Nat \ {0} /\ WaitSetOK(room, Threads) /\ Bounded /\ guard = NoThread
        /\ emkost_ \in Nat /\ Reconciled \in Int
    BY CapacityAssumption
       DEF SetCapacity, ChannelInv, ChannelTypes, Reconciled
  <1>2. /\ WaitSetOK(room', Threads) /\ room'.os = room.os
        /\ \A s \in Threads : room'.at[s] = "running" <=> room.at[s] = "running"
    <2>1. LET x == UvedomiVseh(room) IN
            /\ WaitSetOK(x, Threads) /\ x.os = room.os
            /\ \A s \in Threads : \/ x.at[s] = room.at[s]
                                  \/ room.at[s] = "blocked" /\ x.at[s] = "awake"
      BY <1>1, UvedomiVsehOK
    <2> QED BY <2>1 DEF SetCapacity
  <1>3. /\ putSidePutPermits_' \in Int /\ takeSidePutPermits_' \in Nat
        /\ Reconciled' = Reconciled + n - emkost_
    BY <1>1 DEF SetCapacity, Reconciled
  <1>4. ChannelTypes'
    BY <1>1, <1>2, <1>3 DEF SetCapacity, ChannelInv, ChannelTypes, takeVars
  <1>5. PutsPlaced' /\ TakesPlaced' /\ GuardInUse'
    BY <1>1, <1>2 DEF SetCapacity, ChannelInv, ChannelTypes, PutsPlaced, TakesPlaced,
       GuardInUse, Bounded, takeVars
  <1>6. Linking = 0 /\ Linking' = 0
    BY <1>1 DEF Linking, SetCapacity
  <1>7. Filled \in Nat /\ Filled' = Filled /\ emkost_' = n
    BY FilledIs DEF SetCapacity, Filled, ChannelInv, ChannelTypes
  <1>8. PlacesCounted' /\ FixedLength'
    BY <1>1, <1>3, <1>6, <1>7
       DEF SetCapacity, ChannelInv, PlacesCounted, FixedLength, Bounded
  <1> QED BY <1>4, <1>5, <1>8 DEF ChannelInv

LEMMA LinkedPutKeeps ==
  ASSUME ChannelInv, NEW t \in Threads, NEW x \in Items, LinkedPut(t, x)
  PROVE  ChannelInv' /\ Filled < emkost_
  <1>1. /\ ~Bounded /\ queue \in Seq(Items) /\ WaitSetOK(takers, Threads)
        /\ takers' = takers \/ takers' \in Uvedomi(takers)
    BY DEF LinkedPut, ChannelInv, ChannelTypes
  <1>2. queue' \in Seq(Items)
    BY <1>1, FilledMore DEF LinkedPut
  <1>3. /\ WaitSetOK(takers', Threads) /\ takers'.os = takers.os
        /\ \A s \in Threads : takers'.at[s] = "running" <=> takers.at[s] = "running"
    <2>1. CASE takers' = takers
      BY <1>1, <2>1
    <2>2. CASE takers' \in Uvedomi(takers)
      <3>1. takers'.os = takers.os
        BY <1>1, <2>2 DEF Uvedomi, WaitSetOK, WaitSets
      <3> QED BY <1>1, <2>2, <3>1, UvedomiOK
    <2> QED BY <1>1, <2>1, <2>2
  <1>4. ChannelTypes'
    BY <1>2, <1>3 DEF LinkedPut, permits, ChannelInv, ChannelTypes
  <1>5. PutsPlaced' /\ TakesPlaced' /\ GuardInUse'
    BY <1>3 DEF LinkedPut, ChannelInv, ChannelTypes, PutsPlaced, TakesPlaced,
       GuardInUse, Bounded
  <1>6. PlacesCounted' /\ FixedLength'
    BY <1>1 DEF LinkedPut, ChannelInv, PlacesCounted, FixedLength, Bounded
  <1>7. Filled < emkost_
    BY <1>1 DEF LinkedPut, ChannelInv, FixedLength, Filled
  <1> QED BY <1>4, <1>5, <1>6, <1>7 DEF ChannelInv

\* What a taker does to the queue: извлеки, with or without an item.
LEMMA ExtractDoes ==
  ASSUME ChannelInv, Extract \/ ExtractNothing, UNCHANGED takeFrame
  PROVE  /\ queue' \in Seq(Items) /\ takeSidePutPermits_' \in Nat
         /\ WaitSetOK(room', Threads) /\ room'.os = room.os
         /\ \A s \in Threads : room'.at[s] = "running" <=> room.at[s] = "running"
         /\ Bounded' = Bounded
         /\ Bounded => Reconciled' + Filled' = Reconciled + Filled /\ Reconciled' \in Int
         /\ Filled \in Nat /\ Filled' \in Nat
         /\ putSidePutPermits_' = putSidePutPermits_ /\ emkost_' = emkost_
         /\ guard' = guard /\ item' = item /\ cls' = cls
  <1>1. /\ queue \in Seq(Items) /\ WaitSetOK(room, Threads) /\ Filled \in Nat
        /\ putSidePutPermits_ \in Int /\ takeSidePutPermits_ \in Nat
    BY FilledIs DEF ChannelInv, ChannelTypes
  <1>2. /\ putSidePutPermits_' = putSidePutPermits_ /\ emkost_' = emkost_
        /\ guard' = guard /\ item' = item /\ cls' = cls /\ Bounded' = Bounded
    BY DEF takeFrame, Bounded
  <1>3. CASE Extract
    <2>1. queue' \in Seq(Items) /\ Filled' = Filled - 1 /\ Filled' \in Nat
      <3>1. queue' \in Seq(Items) /\ Filled' = Filled - 1 /\ Filled # 0
        BY <1>1, <1>3, FilledLess, FilledIs DEF Extract
      <3> QED BY <1>1, <3>1
    <2>2. CASE Bounded
      <3>1. LET x == UvedomiVseh(room) IN
              /\ WaitSetOK(x, Threads) /\ x.os = room.os
              /\ \A s \in Threads : \/ x.at[s] = room.at[s]
                                    \/ room.at[s] = "blocked" /\ x.at[s] = "awake"
        BY <1>1, UvedomiVsehOK
      <3>2. room' = UvedomiVseh(room) /\ takeSidePutPermits_' = takeSidePutPermits_ + 1
        BY <1>3, <2>2 DEF Extract
      <3>3. /\ WaitSetOK(room', Threads) /\ room'.os = room.os
            /\ \A s \in Threads : room'.at[s] = "running" <=> room.at[s] = "running"
        BY <3>1, <3>2
      <3>4. Reconciled' = Reconciled + 1 /\ Reconciled \in Int /\ Reconciled' \in Int
        BY <1>1, <1>2, <3>2 DEF Reconciled
      <3> QED BY <1>1, <1>2, <2>1, <3>2, <3>3, <3>4
    <2>3. CASE ~Bounded
      BY <1>1, <1>2, <1>3, <2>1, <2>3 DEF Extract
    <2> QED BY <2>2, <2>3
  <1>4. CASE ExtractNothing
    <2>1. Filled' = Filled /\ UNCHANGED <<queue, takeSidePutPermits_, room>>
      BY <1>4 DEF ExtractNothing, Filled
    <2>2. Reconciled' = Reconciled /\ Reconciled \in Int
      BY <1>1, <1>2, <2>1 DEF Reconciled
    <2> QED BY <1>1, <1>2, <2>1, <2>2
  <1> QED BY <1>3, <1>4

\* A step of a taker, in whatever call.
LEMMA TakerMoves ==
  ASSUME ChannelInv, NEW t \in Threads, Extract \/ ExtractNothing, UNCHANGED takeFrame,
         NEW p \in {"idle", "retake", "repoll", "take", "poll"},
         phase[t] \in {"idle", "retake", "repoll", "take", "poll"},
         phase' = [phase EXCEPT ![t] = p],
         p \in {"take", "poll"} <=> takers'.at[t] # "running",
         WaitSetOK(takers', Threads), takers'.os = takers.os,
         \A s \in Threads : s # t => takers'.at[s] = takers.at[s],
         ozhidanieZabora_' \in Int
  PROVE  ChannelInv'
  <1>1. phase \in [Threads -> Phases] /\ emkost_ \in Nat
    BY DEF ChannelInv, ChannelTypes
  <1>2. ChannelTypes'
    BY <1>1, ExtractDoes DEF ChannelInv, ChannelTypes, Phases
  <1>3. PutsPlaced'
    BY <1>1, ExtractDoes DEF ChannelInv, PutsPlaced
  <1>4. TakesPlaced'
    BY <1>1 DEF ChannelInv, TakesPlaced
  <1>5. guard # t
    BY ChannelAssumption DEF ChannelInv, GuardInUse
  <1>6. GuardInUse'
    BY <1>1, <1>5, ExtractDoes DEF ChannelInv, ChannelTypes, GuardInUse
  <1>7. Linking' = Linking /\ Linking \in {0, 1}
    BY <1>1, <1>5, ExtractDoes DEF Linking, ChannelInv, ChannelTypes
  <1>8. PlacesCounted'
    <2>1. SUFFICES ASSUME Bounded' PROVE Reconciled' = emkost_' - Filled' - Linking'
                                        /\ (Linking' = 1 => putSidePutPermits_' >= 0)
      BY DEF PlacesCounted
    <2>2. Reconciled' + Filled' = Reconciled + Filled /\ Reconciled' \in Int
          /\ Filled' \in Nat /\ Filled \in Nat /\ emkost_' = emkost_
          /\ putSidePutPermits_' = putSidePutPermits_ /\ Bounded
      BY <2>1, ExtractDoes
    <2>3. Reconciled = emkost_ - Filled - Linking
          /\ (Linking = 1 => putSidePutPermits_ >= 0)
      BY <2>2 DEF ChannelInv, PlacesCounted
    <2> QED BY <1>1, <1>7, <2>2, <2>3
  <1>9. FixedLength'
    BY ExtractDoes DEF ChannelInv, FixedLength
  <1> QED BY <1>2, <1>3, <1>4, <1>6, <1>8, <1>9 DEF ChannelInv

LEMMA TryTakeKeeps ==
  ASSUME ChannelInv, NEW t \in Threads, NEW next \in {"retake", "repoll"}, TryTake(t, next)
  PROVE  ChannelInv'
  <1>1. /\ phase \in [Threads -> Phases] /\ phase[t] = "idle" /\ takers.at[t] = "running"
        /\ WaitSetOK(takers, Threads) /\ ozhidanieZabora_ \in Int
        /\ UNCHANGED takeFrame /\ takers' = takers /\ ozhidanieZabora_' = ozhidanieZabora_
    BY DEF TryTake, takeVars, ChannelInv, ChannelTypes, TakesPlaced
  <1>2. CASE Extract /\ UNCHANGED phase
    <2>1. phase' = [phase EXCEPT ![t] = "idle"]
      BY <1>1, <1>2
    <2> QED BY <1>1, <1>2, <2>1, TakerMoves
  <1>3. CASE ExtractNothing /\ Goto(t, next)
    BY <1>1, <1>3, TakerMoves DEF Goto
  <1> QED BY <1>2, <1>3 DEF TryTake

LEMMA TryAgainKeeps ==
  ASSUME ChannelInv, NEW t \in Threads, NEW call \in {"retake", "repoll"},
         NEW next \in {"take", "poll"}, TryAgain(t, call, next)
  PROVE  ChannelInv'
  <1>1. /\ phase[t] = call /\ takers.at[t] = "running"
        /\ WaitSetOK(takers, Threads) /\ ozhidanieZabora_ \in Int
        /\ UNCHANGED takeFrame
    BY DEF TryAgain, ChannelInv, ChannelTypes, TakesPlaced
  <1>2. CASE (Extract \/ ExtractNothing) /\ Goto(t, "idle") /\ UNCHANGED takeVars
    BY <1>1, <1>2, TakerMoves DEF Goto, takeVars
  <1>3. CASE /\ ExtractNothing /\ takers' = Zhdi(takers, t) /\ Goto(t, next)
             /\ ozhidanieZabora_' = ozhidanieZabora_ + (IF Bounded THEN 0 ELSE 1)
    <2>1. /\ WaitSetOK(takers', Threads) /\ takers'.os = takers.os
          /\ takers'.at[t] # "running"
          /\ \A s \in Threads : s # t => takers'.at[s] = takers.at[s]
      BY <1>1, <1>3, ZhdiOK
    <2>2. ozhidanieZabora_' \in Int
      BY <1>1, <1>3
    <2> QED BY <1>1, <1>3, <2>1, <2>2, TakerMoves DEF Goto
  <1> QED BY <1>2, <1>3 DEF TryAgain

LEMMA RetakeKeeps ==
  ASSUME ChannelInv, NEW t \in Threads, NEW call \in {"take", "poll"}, Retake(t, call)
  PROVE  ChannelInv'
  <1>1. /\ phase \in [Threads -> Phases] /\ phase[t] = call
        /\ WaitSetOK(takers, Threads) /\ ozhidanieZabora_ \in Int /\ UNCHANGED takeFrame
    BY DEF Retake, ChannelInv, ChannelTypes
  <1>2. CASE (Extract \/ ExtractNothing) /\ LeaveLoop(t)
    <2>1. /\ WaitSetOK(takers', Threads) /\ takers'.os = takers.os
          /\ takers'.at[t] = "running"
          /\ \A s \in Threads : s # t => takers'.at[s] = takers.at[s]
      BY <1>1, <1>2, ResumeOK DEF LeaveLoop
    <2>2. ozhidanieZabora_' \in Int /\ phase' = [phase EXCEPT ![t] = "idle"]
      BY <1>1, <1>2 DEF LeaveLoop, Goto
    <2> QED BY <1>1, <1>2, <2>1, <2>2, TakerMoves
  <1>3. CASE ExtractNothing /\ takers' = Zhdi(takers, t) /\ UNCHANGED <<phase, ozhidanieZabora_>>
    <2>1. /\ WaitSetOK(takers', Threads) /\ takers'.os = takers.os
          /\ takers'.at[t] # "running"
          /\ \A s \in Threads : s # t => takers'.at[s] = takers.at[s]
      <3>1. takers' = Zhdi(takers, t) /\ WaitSetOK(takers, Threads)
        BY <1>1, <1>3
      <3> QED BY <3>1, ZhdiOK
    <2>2. ozhidanieZabora_' \in Int /\ phase' = [phase EXCEPT ![t] = call]
      BY <1>1, <1>3
    <2> QED BY <1>1, <1>3, <2>1, <2>2, TakerMoves
  <1> QED BY <1>2, <1>3 DEF Retake

LEMMA TakeFailsKeeps ==
  ASSUME ChannelInv, NEW t \in Threads, TakeFails(t)
  PROVE  ChannelInv'
  <1>1. /\ WaitSetOK(takers, Threads) /\ phase \in [Threads -> Phases]
        /\ phase[t] \in {"take", "poll"} /\ phase' = [phase EXCEPT ![t] = "idle"]
    BY DEF TakeFails, Goto, ChannelInv, ChannelTypes, TakesPlaced
  <1> DEFINE w == Resume(takers, t)
  <1>2. /\ WaitSetOK(w, Threads) /\ w.os = takers.os /\ w.at[t] = "running"
        /\ \A s \in Threads : s # t => w.at[s] = takers.at[s]
    BY <1>1, ResumeOK
  <1>3. takers' = w \/ takers' \in Uvedomi(w)
    BY DEF TakeFails
  <1> HIDE DEF w
  <1>4. /\ WaitSetOK(takers', Threads) /\ takers'.os = takers.os
        /\ takers'.at[t] = "running"
        /\ \A s \in Threads : s # t =>
             (takers'.at[s] = "running" <=> takers.at[s] = "running")
    <2>1. CASE takers' = w
      BY <1>2, <2>1
    <2>2. CASE takers' \in Uvedomi(w)
      <3>1. takers'.os = w.os
        BY <1>2, <2>2 DEF Uvedomi, WaitSetOK, WaitSets
      <3> QED BY <1>2, <2>2, <3>1, UvedomiOK
    <2> QED BY <1>3, <2>1, <2>2
  <1>5. ChannelTypes'
    BY <1>1, <1>4 DEF TakeFails, takeFrame, ChannelInv, ChannelTypes, Phases
  <1>6. PutsPlaced' /\ TakesPlaced'
    BY <1>1, <1>4
       DEF TakeFails, takeFrame, ChannelInv, PutsPlaced, TakesPlaced, Bounded
  <1>7. guard # t
    BY <1>1, ChannelAssumption DEF ChannelInv, GuardInUse
  <1>8. GuardInUse' /\ Linking' = Linking
    BY <1>1, <1>7 DEF TakeFails, takeFrame, ChannelInv, ChannelTypes, GuardInUse, Bounded,
       Linking
  <1>9. PlacesCounted' /\ FixedLength'
    BY <1>8 DEF TakeFails, takeFrame, ChannelInv, PlacesCounted, FixedLength, Bounded,
       Reconciled, Filled
  <1> QED BY <1>5, <1>6, <1>8, <1>9 DEF ChannelInv

LEMMA ChannelKernelKeeps ==
  ASSUME ChannelInv, NEW t \in Threads, KernelStep(t)
  PROVE  ChannelInv'
  <1>1. /\ WaitSetOK(takers', Threads) /\ takers'.os = takers.os
        /\ \A s \in Threads : takers'.at[s] = "running" <=> takers.at[s] = "running"
    <2>1. CASE takers' \in KernelSteps(takers, t, phase[t] = "poll")
      BY <2>1, KernelStays DEF ChannelInv, ChannelTypes
    <2> QED BY <2>1 DEF KernelStep, ChannelInv, ChannelTypes
  <1>2. /\ WaitSetOK(room', Threads) /\ room'.os = room.os
        /\ \A s \in Threads : room'.at[s] = "running" <=> room.at[s] = "running"
    <2>1. CASE room' \in KernelSteps(room, t, phase[t] = "offer")
      BY <2>1, KernelStays DEF ChannelInv, ChannelTypes
    <2> QED BY <2>1 DEF KernelStep, ChannelInv, ChannelTypes
  <1>3. ChannelTypes'
    BY <1>1, <1>2 DEF KernelStep, takeFrame, ChannelInv, ChannelTypes
  <1>4. PutsPlaced' /\ TakesPlaced' /\ GuardInUse'
    BY <1>1, <1>2 DEF KernelStep, takeFrame, ChannelInv, PutsPlaced, TakesPlaced,
       GuardInUse, Bounded
  <1>5. PlacesCounted' /\ FixedLength'
    BY DEF KernelStep, takeFrame, ChannelInv, PlacesCounted, FixedLength, Bounded,
       Reconciled, Filled, Linking
  <1> QED BY <1>3, <1>4, <1>5 DEF ChannelInv

LEMMA ChannelInvariance == Spec => []ChannelInv
  <1>1. ChannelInv /\ Next => ChannelInv'
    BY BoundedPutKeeps, OfferRefusedKeeps, RetryPutKeeps, PutFailsKeeps, LinkKeeps,
       AnnounceKeeps, SetCapacityKeeps, LinkedPutKeeps, TryTakeKeeps, TryAgainKeeps,
       RetakeKeeps, TakeFailsKeeps, ChannelKernelKeeps DEF Next
  <1>2. ChannelInv /\ UNCHANGED vars => ChannelInv'
    BY DEF vars, ChannelInv, ChannelTypes, PutsPlaced, TakesPlaced, GuardInUse,
       PlacesCounted, FixedLength, Bounded, Reconciled, Filled, Linking
  <1> QED BY ChannelStarts, <1>1, <1>2, PTL DEF Spec

(* Whatever puts, takes and changes of the capacity are under way, the      *)
(* permits of the two sides and those in use are the free places, and one   *)
(* putter at most is waiting for room or linking, with стражПомещения_.     *)
THEOREM PermitsAreSplit == Spec => []PermitsSplit
  <1>1. ChannelInv => PermitsSplit
    <2> SUFFICES ASSUME ChannelInv, Bounded PROVE PermitsSplit
      BY DEF PermitsSplit
    <2>1. InPhase({"put", "offer", "link"}) = {guard} \ {NoThread}
      BY ChannelAssumption
         DEF ChannelInv, ChannelTypes, PutsPlaced, GuardInUse, InPhase
    <2>2. InPhase({"link"}) = IF Linking = 1 THEN {guard} ELSE {}
      BY ChannelAssumption
         DEF ChannelInv, ChannelTypes, PutsPlaced, GuardInUse, InPhase, Linking
    <2>3. Linking \in {0, 1} /\ Cardinality({}) = 0 /\ Cardinality({guard}) = 1
      BY FS_EmptySet, FS_Singleton DEF Linking
    <2>4. Cardinality(InPhase({"link"})) = Linking
      BY <2>2, <2>3
    <2>5. takeSidePutPermits_ >= 0 /\ Reconciled = emkost_ - Filled - Linking
      BY DEF ChannelInv, ChannelTypes, PlacesCounted
    <2> QED BY <2>1, <2>4, <2>5 DEF PermitsSplit, Reconciled, Filled
  <1> QED BY ChannelInvariance, <1>1, PTL

LEMMA StepContract ==
  ASSUME ChannelInv, [Next]_vars
  PROVE  [Contract!Next]_<<queue, emkost_>>
  <1> USE DEF Contract!Next
  <1>1. queue \in Seq(Items) /\ emkost_ \in Nat \ {0}
    BY DEF ChannelInv, ChannelTypes
  <1>2. ASSUME NEW x \in Items, queue' = Append(queue, x), Filled < emkost_, emkost_' = emkost_
        PROVE  Contract!Next
    <2>1. queue' # <<>> /\ queue'[Len(queue')] = x
      BY <1>1, <1>2, AppendProperties, EmptySeq
    <2> QED BY <1>2, <2>1 DEF Contract!Put, Filled
  <1>3. ASSUME NEW t \in Threads, NEW x \in Items, LinkedPut(t, x)
        PROVE  Contract!Next
    BY <1>2, <1>3, LinkedPutKeeps DEF LinkedPut
  <1>4. ASSUME NEW t \in Threads, Link(t)
        PROVE  Contract!Next
    <2>1. item[t] \in Items
      BY <1>4 DEF Link, ChannelInv, PutsPlaced
    <2> QED BY <1>2, <1>4, <2>1, LinkKeeps DEF Link
  <1>5. ASSUME NEW t \in Threads, NEW n \in Capacities, SetCapacity(t, n)
        PROVE  Contract!Next
    BY <1>5, CapacityAssumption DEF SetCapacity, Contract!SetCapacity
  <1>6. Extract /\ UNCHANGED takeFrame => Contract!Next
    BY DEF Extract, takeFrame, Contract!Take
  <1>7. ExtractNothing /\ UNCHANGED takeFrame => UNCHANGED <<queue, emkost_>>
    BY DEF ExtractNothing, takeFrame
  <1>8. ASSUME NEW t \in Threads,
               \/ \E next \in {"retake", "repoll"} : TryTake(t, next)
               \/ \E call \in {"retake", "repoll"}, next \in {"take", "poll"} :
                    TryAgain(t, call, next)
               \/ \E call \in {"take", "poll"} : Retake(t, call)
        PROVE  Contract!Next \/ UNCHANGED <<queue, emkost_>>
    BY <1>6, <1>7, <1>8 DEF TryTake, TryAgain, Retake
  <1>9. ASSUME NEW t \in Threads,
               \/ \E x \in Items, call \in {"put", "offer"} : BoundedPut(t, x, call)
               \/ \E call \in {"put", "offer"} : RetryPut(t, call)
               \/ OfferRefused(t) \/ PutFails(t) \/ Announce(t)
               \/ TakeFails(t) \/ KernelStep(t)
        PROVE  UNCHANGED <<queue, emkost_>>
    BY <1>9 DEF BoundedPut, RetryPut, OfferRefused, PutFails, Announce, TakeFails,
       KernelStep, takeFrame
  <1>10. CASE Next
    BY <1>3, <1>4, <1>5, <1>8, <1>9, <1>10 DEF Next
  <1> QED BY <1>10 DEF vars

(* Every step of the linked or the bounded channel is a step of the ordered *)
(* channel of channel.d, or none: the permit a putter has got on one side is*)
(* still a free place when it links its node under another monitor, and     *)
(* takes have removed and установиЁмкость changed what they like.           *)
THEOREM ChannelKept == Spec => KeepsContract
  <1>1. Init => Contract!Init
    BY ChannelAssumption, CapacityAssumption DEF Init, Contract!Init
  <1> QED BY <1>1, StepContract, ChannelInvariance, PTL
          DEF Spec, KeepsContract, Contract!Spec

\* NobodyStranded, part by part.  The count holds on either platform.
TakersServed ==
  takers.os = "linux" /\ Asleep(takers) # {} /\ Filled > 0 =>
    IF Bounded THEN InPhase({"announce"}) # {}
               ELSE Cardinality(Resuming(takers)) >= Filled

PutterServed == room.os = "linux" /\ Asleep(room) # {} => Filled >= emkost_

TakersCounted ==
  ozhidanieZabora_ >= (IF Bounded THEN 0 ELSE Cardinality(InPhase({"take", "poll"})))

LEMMA ServedMeans ==
  ASSUME ChannelInv
  PROVE  NobodyStranded <=> (takers.os = "linux" => TakersServed /\ PutterServed /\ TakersCounted)
  BY FilledIs DEF ChannelInv, ChannelTypes, NobodyStranded, TakersServed, PutterServed,
     TakersCounted, Filled

ChannelFinite == IsFiniteSet(Threads)

\* What is needed of the types.
LEMMA Basics ==
  ASSUME ChannelInv
  PROVE  /\ WaitSetOK(takers, Threads) /\ WaitSetOK(room, Threads)
         /\ phase \in [Threads -> Phases] /\ Filled \in Nat /\ emkost_ \in Nat
         /\ queue \in Seq(Items) /\ ozhidanieZabora_ \in Int
  BY FilledIs DEF ChannelInv, ChannelTypes

\* The steps of puts that leave the queue and the takers alone.
PutStep(t) ==
  \/ \E x \in Items, call \in {"put", "offer"} : BoundedPut(t, x, call)
  \/ \E call \in {"put", "offer"} : RetryPut(t, call)
  \/ \E n \in Capacities : SetCapacity(t, n)
  \/ OfferRefused(t) \/ PutFails(t)

TakeStep(t) ==
  \/ \E next \in {"retake", "repoll"} : TryTake(t, next)
  \/ \E call \in {"retake", "repoll"}, next \in {"take", "poll"} : TryAgain(t, call, next)
  \/ \E call \in {"take", "poll"} : Retake(t, call)

LEMMA NextParts ==
  Next => \E t \in Threads :
             \/ PutStep(t) \/ TakeStep(t) \/ Link(t) \/ Announce(t) \/ TakeFails(t)
             \/ KernelStep(t) \/ \E x \in Items : LinkedPut(t, x)
  BY DEF Next, PutStep, TakeStep

LEMMA PutStepDoes ==
  ASSUME ChannelInv, NEW t \in Threads, PutStep(t)
  PROVE  /\ UNCHANGED <<queue, takers, ozhidanieZabora_, cls>>
         /\ \E p \in Phases \ {"announce", "take", "poll"} : phase' = [phase EXCEPT ![t] = p]
         /\ phase[t] \notin {"announce", "take", "poll"}
  <1>1. phase \in [Threads -> Phases]
    BY DEF ChannelInv, ChannelTypes
  <1>2. ASSUME NEW x \in Items, NEW call \in {"put", "offer"}, BoundedPut(t, x, call)
        PROVE  \E p \in {"put", "offer", "link"} : phase' = [phase EXCEPT ![t] = p]
    BY <1>2 DEF BoundedPut, OwnPermit, UsePermit, Goto
  <1>3. ASSUME NEW call \in {"put", "offer"}, RetryPut(t, call)
        PROVE  \E p \in {"put", "offer", "link", "idle"} : phase' = [phase EXCEPT ![t] = p]
    BY <1>1, <1>3 DEF RetryPut, UsePermit, Goto
  <1>4. CASE OfferRefused(t) \/ \E n \in Capacities : SetCapacity(t, n)
    BY <1>1, <1>4 DEF OfferRefused, SetCapacity, takeVars, Phases
  <1>5. CASE PutFails(t)
    BY <1>1, <1>5 DEF PutFails, takeVars, Goto, Phases, ChannelInv, PutsPlaced
  <1>6. UNCHANGED <<queue, takers, ozhidanieZabora_, cls>>
    BY DEF PutStep, BoundedPut, RetryPut, OfferRefused, SetCapacity, PutFails, takeVars
  <1>7. CASE \/ \E x \in Items, call \in {"put", "offer"} : BoundedPut(t, x, call)
             \/ \E call \in {"put", "offer"} : RetryPut(t, call)
    <2>1. phase[t] \in {"idle", "put", "offer"}
      BY <1>7 DEF BoundedPut, RetryPut
    <2> QED BY <1>2, <1>3, <1>6, <1>7, <2>1 DEF Phases
  <1> QED BY <1>4, <1>5, <1>6, <1>7 DEF PutStep

LEMMA TakeStepDoes ==
  ASSUME ChannelInv, NEW t \in Threads, TakeStep(t)
  PROVE  /\ Extract \/ ExtractNothing
         /\ UNCHANGED takeFrame
         /\ phase[t] # "announce"
         /\ \E p \in Phases \ {"announce"} : phase' = [phase EXCEPT ![t] = p]
         /\ \/ takers' = takers
            \/ takers' = Zhdi(takers, t) /\ ExtractNothing
            \/ takers' = Resume(takers, t) /\ takers.at[t] = "awake"
  BY DEF TakeStep, TryTake, TryAgain, Retake, LeaveLoop, takeVars, Goto, Phases,
     ChannelInv, ChannelTypes

LEMMA ResumingFewer ==
  ASSUME ChannelFinite, NEW w, WaitSetOK(w, Threads), NEW t \in Threads
  PROVE  /\ Cardinality(Resuming(w)) \in Nat /\ Cardinality(Resuming(Resume(w, t))) \in Nat
         /\ Cardinality(Resuming(Resume(w, t))) >= Cardinality(Resuming(w)) - 1
  <1> DEFINE x == Resume(w, t)
  <1>1. WaitSetOK(x, Threads) /\ \A s \in Threads : s # t => x.at[s] = w.at[s]
    BY ResumeOK
  <1> HIDE DEF x
  <1>2. /\ Cardinality(Resuming(w)) \in Nat /\ Cardinality(Resuming(x)) \in Nat
        /\ Cardinality(Resuming(x)) + One(w.at[t] \in {"awake", "failed"})
              = Cardinality(Resuming(w)) + One(x.at[t] \in {"awake", "failed"})
    BY <1>1, ResumingMoves DEF ChannelFinite
  <1>3. Cardinality(Resuming(x)) >= Cardinality(Resuming(w)) - 1
    BY <1>2 DEF One
  <1> QED BY <1>2, <1>3 DEF x

LEMMA TakersServedStep ==
  ASSUME ChannelInv, ChannelFinite, TakersServed, TakersCounted, NEW t \in Threads,
         \/ PutStep(t) \/ TakeStep(t) \/ Link(t) \/ Announce(t) \/ TakeFails(t)
         \/ KernelStep(t) \/ \E x \in Items : LinkedPut(t, x)
  PROVE  TakersServed'
  <1>0. /\ WaitSetOK(takers, Threads) /\ phase \in [Threads -> Phases]
        /\ Filled \in Nat /\ queue \in Seq(Items) /\ ozhidanieZabora_ \in Int
    BY Basics
  <1> USE <1>0
  <1>1. CASE PutStep(t)
    <2>1. /\ UNCHANGED <<queue, takers, cls>>
          /\ InPhase({"announce"})' = InPhase({"announce"})
      BY <1>1, PutStepDoes DEF InPhase
    <2> QED BY <2>1 DEF TakersServed, Filled, Bounded
  <1>2. CASE TakeStep(t)
    <2>1. InPhase({"announce"})' = InPhase({"announce"}) /\ Bounded' = Bounded
      BY <1>2, TakeStepDoes DEF InPhase, takeFrame, Bounded
    <2>2. CASE ExtractNothing
      <3>1. Filled' = 0
        BY <2>2, EmptySeq DEF ExtractNothing, Filled
      <3> QED BY <3>1 DEF TakersServed
    <2>3. CASE Extract /\ takers' = takers
      <3>1. Filled' = Filled - 1
        BY <2>3, FilledLess DEF Extract
      <3>2. Cardinality(Resuming(takers)) \in Nat
        BY ResumingFewer
      <3> QED BY <2>1, <2>3, <3>1, <3>2 DEF TakersServed
    <2>4. CASE Extract /\ takers' = Resume(takers, t)
      <3>1. Filled' = Filled - 1
        BY <2>4, FilledLess DEF Extract
      <3>2. /\ Cardinality(Resuming(takers)) \in Nat /\ Cardinality(Resuming(takers')) \in Nat
            /\ Cardinality(Resuming(takers')) >= Cardinality(Resuming(takers)) - 1
        BY <2>4, ResumingFewer
      <3>3. Asleep(takers') \subseteq Asleep(takers) /\ takers'.os = takers.os
        BY <2>4, ResumeOK
      <3> QED BY <2>1, <3>1, <3>2, <3>3 DEF TakersServed
    <2> QED BY <1>2, <2>2, <2>3, <2>4, TakeStepDoes
  <1>3. CASE Link(t)
    <2>1. Bounded' /\ t \in InPhase({"announce"})'
      BY <1>3, LinkKeeps DEF Link, Goto, InPhase, Bounded
    <2> QED BY <2>1 DEF TakersServed
  <1>4. CASE Announce(t)
    <2>1. takers' = UvedomiVseh(takers) /\ takers'.os = takers.os
      BY <1>4 DEF Announce, UvedomiVseh, WaitSetOK, WaitSets
    <2>2. takers.os = "linux" => Asleep(takers') = {}
      BY <2>1, UvedomiVsehOK
    <2> QED BY <2>1, <2>2 DEF TakersServed
  <1>5. CASE TakeFails(t)
    <2> DEFINE w == Resume(takers, t)
    <2>1. /\ WaitSetOK(w, Threads) /\ w.os = takers.os /\ Asleep(w) \subseteq Asleep(takers)
          /\ Cardinality(Resuming(takers)) \in Nat /\ Cardinality(Resuming(w)) \in Nat
          /\ Cardinality(Resuming(w)) >= Cardinality(Resuming(takers)) - 1
      BY ResumeOK, ResumingFewer
    <2>2. /\ queue' = queue /\ cls' = cls /\ phase[t] \in {"take", "poll"}
          /\ phase' = [phase EXCEPT ![t] = "idle"]
          /\ IF Bounded THEN takers' = w ELSE takers' \in Uvedomi(w)
      BY <1>5 DEF TakeFails, takeFrame, Goto, ChannelInv, TakesPlaced
    <2> HIDE DEF w
    <2>3. InPhase({"announce"})' = InPhase({"announce"}) /\ Filled' = Filled /\ Bounded' = Bounded
      BY <2>2 DEF InPhase, Filled, Bounded
    <2>4. CASE Bounded
      BY <2>1, <2>2, <2>3, <2>4 DEF TakersServed
    <2>5. CASE ~Bounded
      <3>1. takers' \in Uvedomi(w)
        BY <2>2, <2>5
      <3>2. /\ takers'.os = w.os
            /\ w.os = "linux" => \/ Asleep(takers') = {}
                                 \/ Cardinality(Resuming(takers')) = Cardinality(Resuming(w)) + 1
        BY <2>1, <3>1, UvedomiWakes DEF ChannelFinite
      <3>3. Asleep(takers') \subseteq Asleep(w)
        BY <2>1, <3>1, UvedomiOK DEF Asleep, AtPlace, WaitSetOK, WaitSets
      <3> QED BY <2>1, <2>3, <2>5, <3>2, <3>3 DEF TakersServed
    <2> QED BY <2>4, <2>5
  <1>6. CASE KernelStep(t)
    <2>1. /\ UNCHANGED <<queue, phase, cls>>
          /\ takers' = takers \/ takers' \in KernelSteps(takers, t, phase[t] = "poll")
      BY <1>6 DEF KernelStep, takeFrame
    <2>2. CASE takers' = takers
      BY <2>1, <2>2 DEF TakersServed, InPhase, Filled, Bounded
    <2>3. CASE takers' \in KernelSteps(takers, t, phase[t] = "poll")
      <3>1. /\ Asleep(takers') \subseteq Asleep(takers) /\ takers'.os = takers.os
            /\ WaitSetOK(takers', Threads)
            /\ \A s \in Threads : s # t => takers'.at[s] = takers.at[s]
        BY <2>3, KernelStepOK
      <3>2. takers.at[t] \in {"gap", "blocked"}
        BY <2>3, KernelStepMoves
      <3>3. /\ Cardinality(Resuming(takers)) \in Nat /\ Cardinality(Resuming(takers')) \in Nat
            /\ Cardinality(Resuming(takers')) + One(takers.at[t] \in {"awake", "failed"})
              = Cardinality(Resuming(takers)) + One(takers'.at[t] \in {"awake", "failed"})
        BY <3>1, ResumingMoves DEF ChannelFinite
      <3>4. Cardinality(Resuming(takers')) >= Cardinality(Resuming(takers))
        BY <3>2, <3>3 DEF One
      <3>5. InPhase({"announce"})' = InPhase({"announce"}) /\ Filled' = Filled /\ Bounded' = Bounded
        BY <2>1 DEF InPhase, Filled, Bounded
      <3> QED BY <3>1, <3>3, <3>4, <3>5 DEF TakersServed
    <2> QED BY <2>1, <2>2, <2>3
  <1>7. ASSUME NEW x \in Items, LinkedPut(t, x)
        PROVE  TakersServed'
    <2>1. ~Bounded' /\ ~Bounded /\ Filled' = Filled + 1
      BY <1>7, FilledMore DEF LinkedPut, Bounded
    <2>2. CASE ozhidanieZabora_ > 0
      <3>1. takers' \in Uvedomi(takers)
        BY <1>7, <2>2 DEF LinkedPut
      <3>2. /\ takers'.os = takers.os
            /\ takers.os = "linux" =>
                 \/ Asleep(takers') = {}
                 \/ Cardinality(Resuming(takers')) = Cardinality(Resuming(takers)) + 1
        BY <3>1, UvedomiWakes DEF ChannelFinite
      <3>3. Asleep(takers') \subseteq Asleep(takers)
        BY <3>1, UvedomiOK DEF Asleep, AtPlace, WaitSetOK, WaitSets
      <3>4. Cardinality(Resuming(takers)) \in Nat
        BY ResumingFewer
      <3> QED BY <2>1, <3>2, <3>3, <3>4 DEF TakersServed
    <2>3. CASE ~(ozhidanieZabora_ > 0)
      <3>1. takers' = takers
        BY <1>7, <2>3 DEF LinkedPut
      <3>2. InPhase({"take", "poll"}) = {}
        <4>1. InPhase({"take", "poll"}) \subseteq Threads
          BY DEF InPhase
        <4>2. /\ Cardinality(InPhase({"take", "poll"})) \in Nat
              /\ Cardinality(InPhase({"take", "poll"})) = 0 <=> InPhase({"take", "poll"}) = {}
          BY <4>1, FS_Subset, FS_CardinalityType, FS_EmptySet DEF ChannelFinite
        <4> QED BY <2>1, <2>3, <4>2 DEF TakersCounted
      <3>3. Asleep(takers) = {}
        BY <3>2 DEF InPhase, ChannelInv, TakesPlaced, Asleep, AtPlace, WaitSetOK, WaitSets
      <3> QED BY <3>1, <3>3 DEF TakersServed
    <2> QED BY <2>2, <2>3
  <1> QED BY <1>1, <1>2, <1>3, <1>4, <1>5, <1>6, <1>7

LEMMA NoPermitMeansFull ==
  ChannelInv /\ Bounded /\ guard # NoThread /\ phase[guard] # "link" /\ Reconciled <= 0
    => Filled >= emkost_
  <1> SUFFICES ASSUME ChannelInv, Bounded, guard # NoThread, phase[guard] # "link",
                      Reconciled <= 0
               PROVE  Filled >= emkost_
    OBVIOUS
  <1>1. Reconciled = emkost_ - Filled - Linking /\ Linking = 0
    BY DEF ChannelInv, PlacesCounted, Linking
  <1>2. Filled \in Nat /\ emkost_ \in Nat
    BY Basics
  <1> QED BY <1>1, <1>2

\* A putter sleeps with the guard, so nobody does when it is free, or when its
\* holder has a permit; and the last look at the permits found none.
LEMMA PutterServedStep ==
  ASSUME ChannelInv, ChannelInv', PutterServed, NEW t \in Threads,
         \/ PutStep(t) \/ TakeStep(t) \/ Link(t) \/ Announce(t) \/ TakeFails(t)
         \/ KernelStep(t) \/ \E x \in Items : LinkedPut(t, x)
  PROVE  PutterServed'
  <1>1. /\ WaitSetOK(room, Threads) /\ Filled \in Nat /\ queue \in Seq(Items)
        /\ emkost_ \in Nat
    BY Basics
  <1>2. ASSUME ~Bounded' \/ guard' = NoThread \/ phase'[guard'] = "link"
        PROVE  PutterServed'
    <2>1. \A s \in Threads : room'.at[s] = "running"
      BY <1>2, ChannelAssumption DEF ChannelInv, PutsPlaced
    <2>2. Asleep(room') = {}
      BY <2>1 DEF ChannelInv, ChannelTypes, Asleep, AtPlace, WaitSetOK, WaitSets
    <2> QED BY <2>2 DEF PutterServed
  <1>3. ASSUME NoPermit
        PROVE  PutterServed'
    <2>1. CASE Bounded' /\ guard' # NoThread /\ phase'[guard'] # "link"
      <3>1. Reconciled' <= 0
        BY <1>3 DEF NoPermit, Reconciled, ChannelInv, ChannelTypes
      <3>2. (ChannelInv /\ Bounded /\ guard # NoThread /\ phase[guard] # "link" /\ Reconciled <= 0
               => Filled >= emkost_)'
        BY NoPermitMeansFull, PTL
      <3> QED BY <2>1, <3>1, <3>2 DEF PutterServed
    <2> QED BY <1>2, <2>1
  <1>4. ASSUME Filled' >= Filled, emkost_' = emkost_, room'.os = room.os,
               Asleep(room') \subseteq Asleep(room), Filled' \in Nat
        PROVE  PutterServed'
    BY <1>1, <1>4 DEF PutterServed
  <1>5. CASE PutStep(t)
    <2>1. CASE \E x \in Items, call \in {"put", "offer"} : BoundedPut(t, x, call)
      <3>1. NoPermit \/ (Goto(t, "link") /\ guard' = t)
        BY <2>1 DEF BoundedPut, OwnPermit, UsePermit
      <3> QED BY <1>2, <1>3, <3>1 DEF Goto, ChannelInv, ChannelTypes
    <2>2. CASE \E call \in {"put", "offer"} : RetryPut(t, call)
      <3>1. NoPermit \/ (Goto(t, "link") /\ guard' = t)
        BY <2>2 DEF RetryPut, UsePermit
      <3> QED BY <1>2, <1>3, <3>1 DEF Goto, ChannelInv, ChannelTypes
    <2>3. CASE PutFails(t) \/ OfferRefused(t) \/ \E n \in Capacities : SetCapacity(t, n)
      BY <1>2, <2>3 DEF PutFails, OfferRefused, SetCapacity
    <2> QED BY <1>5, <2>1, <2>2, <2>3 DEF PutStep
  <1>6. CASE TakeStep(t)
    <2>1. UNCHANGED takeFrame /\ (Extract \/ ExtractNothing)
      BY <1>6, TakeStepDoes
    <2>2. CASE ExtractNothing
      BY <1>1, <1>4, <2>1, <2>2 DEF ExtractNothing, takeFrame, Filled
    <2>3. CASE Extract /\ Bounded
      <3>1. room' = UvedomiVseh(room)
        BY <2>3 DEF Extract
      <3>2. room'.os = room.os /\ (room.os = "linux" => Asleep(room') = {})
        BY <1>1, <3>1, UvedomiVsehOK
      <3> QED BY <3>2 DEF PutterServed
    <2>4. CASE ~Bounded
      BY <1>2, <2>1, <2>4 DEF takeFrame, Bounded
    <2> QED BY <2>1, <2>2, <2>3, <2>4
  <1>7. CASE Link(t)
    BY <1>2, <1>7 DEF Link
  <1>8. CASE Announce(t) \/ TakeFails(t)
    BY <1>1, <1>4, <1>8 DEF Announce, TakeFails, takeFrame, Filled
  <1>9. CASE KernelStep(t)
    <2>1. room' = room \/ room' \in KernelSteps(room, t, phase[t] = "offer")
      BY <1>9 DEF KernelStep
    <2>2. room'.os = room.os /\ Asleep(room') \subseteq Asleep(room)
      <3>1. CASE room' \in KernelSteps(room, t, phase[t] = "offer")
        BY <1>1, <3>1, KernelStepOK
      <3> QED BY <2>1, <3>1
    <2> QED BY <1>1, <1>4, <1>9, <2>2 DEF KernelStep, takeFrame, Filled
  <1>10. CASE \E x \in Items : LinkedPut(t, x)
    BY <1>2, <1>10 DEF LinkedPut, Bounded
  <1> QED BY <1>5, <1>6, <1>7, <1>8, <1>9, <1>10

\* One thread moves; the counter of the linked class moves with it.
LEMMA TakersCountedMove ==
  ASSUME ChannelInv, ChannelFinite, TakersCounted, NEW t \in Threads, cls' = cls,
         NEW p \in Phases, phase' = [phase EXCEPT ![t] = p],
         ozhidanieZabora_' \in Int,
         ozhidanieZabora_' >= ozhidanieZabora_
           + (IF Bounded THEN 0
              ELSE One(p \in {"take", "poll"}) - One(phase[t] \in {"take", "poll"}))
  PROVE  TakersCounted'
  <1>1. phase \in [Threads -> Phases] /\ ozhidanieZabora_ \in Int /\ Bounded' = Bounded
    BY Basics DEF Bounded
  <1> DEFINE A == InPhase({"take", "poll"})
             B == InPhase({"take", "poll"})'
  <1>2. /\ A \subseteq Threads /\ B \subseteq Threads
        /\ t \in A <=> phase[t] \in {"take", "poll"}
        /\ t \in B <=> p \in {"take", "poll"}
        /\ \A s \in Threads : s # t => (s \in A <=> s \in B)
    BY <1>1 DEF InPhase
  <1>3. TakersCounted <=> ozhidanieZabora_ >= (IF Bounded THEN 0 ELSE Cardinality(A))
    BY DEF TakersCounted
  <1>4. TakersCounted' <=> ozhidanieZabora_' >= (IF Bounded THEN 0 ELSE Cardinality(B))
    BY <1>1 DEF TakersCounted
  <1> HIDE DEF A, B
  <1>5. /\ Cardinality(A) \in Nat /\ Cardinality(B) \in Nat
        /\ Cardinality(B) + One(t \in A) = Cardinality(A) + One(t \in B)
    BY <1>2, CountMoves DEF ChannelFinite
  <1>6. Cardinality(B) = Cardinality(A) + One(p \in {"take", "poll"})
                           - One(phase[t] \in {"take", "poll"})
    BY <1>2, <1>5 DEF One
  <1> QED BY <1>1, <1>3, <1>4, <1>5, <1>6 DEF One

LEMMA TakersCountedStep ==
  ASSUME ChannelInv, ChannelFinite, TakersCounted, NEW t \in Threads,
         \/ PutStep(t) \/ TakeStep(t) \/ Link(t) \/ Announce(t) \/ TakeFails(t)
         \/ KernelStep(t) \/ \E x \in Items : LinkedPut(t, x)
  PROVE  TakersCounted'
  <1>1. ozhidanieZabora_ \in Int /\ phase \in [Threads -> Phases]
    BY Basics
  <1>2. ASSUME UNCHANGED <<ozhidanieZabora_, cls>>,
               NEW p \in Phases, phase' = [phase EXCEPT ![t] = p],
               p \in {"take", "poll"} => phase[t] \in {"take", "poll"}
        PROVE  TakersCounted'
    <2> DEFINE change == IF Bounded THEN 0
                         ELSE One(p \in {"take", "poll"}) - One(phase[t] \in {"take", "poll"})
    <2>1. change \in Int /\ change <= 0
      BY <1>2 DEF One
    <2>2. ozhidanieZabora_' \in Int /\ ozhidanieZabora_' >= ozhidanieZabora_ + change
      <3> HIDE DEF change
      <3> QED BY <1>1, <1>2, <2>1
    <2> QED BY <1>2, <2>2, TakersCountedMove
  <1>3. ASSUME UNCHANGED <<ozhidanieZabora_, cls, phase>>
        PROVE  TakersCounted'
    BY <1>3 DEF TakersCounted, InPhase, Bounded
  <1>4. CASE PutStep(t)
    BY <1>2, <1>4, PutStepDoes
  <1>5. CASE Link(t) \/ Announce(t) \/ TakeFails(t)
    <2>1. /\ UNCHANGED <<ozhidanieZabora_, cls>>
          /\ \E p \in {"announce", "idle"} : phase' = [phase EXCEPT ![t] = p]
      BY <1>5 DEF Link, Announce, TakeFails, takeVars, takeFrame, Goto
    <2> QED BY <1>2, <2>1 DEF Phases
  <1>6. CASE KernelStep(t) \/ \E x \in Items : LinkedPut(t, x)
    BY <1>3, <1>6 DEF KernelStep, takeFrame, LinkedPut
  <1>7. ASSUME NEW next \in {"retake", "repoll"}, TryTake(t, next)
        PROVE  TakersCounted'
    <2>1. UNCHANGED <<ozhidanieZabora_, cls>>
      BY <1>7 DEF TryTake, takeVars, takeFrame
    <2>2. UNCHANGED phase \/ phase' = [phase EXCEPT ![t] = next]
      BY <1>7 DEF TryTake, Goto
    <2> QED BY <1>2, <1>3, <2>1, <2>2 DEF Phases
  <1>8. ASSUME NEW call \in {"retake", "repoll"}, NEW next \in {"take", "poll"},
               TryAgain(t, call, next)
        PROVE  TakersCounted'
    <2>1. cls' = cls /\ phase[t] = call
      BY <1>8 DEF TryAgain, takeFrame
    <2>2. \/ ozhidanieZabora_' = ozhidanieZabora_ /\ phase' = [phase EXCEPT ![t] = "idle"]
          \/ /\ ozhidanieZabora_' = ozhidanieZabora_ + (IF Bounded THEN 0 ELSE 1)
             /\ phase' = [phase EXCEPT ![t] = next]
      BY <1>8 DEF TryAgain, Goto, takeVars
    <2> QED BY <1>1, <1>2, <2>1, <2>2, TakersCountedMove DEF One, Phases
  <1>9. ASSUME NEW call \in {"take", "poll"}, Retake(t, call)
        PROVE  TakersCounted'
    <2>1. cls' = cls /\ phase[t] = call
      BY <1>9 DEF Retake, takeFrame
    <2>2. \/ UNCHANGED <<ozhidanieZabora_, phase>>
          \/ /\ ozhidanieZabora_' = ozhidanieZabora_ - (IF Bounded THEN 0 ELSE 1)
             /\ phase' = [phase EXCEPT ![t] = "idle"]
      BY <1>9 DEF Retake, LeaveLoop, Goto
    <2> QED BY <1>1, <1>3, <2>1, <2>2, TakersCountedMove DEF One, Phases
  <1> QED BY <1>4, <1>5, <1>6, <1>7, <1>8, <1>9 DEF TakeStep

(* On linux, with any number of threads, nobody is forgotten: takers of the *)
(* bounded class that sleep beside an item have a put about to notify them  *)
(* all, and as many of the linked class are awake as there are items; the   *)
(* putter that waits sleeps only while the queue is full; and ожиданиеЗабора_*)
(* is never less than the number of waiting takers, so that a put never     *)
(* leaves its уведоми out.                                                  *)
THEOREM NoneStranded ==
  ASSUME ChannelFinite
  PROVE  Spec => []NobodyStranded
  <1> DEFINE Served == TakersServed /\ PutterServed /\ TakersCounted
  <1>1. Init => Served
    <2> SUFFICES ASSUME Init PROVE Served
      OBVIOUS
    <2>1. PICK os \in Systems : room = NewWaitSet(os, Threads)
      BY DEF Init
    <2>2. Asleep(room) = {} /\ takers = room
      BY <2>1 DEF Init, NewWaitSet, Asleep, AtPlace
    <2>3. InPhase({"take", "poll"}) = {} /\ ozhidanieZabora_ = 0
      BY DEF Init, InPhase
    <2> QED BY <2>2, <2>3, FS_EmptySet DEF TakersServed, PutterServed, TakersCounted
  <1>2. ChannelInv /\ ChannelInv' /\ Served /\ [Next]_vars => Served'
    <2> SUFFICES ASSUME ChannelInv, ChannelInv', Served, [Next]_vars PROVE Served'
      OBVIOUS
    <2>1. CASE Next
      BY <2>1, NextParts, TakersServedStep, PutterServedStep, TakersCountedStep
    <2>2. CASE UNCHANGED vars
      BY <2>2 DEF vars, TakersServed, PutterServed, TakersCounted, Filled, Bounded, InPhase
    <2> QED BY <2>1, <2>2
  <1>3. ChannelInv /\ Served => NobodyStranded
    BY ServedMeans
  <1> QED BY <1>1, <1>2, <1>3, ChannelInvariance, PTL DEF Spec

------------------------------------------------------------------------------
(* The queued executor. *)

LateOnce ==
  /\ late \in {0, 1}
  /\ ~preryvanie_ => late = 0
  /\ late = 1 => \A w \in Workers : place[w] # "take"

ExecutorInv == TypeOK /\ OneWorker /\ LateOnce

FlagsOK == preryvanie_ \in BOOLEAN /\ crashed \in BOOLEAN

PlacesOK ==
  /\ nit_ \in Workers \cup {NoThread}
  /\ monitor \in Callers \cup {NoThread}
  /\ phase \in [Callers -> {"idle", "submit", "drain", "end"}]
  /\ place \in [Workers -> {"none", "test", "take", "run", "clear"}]

NumbersOK ==
  /\ queue \in Seq({"task", "end"}) /\ capacity \in Capacities
  /\ calls \in 0..MaxCalls

LEMMA TypeParts == TypeOK <=> FlagsOK /\ PlacesOK /\ NumbersOK /\ late \in Nat
  BY DEF TypeOK, FlagsOK, PlacesOK, NumbersOK

\* What a step of a caller in a call does to the channel, and to nothing else
\* that matters to the workers.
CallerStep(c) ==
  Restart(c) \/ Execute(c) \/ ShutdownAfterQueue(c) \/ ShutdownNow(c)
    \/ Submit(c) \/ Drain(c) \/ PutEnd(c)

LoopStep(w) == Test(w) \/ TakeTask(w) \/ Finish(w) \/ Crash(w) \/ Clear(w)

LEMMA ExecutorStarts == ExecutorInit => ExecutorInv
  <1> SUFFICES ASSUME ExecutorInit PROVE ExecutorInv
    OBVIOUS
  <1>1. FlagsOK /\ PlacesOK
    BY DEF ExecutorInit, FlagsOK, PlacesOK
  <1>2. NumbersOK /\ late \in Nat
    BY ExecutorAssumption DEF ExecutorInit, NumbersOK, Channel!Init
  <1>3. OneWorker
    BY DEF ExecutorInit, OneWorker
  <1>4. LateOnce
    BY DEF ExecutorInit, LateOnce
  <1> QED BY <1>1, <1>2, <1>3, <1>4, TypeParts DEF ExecutorInv

\* The channel stays a sequence of items whatever is done to it.
LEMMA ChannelStep ==
  ASSUME NumbersOK,
         \/ Channel!Put("task") \/ Channel!Put("end") \/ Channel!Take
         \/ UNCHANGED channel
  PROVE  queue' \in Seq({"task", "end"}) /\ capacity' = capacity
  <1>1. queue \in Seq({"task", "end"})
    BY DEF NumbersOK
  <1>2. CASE Channel!Put("task") \/ Channel!Put("end")
    BY <1>1, <1>2 DEF Channel!Put
  <1>3. CASE Channel!Take
    BY <1>1, <1>3, HeadTailProperties DEF Channel!Take
  <1>4. CASE UNCHANGED channel
    BY <1>1, <1>4 DEF channel
  <1> QED BY <1>2, <1>3, <1>4

LEMMA CallerKeeps ==
  ASSUME ExecutorInv, NEW c \in Callers, CallerStep(c)
  PROVE  ExecutorInv'
  <1> USE DEF Goto, Move, workerVars, Enters
  <1>1. FlagsOK' /\ PlacesOK'
    BY TypeParts DEF ExecutorInv, FlagsOK, PlacesOK, CallerStep, Restart, Execute,
       ShutdownAfterQueue, ShutdownNow, Submit, Drain, PutEnd, StartWorker
  <1>2. NumbersOK'
    <2>1. NumbersOK
      BY TypeParts DEF ExecutorInv
    <2>2. queue' \in Seq({"task", "end"}) /\ capacity' = capacity
      BY <2>1, ChannelStep DEF CallerStep, Restart, Execute,
         ShutdownAfterQueue, ShutdownNow, Submit, Drain, PutEnd
    <2>3. calls' = calls \/ Counted
      BY DEF CallerStep, Restart, Execute, ShutdownAfterQueue, ShutdownNow,
         Submit, Drain, PutEnd
    <2>4. calls' \in 0..MaxCalls
      BY <2>1, <2>3, ExecutorAssumption DEF NumbersOK, Counted
    <2> QED BY <2>1, <2>2, <2>4 DEF NumbersOK
  <1>3. late' = late /\ (preryvanie_ => preryvanie_')
    BY DEF CallerStep, Restart, Execute, ShutdownAfterQueue, ShutdownNow,
       Submit, Drain, PutEnd
  <1>4. CASE UNCHANGED <<nit_, place>>
    BY <1>1, <1>2, <1>3, <1>4, TypeParts
       DEF ExecutorInv, OneWorker, LateOnce, TypeOK, FlagsOK, PlacesOK, NumbersOK
  <1>5. CASE StartWorker
    <2>1. CASE nit_ = NoThread /\ ~preryvanie_
      <3>1. PICK w \in Workers : nit_' = w /\ place' = [place EXCEPT ![w] = "test"]
        BY <1>5, <2>1 DEF StartWorker
      <3>2. \A u \in Workers : place[u] = "none"
        BY <2>1, ExecutorAssumption DEF ExecutorInv, OneWorker
      <3>3. OneWorker'
        BY <3>1, <3>2, TypeParts DEF ExecutorInv, OneWorker, PlacesOK
      <3>4. late = 0
        BY <2>1 DEF ExecutorInv, LateOnce
      <3>5. LateOnce'
        BY <1>3, <3>4 DEF LateOnce
      <3> QED BY <1>1, <1>2, <1>3, <3>3, <3>4, <3>5
              DEF ExecutorInv, TypeOK, FlagsOK, PlacesOK, NumbersOK
    <2>2. CASE nit_ # NoThread \/ preryvanie_
      BY <1>4, <1>5, <2>2 DEF StartWorker
    <2> QED BY <2>1, <2>2
  <1> QED
    BY <1>4, <1>5 DEF CallerStep, Restart, Execute, ShutdownAfterQueue,
       ShutdownNow, Submit, Drain, PutEnd

LEMMA WorkerKeeps ==
  ASSUME ExecutorInv, NEW w \in Workers, LoopStep(w)
  PROVE  ExecutorInv'
  <1> USE DEF Move, workerFrame
  <1>1. FlagsOK' /\ PlacesOK'
    BY TypeParts DEF ExecutorInv, FlagsOK, PlacesOK, LoopStep, Test, TakeTask, Finish,
       Crash, Clear
  <1>2. NumbersOK'
    <2>1. NumbersOK
      BY TypeParts DEF ExecutorInv
    <2>2. queue' \in Seq({"task", "end"}) /\ capacity' = capacity /\ calls' = calls
      BY <2>1, ChannelStep DEF LoopStep, Test, TakeTask, Finish, Crash, Clear
    <2> QED BY <2>1, <2>2 DEF NumbersOK
  <1>3. place[w] # "none" /\ nit_ = w /\ \A u \in Workers \ {w} : place[u] = "none"
    BY DEF ExecutorInv, OneWorker, LoopStep, Test, TakeTask, Finish, Crash, Clear
  <1>4. /\ \A u \in Workers \ {w} : place'[u] = "none"
        /\ nit_' = w \/ place'[w] = "none"
    BY <1>3, TypeParts
       DEF ExecutorInv, PlacesOK, LoopStep, Test, TakeTask, Finish, Crash, Clear
  <1>5. OneWorker'
    BY <1>4 DEF OneWorker
  <1>6. LateOnce' /\ late' \in Nat
    <2>1. CASE Test(w)
      <3>1. late = 1 => preryvanie_
        BY DEF ExecutorInv, LateOnce
      <3>2. late' = late /\ preryvanie_' = preryvanie_
        BY <2>1 DEF Test
      <3>3. preryvanie_ => place'[w] = "clear"
        BY <2>1, TypeParts DEF Test, ExecutorInv, PlacesOK
      <3> QED BY <1>4, <3>1, <3>2, <3>3 DEF ExecutorInv, LateOnce
    <2>2. CASE TakeTask(w)
      <3>1. late = 0 /\ place'[w] # "take" /\ preryvanie_' = preryvanie_
        BY <2>2, TypeParts DEF ExecutorInv, LateOnce, TakeTask, PlacesOK
      <3>2. late' = late \/ late' = late + (IF preryvanie_ THEN 1 ELSE 0)
        BY <2>2 DEF TakeTask
      <3>3. CASE preryvanie_
        BY <1>4, <3>1, <3>2, <3>3 DEF LateOnce
      <3>4. CASE ~preryvanie_
        BY <3>1, <3>2, <3>4 DEF LateOnce
      <3> QED BY <3>3, <3>4
    <2>3. CASE Finish(w) \/ Crash(w) \/ Clear(w)
      <3>1. late' = late /\ preryvanie_' = preryvanie_ /\ place'[w] # "take"
        BY <2>3, TypeParts DEF ExecutorInv, PlacesOK, Finish, Crash, Clear
      <3> QED BY <1>4, <3>1 DEF ExecutorInv, LateOnce
    <2> QED BY <2>1, <2>2, <2>3 DEF LoopStep
  <1> QED BY <1>1, <1>2, <1>5, <1>6 DEF ExecutorInv, TypeOK, FlagsOK, PlacesOK, NumbersOK

LEMMA ExecutorInvariance == ExecutorSpec => []ExecutorInv
  <1>1. ExecutorInv /\ ExecutorNext => ExecutorInv'
    BY CallerKeeps, WorkerKeeps DEF ExecutorNext, CallerStep, LoopStep
  <1>2. ExecutorInv /\ UNCHANGED executorVars => ExecutorInv'
    BY DEF ExecutorInv, executorVars, TypeOK, OneWorker, LateOnce
  <1> QED BY ExecutorStarts, <1>1, <1>2, PTL DEF ExecutorSpec

(* The executor's fields, the callers' phases and the workers' places have  *)
(* their types, and the channel holds tasks and the empty one only.         *)
THEOREM ExecutorTypes == ExecutorSpec => []TypeOK
  <1>1. ExecutorInv => TypeOK
    BY DEF ExecutorInv
  <1> QED BY ExecutorInvariance, <1>1, PTL

(* However рестарт, выполни and the shutdowns overlap with a worker that is *)
(* on its way out through сотриНить, there is never a second worker.        *)
THEOREM NeverTwoWorkers == ExecutorSpec => []OneWorker
  <1>1. ExecutorInv => OneWorker
    BY DEF ExecutorInv
  <1> QED BY ExecutorInvariance, <1>1, PTL

(* After the shutdown that does not wait for the queue at most one task is  *)
(* begun, for any number of callers and tasks.                              *)
THEOREM OneLateTask == ExecutorSpec => []AtMostOneMore
  <1>1. ExecutorInv => AtMostOneMore
    BY DEF ExecutorInv, LateOnce, AtMostOneMore
  <1> QED BY ExecutorInvariance, <1>1, PTL
==============================================================================
