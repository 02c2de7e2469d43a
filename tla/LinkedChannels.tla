---------------------------- MODULE LinkedChannels ----------------------------
(***************************************************************************)
(* linkedqueue.d and boundedlinkedqueue.d: the channels on linked nodes,   *)
(* which let one put and one take go on at the same time.                  *)
(*                                                                         *)
(* Linking a node and unlinking one hold the monitor of the last and of the*)
(* first node, which is one node in an empty queue, so each is one step on *)
(* the sequence of items.  The monitors around them are                    *)
(*                                                                         *)
(*   поместитьЗамок_  linked: a whole put, and a take from its second try  *)
(*                    on; the takers wait here, one уведоми for a put      *)
(*   стражПомещения_  bounded: a put up to the link; the putter keeps it   *)
(*                    while it waits for room, so others queue up behind   *)
(*   this             bounded: the permits; the one waiting putter is here *)
(*   стражВзятия_     bounded: a take from its second try on; the takers   *)
(*                    wait here, and a put notifies them after it has left *)
(*                    стражПомещения_                                      *)
(*                                                                         *)
(* A put of the linked class is one action: until it leaves поместитьЗамок_*)
(* others can only unlink items, which its уведоми does not depend on.     *)
(***************************************************************************)
EXTENDS Queues, FiniteSets, WaitNotify

\* Of Queues, Capacities are the arguments of the constructor and of
\* установиЁмкость, and `queue` has the values after голова_.
CONSTANTS Threads,    (* the threads that use the channel                  *)
          Items,      (* what they put                                     *)
          Systems,    (* platforms                                         *)
          Classes,    (* subset of {"linked", "bounded"}                   *)
          MaxLength,  (* bound: items in a linked queue                    *)
          MaxDrift    (* bound: ожиданиеЗабора_ when a wait of a take fails*)

NoItem == "nothing"

ASSUME ChannelAssumption ==
  /\ Systems \subseteq Platforms
  /\ Classes \subseteq {"linked", "bounded"}
  /\ MaxLength \in Nat \ {0} /\ MaxDrift \in Nat
  /\ NoThread \notin Threads /\ NoItem \notin Items

VARIABLES
  emkost_,             (* ёмкость_; the linked class has none: MaxLength   *)
  putSidePutPermits_,  (* bounded: permits that puts may use, perhaps < 0  *)
  takeSidePutPermits_, (* ... and those that takes have given back         *)
  ozhidanieZabora_,    (* linked: ожиданиеЗабора_, the waiting takers      *)
  guard,               (* bounded: who holds стражПомещения_               *)
  room,                (* bounded: the wait set of `this`                  *)
  takers,              (* the wait set of поместитьЗамок_ or стражВзятия_  *)
  item,                (* what a thread that puts has yet to link          *)
  cls                  (* the class; never changes                         *)

vars == <<queue, emkost_, putSidePutPermits_, takeSidePutPermits_,
          ozhidanieZabora_, guard, room, takers, phase, item, cls>>

\* "put" and "offer" wait for room, "link" holds a permit, "announce" has
\* linked and not notified; "retake" and "repoll" have found nothing once,
\* "take" and "poll" wait for an item.
Phases == {"idle", "put", "offer", "link", "announce",
           "retake", "repoll", "take", "poll"}

Bounded == cls = "bounded"

permits == <<putSidePutPermits_, takeSidePutPermits_>>
takeVars == <<ozhidanieZabora_, takers>>

\* The call is over, as far as its item is concerned.
Drop(t) == item' = [item EXCEPT ![t] = NoItem]

------------------------------------------------------------------------------
\* вставь of the linked class.
LinkedPut(t, x) ==
  /\ ~Bounded /\ phase[t] = "idle" /\ Len(queue) < MaxLength
  /\ queue' = Append(queue, x)
  /\ \E w \in IF ozhidanieZabora_ > 0 THEN Uvedomi(takers) ELSE {takers} :
       takers' = w
  /\ UNCHANGED <<emkost_, ozhidanieZabora_, guard, room, phase, item, cls>>
  /\ UNCHANGED permits

\* reconcilePutPermits, and one permit for the caller if there is any.
Reconciled == putSidePutPermits_ + takeSidePutPermits_

UsePermit(t) ==
  /\ Reconciled > 0
  /\ putSidePutPermits_' = Reconciled - 1
  /\ takeSidePutPermits_' = 0
  /\ Goto(t, "link")
  /\ guard' = t

NoPermit ==
  /\ Reconciled <= 0
  /\ putSidePutPermits_' = Reconciled
  /\ takeSidePutPermits_' = 0

\* The put side's own permits are used without a look at the other side.
OwnPermit(t) ==
  /\ putSidePutPermits_ > 0
  /\ putSidePutPermits_' = putSidePutPermits_ - 1
  /\ Goto(t, "link")
  /\ guard' = t
  /\ UNCHANGED takeSidePutPermits_

\* помести and предложи of the bounded class, up to a permit or a wait.
BoundedPut(t, x, call) ==
  /\ Bounded /\ phase[t] = "idle" /\ guard = NoThread
  /\ item' = [item EXCEPT ![t] = x]
  /\ \/ /\ OwnPermit(t)
        /\ UNCHANGED room
     \/ /\ putSidePutPermits_ <= 0
        /\ UsePermit(t)
        /\ UNCHANGED room
     \/ /\ putSidePutPermits_ <= 0
        /\ NoPermit
        /\ room' = Zhdi(room, t)
        /\ Goto(t, call)
        /\ guard' = t
  /\ UNCHANGED <<queue, emkost_, cls>> /\ UNCHANGED takeVars

\* предложи(x, 0) of a full queue: permits are moved, nothing else.
OfferRefused(t) ==
  /\ Bounded /\ phase[t] = "idle" /\ guard = NoThread
  /\ putSidePutPermits_ <= 0 /\ NoPermit
  /\ UNCHANGED <<queue, emkost_, guard, room, phase, item, cls>>
  /\ UNCHANGED takeVars

\* A woken putter that does not look for a permit.
RetryPut_If(t, call) ==
  /\ phase[t] = call /\ room.at[t] = "awake"
  /\ room' = Resume(room, t)
  /\ putSidePutPermits_' = Reconciled - 1
  /\ takeSidePutPermits_' = 0
  /\ Goto(t, "link")
  /\ UNCHANGED <<queue, emkost_, guard, item, cls>> /\ UNCHANGED takeVars

\* The putter has `this` again.
RetryPut(t, call) ==
  /\ phase[t] = call /\ room.at[t] = "awake"
  /\ \/ /\ UsePermit(t)
        /\ room' = Resume(room, t)
        /\ UNCHANGED item
     \/ /\ NoPermit
        /\ room' = Zhdi(room, t)
        /\ UNCHANGED <<guard, phase, item>>
     \/ /\ call = "offer"
        /\ NoPermit
        /\ room' = Resume(room, t)
        /\ Goto(t, "idle")
        /\ guard' = NoThread
        /\ Drop(t)
  /\ UNCHANGED <<queue, emkost_, cls>> /\ UNCHANGED takeVars

\* The wait for room fails.
PutFails(t) ==
  /\ room.at[t] = "failed"
  /\ room' = UvedomiVseh(Resume(room, t))
  /\ Goto(t, "idle")
  /\ guard' = NoThread
  /\ Drop(t)
  /\ UNCHANGED <<queue, emkost_, cls>> /\ UNCHANGED takeVars
  /\ UNCHANGED permits

\* The node is linked, and стражПомещения_ is left.
Link(t) ==
  /\ phase[t] = "link"
  /\ queue' = Append(queue, item[t])
  /\ guard' = NoThread
  /\ Goto(t, "announce")
  /\ Drop(t)
  /\ UNCHANGED <<emkost_, room, cls>> /\ UNCHANGED takeVars
  /\ UNCHANGED permits

\* разрешиВзять that notifies only for the first item.
Announce_FirstOnly(t) ==
  /\ phase[t] = "announce"
  /\ takers' = IF Len(queue) = 1 THEN UvedomiVseh(takers) ELSE takers
  /\ Goto(t, "idle")
  /\ UNCHANGED <<queue, emkost_, ozhidanieZabora_, guard, room, item, cls>>
  /\ UNCHANGED permits

\* разрешиВзять.
Announce(t) ==
  /\ phase[t] = "announce"
  /\ takers' = UvedomiVseh(takers)
  /\ Goto(t, "idle")
  /\ UNCHANGED <<queue, emkost_, ozhidanieZabora_, guard, room, item, cls>>
  /\ UNCHANGED permits

\* A reset that drops the permits takes have given back.
SetCapacity_PutSide(t, n) ==
  /\ Bounded /\ phase[t] = "idle" /\ guard = NoThread
  /\ emkost_' = n
  /\ putSidePutPermits_' = putSidePutPermits_ + n - emkost_
  /\ takeSidePutPermits_' = 0
  /\ room' = UvedomiVseh(room)
  /\ UNCHANGED <<queue, guard, phase, item, cls>> /\ UNCHANGED takeVars

\* установиЁмкость has to wait for a putter that waits.
SetCapacity(t, n) ==
  /\ Bounded /\ phase[t] = "idle" /\ guard = NoThread
  /\ emkost_' = n
  /\ putSidePutPermits_' = Reconciled + n - emkost_
  /\ takeSidePutPermits_' = 0
  /\ room' = UvedomiVseh(room)
  /\ UNCHANGED <<queue, guard, phase, item, cls>> /\ UNCHANGED takeVars

------------------------------------------------------------------------------
\* извлеки without the notification of the putter.
Extract_Silent ==
  /\ queue # <<>>
  /\ queue' = Tail(queue)
  /\ takeSidePutPermits_' = IF Bounded THEN takeSidePutPermits_ + 1 ELSE 0
  /\ UNCHANGED room

\* извлеки that finds an item.
Extract ==
  /\ queue # <<>>
  /\ queue' = Tail(queue)
  /\ IF Bounded
     THEN /\ takeSidePutPermits_' = takeSidePutPermits_ + 1
          /\ room' = UvedomiVseh(room)
     ELSE UNCHANGED <<takeSidePutPermits_, room>>

ExtractNothing == queue = <<>> /\ UNCHANGED <<queue, takeSidePutPermits_, room>>

\* Every take leaves this alone.
takeFrame == <<emkost_, putSidePutPermits_, guard, item, cls>>

\* возьми and запроси, the first try, with no guard held.
TryTake(t, next) ==
  /\ phase[t] = "idle"
  /\ \/ Extract /\ UNCHANGED phase
     \/ ExtractNothing /\ Goto(t, next)
  /\ UNCHANGED takeVars /\ UNCHANGED takeFrame

\* The second try, with the guard; then the wait.
TryAgain(t, call, next) ==
  /\ phase[t] = call
  /\ \/ Extract /\ Goto(t, "idle") /\ UNCHANGED takeVars
     \/ /\ ExtractNothing
        /\ ozhidanieZabora_' = ozhidanieZabora_ + (IF Bounded THEN 0 ELSE 1)
        /\ takers' = Zhdi(takers, t)
        /\ Goto(t, next)
     \/ call = "repoll" /\ ExtractNothing /\ Goto(t, "idle") /\ UNCHANGED takeVars
  /\ UNCHANGED takeFrame

LeaveLoop(t) ==
  /\ ozhidanieZabora_' = ozhidanieZabora_ - (IF Bounded THEN 0 ELSE 1)
  /\ takers' = Resume(takers, t)
  /\ Goto(t, "idle")

\* The taker has its monitor again.
Retake(t, call) ==
  /\ phase[t] = call /\ takers.at[t] = "awake"
  /\ \/ Extract /\ LeaveLoop(t)
     \/ /\ ExtractNothing
        /\ takers' = Zhdi(takers, t)
        /\ UNCHANGED <<phase, ozhidanieZabora_>>
     \/ call = "poll" /\ ExtractNothing /\ LeaveLoop(t)
  /\ UNCHANGED takeFrame

\* The wait for an item fails.  The linked class passes the notification on,
\* but does not lower ожиданиеЗабора_; the bounded one lets the exception go.
TakeFails(t) ==
  /\ takers.at[t] = "failed" /\ ozhidanieZabora_ <= MaxDrift
  /\ \E w \in IF Bounded THEN {Resume(takers, t)} ELSE Uvedomi(Resume(takers, t)) :
       takers' = w
  /\ Goto(t, "idle")
  /\ UNCHANGED <<queue, takeSidePutPermits_, room, ozhidanieZabora_>>
  /\ UNCHANGED takeFrame

KernelStep(t) ==
  /\ \/ /\ \E w \in KernelSteps(room, t, phase[t] = "offer") : room' = w
        /\ UNCHANGED takers
     \/ /\ \E w \in KernelSteps(takers, t, phase[t] = "poll") : takers' = w
        /\ UNCHANGED room
  /\ UNCHANGED <<queue, ozhidanieZabora_, phase, takeSidePutPermits_>>
  /\ UNCHANGED takeFrame

Init ==
  /\ queue = <<>>
  /\ cls \in Classes
  /\ emkost_ \in IF Bounded THEN Capacities ELSE {MaxLength}
  /\ putSidePutPermits_ = (IF Bounded THEN emkost_ ELSE 0)
  /\ takeSidePutPermits_ = 0
  /\ ozhidanieZabora_ = 0
  /\ guard = NoThread
  /\ \E os \in Systems : room = NewWaitSet(os, Threads)
  /\ takers = room
  /\ phase = [t \in Threads |-> "idle"]
  /\ item = [t \in Threads |-> NoItem]

Next ==
  \E t \in Threads :
    \/ \E x \in Items :
         \/ LinkedPut(t, x)
         \/ \E call \in {"put", "offer"} : BoundedPut(t, x, call)
    \/ OfferRefused(t) \/ PutFails(t) \/ Link(t) \/ Announce(t)
    \/ \E call \in {"put", "offer"} : RetryPut(t, call)
    \/ \E n \in Capacities : SetCapacity(t, n)
    \/ TryTake(t, "retake") \/ TryTake(t, "repoll")
    \/ TryAgain(t, "retake", "take") \/ TryAgain(t, "repoll", "poll")
    \/ \E call \in {"take", "poll"} : Retake(t, call)
    \/ TakeFails(t) \/ KernelStep(t)

\* A putter that has been woken gets `this` some time: only short methods hold
\* it.
Fairness ==
  \A t \in Threads :
    /\ WF_vars(\E call \in {"put", "offer"} : RetryPut(t, call))
    /\ WF_vars(PutFails(t))

Spec == Init /\ [][Next]_vars

FairSpec == Spec /\ Fairness
------------------------------------------------------------------------------
InPhase(P) == {t \in Threads : phase[t] \in P}

(* The permits of the two sides and those in use are the free places: "The  *)
(* counts represent permits ... putSidePutPermits_ + takeSidePutPermits_ =  *)
(* capacity - length", whatever capacity is set while puts and takes are    *)
(* under way; and a put waits only with стражПомещения_.                    *)
PermitsSplit ==
  Bounded =>
    /\ takeSidePutPermits_ >= 0
    /\ putSidePutPermits_ + takeSidePutPermits_
         = emkost_ - Len(queue) - Cardinality(InPhase({"link"}))
    /\ InPhase({"put", "offer", "link"}) = {guard} \ {NoThread}

(* On linux nobody is forgotten.  A bounded queue with an item in it and    *)
(* sleeping takers has a put about to notify them all; a linked one has as  *)
(* many woken takers as items.  The waiting putter sleeps only while the    *)
(* queue is full.                                                           *)
NobodyStranded ==
  takers.os = "linux" =>
    /\ (Asleep(takers) # {} /\ queue # <<>>) =>
         IF Bounded THEN InPhase({"announce"}) # {}
                    ELSE Cardinality(Resuming(takers)) >= Len(queue)
    /\ Asleep(room) # {} => Len(queue) >= emkost_
    /\ ozhidanieZabora_ >= (IF Bounded THEN 0 ELSE Cardinality(InPhase({"take", "poll"})))

(* Both classes implement the ordered channel: accepted only within the     *)
(* capacity, delivered once and in order.                                   *)
Contract == INSTANCE ChannelContract WITH capacity <- emkost_

KeepsContract == Contract!Spec

(* On linux a waiting putter gets the first place that becomes free: it has *)
(* kept стражПомещения_, so nobody can take the place before it.            *)
PutterProceeds ==
  \A t \in Threads :
    (phase[t] \in {"put", "offer"} /\ Len(queue) < emkost_ /\ room.os = "linux")
      ~> phase[t] \in {"link", "idle"}
==============================================================================
