---------------------------- MODULE MeetingProofs ----------------------------
(***************************************************************************)
(* The rendezvous and the synchronous channel, for any finite set of       *)
(* threads: who meets whom, and that no item is lost or given twice.       *)
(*                                                                         *)
(* Rendezvous.  PartyBase holds in every state: the types, who waits is    *)
(* inside, the gate is balanced, and the items under way are items of their*)
(* own.  Orderly holds until a thread intrudes on a broken meeting.  An    *)
(* unbroken meeting is first collected and then left, which otpravleny_    *)
(* tells apart:                                                            *)
(*   InsideCounted  vhozhdeniya_, then otpravleny_, counts those inside;   *)
(*   OwnIndexes     each of them has an index of its own;                  *)
(*   Collected      until the last one comes, the slot of each is its item;*)
(*   Dealt          then the slots are the items of the meeting, no two the*)
(*                  same, and those of who is still inside are not given;  *)
(*   NotReceived    an item that is not dealt yet has not been received.   *)
(*                                                                         *)
(* SynchronousChannel.  A node is queued once or is in one partner's hands *)
(* and has one owner at most (NodesOwned), who has not been settled with   *)
(* and has not cancelled; a put node without an owner is a cancelled one   *)
(* (NodesUnmet).  What remains are the slots of takes whose wait failed    *)
(* (Stray): a put that fills one loses its item, so that there are never   *)
(* more items lost and slots left than failed takes (LossesCounted).       *)
(***************************************************************************)
EXTENDS Rendezvous, SynchronousChannel, CommonTheorems

RendezvousFinite == IsFiniteSet(Threads)

Busy == {"entering", "meet", "attempt"}

RendezvousTypes ==
  /\ uchastniki_ \in Nat \ {0} /\ funkciya_ \in {"none", "rotates", "throws"}
  /\ vorota_ \in Nat /\ sorvan_ \in BOOLEAN /\ vhozhdeniya_ \in Nat /\ otpravleny_ \in Int
  /\ sloty_ \in [Indexes -> Nat]
  /\ WaitSetOK(monitor, Threads)
  /\ phase \in [Threads -> Busy \cup {"idle"}]
  /\ index \in [Threads -> Indexes] /\ mine \in [Threads -> Nat]
  /\ calls \in Nat /\ got \subseteq Nat \X Nat /\ intruded \in BOOLEAN

RendezvousParked == \A t \in Threads : t \in Inside <=> monitor.at[t] # "running"

\* The items under way are items of their own.
ItemsOwn ==
  \A t \in Threads :
    /\ mine[t] \in 0..calls
    /\ phase[t] # "idle" =>
         mine[t] # Empty /\ \A s \in Threads : mine[s] = mine[t] => s = t

PartyBase == RendezvousTypes /\ RendezvousParked /\ GateBalanced /\ ItemsOwn

Collecting == ~sorvan_ /\ otpravleny_ <= 0
Departing  == ~sorvan_ /\ otpravleny_ >= 1

InsideCounted ==
  /\ otpravleny_ <= 0 =>
       Cardinality(Inside) = vhozhdeniya_ /\ (sorvan_ => vhozhdeniya_ = 0)
  /\ otpravleny_ >= 1 =>
       /\ Cardinality(Inside) = otpravleny_ /\ otpravleny_ < vhozhdeniya_
       /\ ~sorvan_ => vhozhdeniya_ = uchastniki_

OwnIndexes ==
  \A t \in Inside :
    index[t] < vhozhdeniya_ /\ \A s \in Inside : index[s] = index[t] => s = t

CleanSlots == vhozhdeniya_ = 0 => sloty_ = NoItems

Collected ==
  Collecting =>
    /\ \A t \in Inside : sloty_[index[t]] = mine[t]
    /\ \A i \in Indexes : i < vhozhdeniya_ => \E t \in Inside : index[t] = i

Values(s) == {s[i] : i \in Indexes}

Dealt ==
  Departing =>
    /\ \A i, j \in Indexes : sloty_[i] = sloty_[j] => i = j
    /\ Values(sloty_) \in met /\ Values(sloty_) \subseteq 1..calls
    /\ \A t \in Inside : /\ mine[t] \in Values(sloty_)
                         /\ \A p \in got : p[2] # sloty_[index[t]]

\* An item not yet dealt has not been received.
NotReceived ==
  \A p \in got :
    /\ p[2] \in 1..calls
    /\ \A t \in Threads :
         phase[t] = "entering" \/ (Collecting /\ t \in Inside) => p[2] # mine[t]

Received ==
  /\ \A p \in got : \E m \in met : p[1] \in m /\ p[2] \in m
  /\ \A p, q \in got : p[2] = q[2] => p = q

Orderly ==
  InsideCounted /\ OwnIndexes /\ CleanSlots /\ Collected /\ Dealt /\ NotReceived /\ Received

PartyInvariant == PartyBase /\ (~intruded => Orderly)

LEMMA NoItemsOK == NoItems \in [Indexes -> Nat] /\ (uchastniki_ \in Nat \ {0} => 0 \in Indexes)
  BY DEF NoItems, Indexes, Empty

\* How many there are of the threads on their way in, and inside.
LEMMA Counts ==
  ASSUME RendezvousFinite
  PROVE  /\ Cardinality(Entering) \in Nat /\ Cardinality(Inside) \in Nat
         /\ Cardinality(Entering) = 0 <=> Entering = {}
         /\ Cardinality(Inside) = 0 <=> Inside = {}
  <1>1. IsFiniteSet(Entering) /\ IsFiniteSet(Inside)
    <2>1. Entering \subseteq Threads /\ Inside \subseteq Threads
      BY DEF Entering, Inside
    <2> QED BY <2>1, FS_Subset DEF RendezvousFinite
  <1> QED BY <1>1, FS_CardinalityType, FS_EmptySet

\* One thread moves to another phase.
LEMMA CountsMove ==
  ASSUME RendezvousFinite, NEW t \in Threads, phase \in [Threads -> Busy \cup {"idle"}],
         NEW p \in Busy \cup {"idle"}, phase' = [phase EXCEPT ![t] = p]
  PROVE  /\ Cardinality(Entering') + One(phase[t] = "entering")
              = Cardinality(Entering) + One(p = "entering")
         /\ Cardinality(Inside') + One(phase[t] \in {"meet", "attempt"})
              = Cardinality(Inside) + One(p \in {"meet", "attempt"})
         /\ Cardinality(Entering') \in Nat /\ Cardinality(Inside') \in Nat
  <1> DEFINE E == Entering
             F == Entering'
             A == Inside
             B == Inside'
  <1>1. /\ E \subseteq Threads /\ F \subseteq Threads /\ A \subseteq Threads /\ B \subseteq Threads
        /\ \A s \in Threads : s # t => ((s \in E <=> s \in F) /\ (s \in A <=> s \in B))
        /\ (t \in E <=> phase[t] = "entering") /\ (t \in F <=> p = "entering")
        /\ (t \in A <=> phase[t] \in {"meet", "attempt"}) /\ (t \in B <=> p \in {"meet", "attempt"})
    BY DEF Entering, Inside
  <1> HIDE DEF E, F, A, B
  <1>2. /\ Cardinality(F) \in Nat /\ Cardinality(F) + One(t \in E) = Cardinality(E) + One(t \in F)
    BY <1>1, CountMoves DEF RendezvousFinite
  <1>3. /\ Cardinality(B) \in Nat /\ Cardinality(B) + One(t \in A) = Cardinality(A) + One(t \in B)
    BY <1>1, CountMoves DEF RendezvousFinite
  <1> QED BY <1>1, <1>2, <1>3 DEF E, F, A, B

\* A thread on its way in finds a slot.
LEMMA SlotFree ==
  ASSUME RendezvousFinite, PartyBase, NEW t \in Threads, phase[t] = "entering"
  PROVE  vhozhdeniya_ \in Indexes /\ vhozhdeniya_ < uchastniki_
  <1>1. Cardinality(Entering) \in Nat /\ Cardinality(Entering) # 0
    BY Counts DEF Entering
  <1> QED BY <1>1 DEF PartyBase, RendezvousTypes, GateBalanced, Indexes

LEMMA RendezvousStarts == ASSUME RendezvousFinite PROVE RendezvousInit => PartyInvariant
  <1> SUFFICES ASSUME RendezvousInit PROVE PartyInvariant
    OBVIOUS
  <1>1. uchastniki_ \in Nat \ {0} /\ funkciya_ \in {"none", "rotates", "throws"}
    BY RendezvousAssumption, MeetingAssumption DEF RendezvousInit
  <1>2. WaitSetOK(monitor, Threads) /\ \A t \in Threads : monitor.at[t] = "running"
    BY NewWaitSetOK, RendezvousAssumption, MeetingAssumption DEF RendezvousInit, NewWaitSet
  <1>3. RendezvousTypes
    <2>1. /\ vorota_ = uchastniki_ /\ vhozhdeniya_ = 0 /\ otpravleny_ = 0
          /\ sloty_ = NoItems /\ calls = 0
          /\ phase = [t \in Threads |-> "idle"]
          /\ index = [t \in Threads |-> 0] /\ mine = [t \in Threads |-> 0]
      BY DEF RendezvousInit, Empty
    <2>2. got \subseteq Nat \X Nat /\ sorvan_ \in BOOLEAN /\ intruded \in BOOLEAN
      BY DEF RendezvousInit
    <2> QED BY <1>1, <1>2, <2>1, <2>2, NoItemsOK DEF RendezvousTypes
  <1>4. Entering = {} /\ Inside = {} /\ Cardinality({}) = 0
    BY FS_EmptySet DEF RendezvousInit, Entering, Inside
  <1>5. RendezvousParked /\ GateBalanced /\ ItemsOwn
    <2>1. ItemsOwn
      BY DEF RendezvousInit, ItemsOwn, Empty
    <2> QED BY <1>1, <1>2, <1>4, <2>1 DEF RendezvousInit, RendezvousParked, GateBalanced
  <1>6. InsideCounted /\ OwnIndexes /\ CleanSlots
    BY <1>4 DEF RendezvousInit, InsideCounted, OwnIndexes, CleanSlots
  <1>7. Collected /\ Dealt /\ NotReceived /\ Received
    BY <1>1, <1>4 DEF RendezvousInit, Collected, Dealt, NotReceived, Received, Departing, Indexes
  <1> QED BY <1>3, <1>5, <1>6, <1>7 DEF PartyInvariant, PartyBase, Orderly

\* What the `finally` clause does, but for `got`.
LEMMA DepartDoes ==
  ASSUME RendezvousTypes, NEW t \in Threads, NEW i \in Indexes, NEW sent \in Int,
         NEW slots \in [Indexes -> Nat], NEW entered \in Nat, NEW how,
         Depart(t, i, sent, slots, entered, how), uchastniki_' = uchastniki_
  PROVE  /\ otpravleny_' = sent - 1
         /\ sloty_' \in [Indexes -> Nat] /\ vorota_' \in Nat /\ vhozhdeniya_' \in Nat
         /\ vorota_' + vhozhdeniya_' = vorota_ + entered
         /\ \/ sent > 1 /\ sloty_' = slots /\ vhozhdeniya_' = entered
            \/ sent <= 1 /\ sloty_' = NoItems /\ vhozhdeniya_' = 0
         /\ phase' = [phase EXCEPT ![t] = "idle"]
         /\ index' = [index EXCEPT ![t] = 0]
         /\ mine' = [mine EXCEPT ![t] = Empty]
         /\ got' = (IF how = "passed" THEN got \cup {<<mine[t], slots[i]>>} ELSE got)
         /\ got' \subseteq Nat \X Nat
  <1>1. /\ \/ sent > 1 /\ sloty_' = slots /\ vhozhdeniya_' = entered /\ vorota_' = vorota_
           \/ /\ sent <= 1 /\ sloty_' = NoItems /\ vhozhdeniya_' = 0
              /\ vorota_' = vorota_ + entered
        /\ vorota_ \in Nat
    BY DEF Depart, RendezvousTypes
  <1>2. /\ mine[t] \in Nat /\ slots[i] \in Nat /\ got \subseteq Nat \X Nat
        /\ got' = (IF how = "passed" THEN got \cup {<<mine[t], slots[i]>>} ELSE got)
    BY DEF Depart, RendezvousTypes
  <1>3. got' \subseteq Nat \X Nat
    BY <1>2
  <1> QED BY <1>1, <1>2, <1>3, NoItemsOK DEF Depart

\* A call that ends here, whatever it comes from: the types, and the balance.
LEMMA DepartKeeps ==
  ASSUME RendezvousFinite, PartyBase, NEW t \in Threads, phase[t] \in Busy,
         NEW i \in Indexes, NEW sent \in Int, NEW slots \in [Indexes -> Nat],
         NEW entered \in Nat, entered = vhozhdeniya_ + One(phase[t] = "entering"),
         NEW how, Depart(t, i, sent, slots, entered, how),
         WaitSetOK(monitor', Threads), monitor'.at[t] = "running",
         \A s \in Threads : s # t => (monitor'.at[s] = "running" <=> monitor.at[s] = "running"),
         sorvan_' \in BOOLEAN, intruded' \in BOOLEAN, UNCHANGED funkciya_, UNCHANGED frame
  PROVE  PartyBase' /\ Inside' = Inside \ {t} /\ Entering' = Entering \ {t}
  <1> USE DEF PartyBase
  <1>1. /\ uchastniki_ \in Nat \ {0} /\ uchastniki_' = uchastniki_ /\ calls' = calls
        /\ calls \in Nat /\ Indexes' = Indexes
        /\ phase \in [Threads -> Busy \cup {"idle"}]
        /\ index \in [Threads -> Indexes] /\ mine \in [Threads -> Nat]
    BY DEF RendezvousTypes, frame, Indexes
  <1>2. /\ sloty_' \in [Indexes -> Nat] /\ vorota_' \in Nat /\ vhozhdeniya_' \in Nat
        /\ vorota_' + vhozhdeniya_' = vorota_ + entered
        /\ phase' = [phase EXCEPT ![t] = "idle"] /\ otpravleny_' = sent - 1
        /\ index' = [index EXCEPT ![t] = 0] /\ mine' = [mine EXCEPT ![t] = Empty]
        /\ got' \subseteq Nat \X Nat
    BY <1>1, DepartDoes
  <1>3. RendezvousTypes'
    BY <1>1, <1>2, NoItemsOK DEF RendezvousTypes, Empty
  <1>4. Inside' = Inside \ {t} /\ Entering' = Entering \ {t}
    BY <1>1, <1>2 DEF Inside, Entering
  <1>5. RendezvousParked'
    BY <1>4 DEF RendezvousParked, Inside
  <1>6. ItemsOwn'
    BY <1>1, <1>2 DEF ItemsOwn, Empty, Busy
  <1>7. GateBalanced'
    <2>1. /\ Cardinality(Entering') + One(phase[t] = "entering") = Cardinality(Entering)
          /\ Cardinality(Entering') \in Nat /\ Cardinality(Entering) \in Nat
      <3>1. /\ Cardinality(Entering') + One(phase[t] = "entering")
                 = Cardinality(Entering) + One("idle" = "entering")
            /\ Cardinality(Entering') \in Nat /\ Cardinality(Entering) \in Nat
        BY <1>1, <1>2, CountsMove, Counts
      <3>2. One("idle" = "entering") = 0
        BY DEF One
      <3> QED BY <3>1, <3>2
    <2>2. vorota_ \in Nat /\ vhozhdeniya_ \in Nat
      BY DEF RendezvousTypes
    <2>3. vorota_ + Cardinality(Entering) + vhozhdeniya_ = uchastniki_
      BY DEF GateBalanced
    <2>4. One(phase[t] = "entering") \in Nat
      BY DEF One
    <2> DEFINE e == Cardinality(Entering')
               x == vhozhdeniya_'
               y == vorota_'
    <2>5. e \in Nat /\ x \in Nat /\ y \in Nat /\ uchastniki_' = uchastniki_
          /\ e + One(phase[t] = "entering") = Cardinality(Entering)
          /\ y + x = vorota_ + vhozhdeniya_ + One(phase[t] = "entering")
      BY <1>1, <1>2, <2>1, <2>2, <2>4
    <2> HIDE DEF e, x, y
    <2>6. y + e + x = uchastniki_
      BY <1>1, <2>1, <2>2, <2>3, <2>4, <2>5
    <2> QED BY <1>1, <2>6 DEF GateBalanced, e, x, y
  <1> QED BY <1>3, <1>4, <1>5, <1>6, <1>7

\* What the six ways to end a call have in common.
LEMMA BackDoes ==
  ASSUME PartyBase, NEW t \in Threads,
         \/ /\ Back(t)
            /\ \/ monitor' = Resume(monitor, t)
               \/ monitor' = UvedomiVseh(Resume(monitor, t))
         \/ phase[t] = "entering" /\ monitor' \in {monitor, UvedomiVseh(monitor)}
  PROVE  /\ WaitSetOK(monitor', Threads) /\ monitor'.at[t] = "running"
         /\ \A s \in Threads : s # t => (monitor'.at[s] = "running" <=> monitor.at[s] = "running")
         /\ Back(t) => t \in Inside
  <1>1. WaitSetOK(monitor, Threads)
    BY DEF PartyBase, RendezvousTypes
  <1>2. /\ WaitSetOK(Resume(monitor, t), Threads) /\ Resume(monitor, t).at[t] = "running"
        /\ \A u \in Threads : u # t => Resume(monitor, t).at[u] = monitor.at[u]
    BY <1>1, ResumeOK
  <1>3. Back(t) => t \in Inside
    BY DEF Back, PartyBase, RendezvousParked
  <1>4. phase[t] = "entering" => monitor.at[t] = "running"
    BY DEF PartyBase, RendezvousParked, Inside
  <1>5. CASE monitor' = Resume(monitor, t)
    BY <1>2, <1>3, <1>5
  <1>6. CASE monitor' = UvedomiVseh(Resume(monitor, t))
    BY <1>2, <1>3, <1>6, UvedomiVsehOK
  <1>7. CASE phase[t] = "entering" /\ monitor' \in {monitor, UvedomiVseh(monitor)}
    BY <1>1, <1>3, <1>4, <1>7, UvedomiVsehOK
  <1> QED BY <1>5, <1>6, <1>7

\* The item of a thread that comes in fills the first free slot.
LEMMA SlotsOK ==
  ASSUME PartyBase, NEW t \in Threads
  PROVE  Slots(t) \in [Indexes -> Nat]
  BY DEF Slots, PartyBase, RendezvousTypes

LEMMA RotatedIs ==
  ASSUME uchastniki_ \in Nat \ {0}, NEW s \in [Indexes -> Nat]
  PROVE  /\ Rotated(s) \in [Indexes -> Nat]
         /\ Values(Rotated(s)) = Values(s)
         /\ (\A i, j \in Indexes : s[i] = s[j] => i = j)
              => \A i, j \in Indexes : Rotated(s)[i] = Rotated(s)[j] => i = j
  <1> DEFINE next(i) == IF i = uchastniki_ - 1 THEN 0 ELSE i + 1
             prev(i) == IF i = 0 THEN uchastniki_ - 1 ELSE i - 1
  <1>1. \A i \in Indexes : (i + 1) % uchastniki_ = next(i)
    <2> TAKE i \in Indexes
    <2>1. CASE i = uchastniki_ - 1
      BY <2>1
    <2>2. CASE i # uchastniki_ - 1
      <3>1. i + 1 \in 0..(uchastniki_ - 1)
        BY <2>2 DEF Indexes
      <3> QED BY <2>2, <3>1
    <2> QED BY <2>1, <2>2
  <1>2. \A i \in Indexes : /\ next(i) \in Indexes /\ prev(i) \in Indexes
                           /\ next(prev(i)) = i /\ prev(next(i)) = i
    BY DEF Indexes
  <1>3. Rotated(s) = [i \in Indexes |-> s[next(i)]]
    BY <1>1 DEF Rotated
  <1> HIDE DEF next, prev
  <1>4. Rotated(s) \in [Indexes -> Nat] /\ \A i \in Indexes : Rotated(s)[i] = s[next(i)]
    BY <1>2, <1>3
  <1>5. Values(Rotated(s)) = Values(s)
    <2>1. \A i \in Indexes : Rotated(s)[prev(i)] = s[i] /\ prev(i) \in Indexes
      BY <1>2, <1>4
    <2> QED BY <1>2, <1>4, <2>1 DEF Values
  <1>6. ASSUME \A i, j \in Indexes : s[i] = s[j] => i = j
        PROVE  \A i, j \in Indexes : Rotated(s)[i] = Rotated(s)[j] => i = j
    BY <1>2, <1>4, <1>6
  <1> QED BY <1>4, <1>5, <1>6

\* The steps that leave the counters, the slots and the phases alone.
Quiet(t) == WaitAgain(t) \/ Restart(t) \/ SetFunction(t) \/ RendezvousKernelStep(t)

LEMMA QuietBase ==
  ASSUME PartyBase, NEW t \in Threads, Quiet(t)
  PROVE  PartyBase'
  <1> USE DEF PartyBase
  <1>1. /\ WaitSetOK(monitor', Threads)
        /\ \A s \in Threads : monitor'.at[s] = "running" <=> monitor.at[s] = "running"
    <2>1. WaitSetOK(monitor, Threads)
      BY DEF RendezvousTypes
    <2>2. CASE monitor' = Zhdi(monitor, t) /\ monitor.at[t] = "awake"
      BY <2>1, <2>2, ZhdiOK
    <2>3. CASE monitor' \in {monitor, UvedomiVseh(monitor)}
      BY <2>1, <2>3, UvedomiVsehOK
    <2>4. CASE monitor' \in KernelSteps(monitor, t, phase[t] = "attempt" \/ monitor.os = "linux")
      <3>1. /\ WaitSetOK(monitor', Threads)
            /\ \A s \in Threads : s # t => monitor'.at[s] = monitor.at[s]
            /\ monitor.at[t] # "running" /\ monitor'.at[t] # "running"
        BY <2>1, <2>4, KernelStepOK, KernelStepMoves
      <3> QED BY <3>1
    <2> QED BY <2>2, <2>3, <2>4 DEF Quiet, WaitAgain, Restart, SetFunction, RendezvousKernelStep
  <1>2. /\ UNCHANGED <<uchastniki_, calls, vorota_, vhozhdeniya_, otpravleny_, sloty_,
                       phase, index, mine, got, intruded>>
        /\ funkciya_' \in {"none", "rotates", "throws"}
    BY RendezvousAssumption, MeetingAssumption DEF Quiet, WaitAgain, Restart, SetFunction, RendezvousKernelStep,
       rendezvous, threadVars, frame, RendezvousTypes
  <1>3. sorvan_' \in BOOLEAN
    BY DEF Quiet, WaitAgain, Restart, SetFunction, RendezvousKernelStep, RendezvousTypes
  <1>4. RendezvousTypes'
    BY <1>1, <1>2, <1>3 DEF RendezvousTypes, Indexes
  <1>5. RendezvousParked' /\ GateBalanced' /\ ItemsOwn'
    BY <1>1, <1>2 DEF RendezvousParked, Inside, GateBalanced, Entering, ItemsOwn
  <1> QED BY <1>4, <1>5

LEMMA PassGateBase ==
  ASSUME RendezvousFinite, PartyBase, NEW t \in Threads, PassGate(t)
  PROVE  PartyBase'
  <1> USE DEF PartyBase
  <1>1. /\ vorota_ \in Nat /\ vorota_ > 0 /\ calls \in Nat /\ phase[t] = "idle"
        /\ phase \in [Threads -> Busy \cup {"idle"}] /\ mine \in [Threads -> Nat]
        /\ vhozhdeniya_ \in Nat /\ uchastniki_ \in Nat
    BY DEF PassGate, RendezvousTypes
  <1>2. /\ vorota_' = vorota_ - 1 /\ calls' = calls + 1
        /\ mine' = [mine EXCEPT ![t] = calls + 1]
        /\ phase' = [phase EXCEPT ![t] = "entering"]
        /\ UNCHANGED <<uchastniki_, funkciya_, sorvan_, vhozhdeniya_, otpravleny_,
                       sloty_, monitor, index, got, intruded>>
    BY DEF PassGate
  <1>3. RendezvousTypes'
    BY <1>1, <1>2 DEF RendezvousTypes, Indexes, Busy
  <1>4. RendezvousParked'
    BY <1>1, <1>2 DEF RendezvousParked, Inside
  <1>5. ItemsOwn'
    <2>1. \A s \in Threads : mine[s] \in 0..calls
      BY DEF ItemsOwn
    <2>2. \A s \in Threads : s # t => mine'[s] = mine[s] /\ mine'[s] # calls + 1
      BY <1>1, <1>2, <2>1
    <2>3. mine'[t] = calls + 1 /\ calls + 1 # Empty
      BY <1>1, <1>2 DEF Empty
    <2> QED BY <1>1, <1>2, <2>1, <2>2, <2>3 DEF ItemsOwn
  <1>6. GateBalanced'
    <2>1. /\ Cardinality(Entering') + One("idle" = "entering")
               = Cardinality(Entering) + One("entering" = "entering")
          /\ Cardinality(Entering') \in Nat /\ Cardinality(Entering) \in Nat
      BY <1>1, <1>2, CountsMove, Counts DEF Busy
    <2>2. One("idle" = "entering") = 0 /\ One("entering" = "entering") = 1
      BY DEF One
    <2>3. vorota_ + Cardinality(Entering) + vhozhdeniya_ = uchastniki_
      BY DEF GateBalanced
    <2> DEFINE e == Cardinality(Entering')
    <2>4. e = Cardinality(Entering) + 1
      BY <2>1, <2>2
    <2> HIDE DEF e
    <2>5. (vorota_ - 1) + e + vhozhdeniya_ = uchastniki_
      BY <1>1, <2>1, <2>3, <2>4
    <2> QED BY <1>2, <2>5 DEF GateBalanced, e
  <1> QED BY <1>3, <1>4, <1>5, <1>6

LEMMA EnterWaitBase ==
  ASSUME RendezvousFinite, PartyBase, NEW t \in Threads, NEW how \in {"meet", "attempt"},
         EnterWait(t, how)
  PROVE  PartyBase'
  <1> USE DEF PartyBase
  <1>1. /\ vhozhdeniya_ \in Indexes /\ phase[t] = "entering"
        /\ phase \in [Threads -> Busy \cup {"idle"}] /\ mine \in [Threads -> Nat]
        /\ vhozhdeniya_ \in Nat /\ uchastniki_ \in Nat /\ vorota_ \in Nat
        /\ index \in [Threads -> Indexes]
    BY SlotFree DEF EnterWait, Enters, RendezvousTypes
  <1>2. /\ vhozhdeniya_' = vhozhdeniya_ + 1 /\ sloty_' = Slots(t)
        /\ index' = [index EXCEPT ![t] = vhozhdeniya_]
        /\ monitor' = Zhdi(monitor, t) /\ phase' = [phase EXCEPT ![t] = how]
        /\ UNCHANGED <<vorota_, sorvan_, otpravleny_, mine, got, uchastniki_, calls, funkciya_>>
    BY DEF EnterWait, Enters, Entered, frame
  <1>3. intruded' \in BOOLEAN
    BY DEF EnterWait, Enters, RendezvousTypes
  <1>4. /\ WaitSetOK(monitor', Threads) /\ monitor'.at[t] # "running"
        /\ \A s \in Threads : s # t => monitor'.at[s] = monitor.at[s]
    <2>1. WaitSetOK(monitor, Threads)
      BY DEF RendezvousTypes
    <2> QED BY <1>2, <2>1, ZhdiOK
  <1>5. RendezvousTypes'
    <2>1. Slots(t) \in [Indexes -> Nat]
      BY SlotsOK
    <2>2. sloty_' \in [Indexes' -> Nat] /\ index' \in [Threads -> Indexes'] /\ Indexes' = Indexes
      BY <1>1, <1>2, <2>1 DEF Indexes
    <2> QED BY <1>1, <1>2, <1>3, <1>4, <2>2 DEF RendezvousTypes, Busy
  <1>6. RendezvousParked' /\ ItemsOwn'
    BY <1>1, <1>2, <1>4 DEF RendezvousParked, Inside, ItemsOwn
  <1>7. GateBalanced'
    <2>1. /\ Cardinality(Entering') + One("entering" = "entering")
               = Cardinality(Entering) + One(how = "entering")
          /\ Cardinality(Entering') \in Nat /\ Cardinality(Entering) \in Nat
      BY <1>1, <1>2, CountsMove, Counts DEF Busy
    <2>2. One("entering" = "entering") = 1 /\ One(how = "entering") = 0
      BY DEF One
    <2>3. vorota_ + Cardinality(Entering) + vhozhdeniya_ = uchastniki_
      BY DEF GateBalanced
    <2> DEFINE e == Cardinality(Entering')
    <2>4. e + 1 = Cardinality(Entering) /\ e \in Nat
      BY <2>1, <2>2
    <2> HIDE DEF e
    <2>5. vorota_ + e + (vhozhdeniya_ + 1) = uchastniki_
      BY <1>1, <2>3, <2>4
    <2> QED BY <1>2, <2>5 DEF GateBalanced, e
  <1> QED BY <1>5, <1>6, <1>7

\* The six ways to end a call, as DepartKeeps has them.
Ending(t, i, sent, slots, entered, how) ==
  /\ phase[t] \in Busy
  /\ i \in Indexes /\ sent \in Int /\ slots \in [Indexes -> Nat]
  /\ entered \in Nat /\ entered = vhozhdeniya_ + One(phase[t] = "entering")
  /\ Depart(t, i, sent, slots, entered, how)
  /\ PartyBase' /\ Inside' = Inside \ {t} /\ Entering' = Entering \ {t}

LEMMA InsideEnding ==
  ASSUME RendezvousFinite, PartyBase, NEW t \in Threads, Back(t), NEW sent \in Int, NEW how,
         Depart(t, index[t], sent, sloty_, vhozhdeniya_, how),
         \/ monitor' = Resume(monitor, t)
         \/ monitor' = UvedomiVseh(Resume(monitor, t)),
         sorvan_' \in BOOLEAN, UNCHANGED <<funkciya_, intruded>>, UNCHANGED frame
  PROVE  Ending(t, index[t], sent, sloty_, vhozhdeniya_, how) /\ t \in Inside
  <1>1. /\ WaitSetOK(monitor', Threads) /\ monitor'.at[t] = "running"
        /\ \A s \in Threads : s # t => (monitor'.at[s] = "running" <=> monitor.at[s] = "running")
        /\ t \in Inside
    BY BackDoes
  <1>2. phase[t] \in Busy /\ phase[t] # "entering"
    BY <1>1 DEF Inside, Busy
  <1>3. index[t] \in Indexes /\ sloty_ \in [Indexes -> Nat] /\ vhozhdeniya_ \in Nat
        /\ intruded' \in BOOLEAN
    BY DEF PartyBase, RendezvousTypes
  <1>4. vhozhdeniya_ = vhozhdeniya_ + One(phase[t] = "entering")
    BY <1>2, <1>3 DEF One
  <1> QED BY <1>1, <1>2, <1>3, <1>4, DepartKeeps DEF Ending

LEMMA EnteringEnding ==
  ASSUME RendezvousFinite, PartyBase, NEW t \in Threads, Enters(t), NEW sent \in Int, NEW how,
         NEW slots \in [Indexes -> Nat],
         Depart(t, vhozhdeniya_, sent, slots, Entered, how),
         monitor' \in {monitor, UvedomiVseh(monitor)}, sorvan_' \in BOOLEAN
  PROVE  Ending(t, vhozhdeniya_, sent, slots, Entered, how) /\ phase[t] = "entering"
  <1>1. phase[t] = "entering"
    BY DEF Enters
  <1>2. /\ WaitSetOK(monitor', Threads) /\ monitor'.at[t] = "running"
        /\ \A s \in Threads : s # t => (monitor'.at[s] = "running" <=> monitor.at[s] = "running")
    BY <1>1, BackDoes
  <1>3. phase[t] \in Busy /\ vhozhdeniya_ \in Indexes
    BY <1>1, SlotFree DEF Busy
  <1>4. Entered \in Nat /\ Entered = vhozhdeniya_ + One(phase[t] = "entering")
    BY <1>1 DEF One, Entered, PartyBase, RendezvousTypes
  <1>5. intruded' \in BOOLEAN /\ UNCHANGED funkciya_ /\ UNCHANGED frame
    BY DEF Enters, PartyBase, RendezvousTypes
  <1> QED BY <1>1, <1>2, <1>3, <1>4, <1>5, DepartKeeps DEF Ending

\* What a call that ends has done, and how many remain inside.
EndingEffect(t, i, sent, slots, entered, how) ==
  /\ otpravleny_' = sent - 1 /\ uchastniki_' = uchastniki_ /\ Indexes' = Indexes
  /\ calls' = calls
  /\ \/ sent > 1 /\ sloty_' = slots /\ vhozhdeniya_' = entered
     \/ sent <= 1 /\ sloty_' = NoItems' /\ vhozhdeniya_' = 0
  /\ \A s \in Threads : s # t => /\ phase'[s] = phase[s] /\ index'[s] = index[s]
                                 /\ mine'[s] = mine[s]
  /\ phase'[t] = "idle"
  /\ got' = (IF how = "passed" THEN got \cup {<<mine[t], slots[i]>>} ELSE got)
  /\ Cardinality(Inside') \in Nat /\ Cardinality(Inside) \in Nat
  /\ Cardinality(Inside') = Cardinality(Inside) - One(t \in Inside)
  /\ Inside' = {} <=> Cardinality(Inside') = 0
  /\ PartyBase' /\ Inside' = Inside \ {t} /\ Entering' = Entering \ {t}
  /\ i \in Indexes /\ slots \in [Indexes -> Nat] /\ sent \in Int
  /\ entered \in Nat /\ entered = vhozhdeniya_ + One(phase[t] = "entering")

LEMMA EndingDoes ==
  ASSUME RendezvousFinite, PartyBase, NEW t \in Threads, NEW i, NEW sent, NEW slots, NEW entered,
         NEW how, Ending(t, i, sent, slots, entered, how), UNCHANGED frame
  PROVE  EndingEffect(t, i, sent, slots, entered, how)
  <1>1. /\ RendezvousTypes /\ uchastniki_' = uchastniki_ /\ calls' = calls
        /\ Indexes' = Indexes /\ NoItems' = NoItems
    BY DEF PartyBase, frame, Indexes, NoItems
  <1>2. /\ otpravleny_' = sent - 1
        /\ \/ sent > 1 /\ sloty_' = slots /\ vhozhdeniya_' = entered
           \/ sent <= 1 /\ sloty_' = NoItems /\ vhozhdeniya_' = 0
        /\ phase' = [phase EXCEPT ![t] = "idle"]
        /\ index' = [index EXCEPT ![t] = 0] /\ mine' = [mine EXCEPT ![t] = Empty]
        /\ got' = (IF how = "passed" THEN got \cup {<<mine[t], slots[i]>>} ELSE got)
    BY <1>1, DepartDoes DEF Ending
  <1>3. /\ Cardinality(Inside') + One(t \in Inside) = Cardinality(Inside)
        /\ Cardinality(Inside') \in Nat /\ Cardinality(Inside) \in Nat
    <2>1. /\ Cardinality(Inside') + One(phase[t] \in {"meet", "attempt"})
                = Cardinality(Inside) + One("idle" \in {"meet", "attempt"})
          /\ Cardinality(Inside') \in Nat /\ Cardinality(Inside) \in Nat
      BY <1>1, <1>2, CountsMove, Counts DEF RendezvousTypes
    <2>2. One("idle" \in {"meet", "attempt"}) = 0
          /\ One(phase[t] \in {"meet", "attempt"}) = One(t \in Inside)
      BY DEF One, Inside
    <2> QED BY <2>1, <2>2
  <1>4. \A s \in Threads : s # t => /\ phase'[s] = phase[s] /\ index'[s] = index[s]
                                    /\ mine'[s] = mine[s]
    BY <1>1, <1>2 DEF RendezvousTypes
  <1>5. phase'[t] = "idle"
    BY <1>1, <1>2 DEF RendezvousTypes
  <1>6. Inside' = {} <=> Cardinality(Inside') = 0
    <2>1. (Cardinality(Inside) = 0 <=> Inside = {})'
      BY FS_Subset, FS_EmptySet DEF Inside, RendezvousFinite
    <2> QED BY <2>1
  <1>7. Cardinality(Inside') = Cardinality(Inside) - One(t \in Inside)
    <2> DEFINE a == Cardinality(Inside')
               b == Cardinality(Inside)
    <2>1. a + One(t \in Inside) = b /\ a \in Nat /\ b \in Nat /\ One(t \in Inside) \in Nat
      BY <1>3 DEF One
    <2> HIDE DEF a, b
    <2>2. a = b - One(t \in Inside)
      BY <2>1
    <2> QED BY <2>2 DEF a, b
  <1>8. /\ PartyBase' /\ Inside' = Inside \ {t} /\ Entering' = Entering \ {t}
        /\ i \in Indexes /\ slots \in [Indexes -> Nat] /\ sent \in Int
        /\ entered \in Nat /\ entered = vhozhdeniya_ + One(phase[t] = "entering")
    BY DEF Ending
  <1> QED BY <1>1, <1>2, <1>3, <1>4, <1>5, <1>6, <1>7, <1>8 DEF EndingEffect

\* Those that remain keep what they have, if the slots and the counter do.
LEMMA RemainingKeep ==
  ASSUME PartyBase, PartyBase', Orderly,
         Inside' \subseteq Inside, \A s \in Inside' : index'[s] = index[s],
         vhozhdeniya_' >= vhozhdeniya_ \/ Inside' = {}
  PROVE  OwnIndexes'
  <1>1. /\ vhozhdeniya_ \in Nat /\ vhozhdeniya_' \in Nat
        /\ index \in [Threads -> Indexes] /\ Indexes \subseteq Nat
    BY DEF PartyBase, RendezvousTypes, Indexes
  <1>2. /\ Inside \subseteq Threads
        /\ \A s \in Inside : index[s] < vhozhdeniya_ /\ \A u \in Inside : index[u] = index[s] => u = s
    BY DEF Orderly, OwnIndexes, Inside
  <1>3. \A s \in Inside' : index'[s] < vhozhdeniya_'
    <2> TAKE s \in Inside'
    <2>1. s \in Inside /\ index'[s] = index[s] /\ index[s] \in Nat /\ index[s] < vhozhdeniya_
      BY <1>1, <1>2
    <2>2. vhozhdeniya_' >= vhozhdeniya_
      OBVIOUS
    <2> QED BY <1>1, <2>1, <2>2
  <1>4. \A s, u \in Inside' : index'[u] = index'[s] => u = s
    BY <1>2
  <1> QED BY <1>3, <1>4 DEF OwnIndexes

\* A thread that finds the loop not over breaks the rendezvous.
LEMMA BreakOrderly ==
  ASSUME RendezvousFinite, PartyBase, Orderly, NEW t \in Threads, NEW i, NEW slots, NEW entered,
         NEW how, how # "passed", Ending(t, i, entered, slots, entered, how), UNCHANGED frame,
         phase[t] = "entering" \/ t \in Inside,
         ~Over, sorvan_', met' = met
  PROVE  Orderly'
  <1>1. /\ Collecting /\ vhozhdeniya_ \in Nat /\ otpravleny_ \in Int
        /\ Cardinality(Inside) = vhozhdeniya_
    BY DEF Over, Collecting, PartyBase, RendezvousTypes, Orderly, InsideCounted
  <1>2. EndingEffect(t, i, entered, slots, entered, how)
    BY EndingDoes
  <1>3. Cardinality(Inside') = entered - 1 /\ entered >= 1
    <2>1. (phase[t] = "entering" /\ t \notin Inside) \/ (phase[t] # "entering" /\ t \in Inside)
      BY DEF Inside
    <2> QED BY <1>1, <1>2, <2>1 DEF One, EndingEffect
  <1>4. entered \in Nat /\ entered >= vhozhdeniya_
    BY <1>1, <1>2 DEF One, EndingEffect
  <1>5. InsideCounted' /\ CleanSlots'
    BY <1>2, <1>3, <1>4 DEF InsideCounted, CleanSlots, EndingEffect
  <1>6. OwnIndexes'
    <2>1. \A s \in Inside' : index'[s] = index[s]
      BY <1>2 DEF Inside, EndingEffect
    <2>2. vhozhdeniya_' >= vhozhdeniya_ \/ Inside' = {}
      BY <1>2, <1>3, <1>4 DEF EndingEffect
    <2> QED BY <1>2, <2>1, <2>2, RemainingKeep DEF EndingEffect
  <1>7. Collected' /\ Dealt'
    BY DEF Collected, Collecting, Dealt, Departing
  <1>8. NotReceived' /\ Received'
    <2>1. \A s \in Threads : phase'[s] = "entering" => phase[s] = "entering" /\ mine'[s] = mine[s]
      BY <1>2 DEF EndingEffect
    <2> QED BY <1>2, <2>1 DEF Orderly, NotReceived, Received, Collecting, EndingEffect
  <1> QED BY <1>5, <1>6, <1>7, <1>8 DEF Orderly

\* A thread that enters after a broken meeting that has been left: it leaves
\* alone, and nothing remains.
LEMMA StrayOrderly ==
  ASSUME RendezvousFinite, PartyBase, Orderly, NEW t \in Threads, phase[t] = "entering",
         NEW slots, NEW sent, sent <= 1, Ending(t, vhozhdeniya_, sent, slots, Entered, "broken"),
         UNCHANGED frame, sorvan_, Inside = {}, sorvan_', met' = met
  PROVE  Orderly'
  <1>1. EndingEffect(t, vhozhdeniya_, sent, slots, Entered, "broken")
    BY EndingDoes
  <1>2. Inside' = {} /\ Cardinality(Inside') = 0 /\ otpravleny_' <= 0 /\ vhozhdeniya_' = 0
        /\ sloty_' = NoItems'
    BY <1>1 DEF EndingEffect
  <1>3. InsideCounted' /\ CleanSlots' /\ OwnIndexes'
    BY <1>1, <1>2 DEF InsideCounted, CleanSlots, OwnIndexes, EndingEffect
  <1>4. Collected' /\ Dealt'
    BY DEF Collected, Collecting, Dealt, Departing
  <1>5. NotReceived' /\ Received'
    <2>1. \A s \in Threads : phase'[s] = "entering" => phase[s] = "entering" /\ mine'[s] = mine[s]
      BY <1>1 DEF EndingEffect
    <2>2. got' = got /\ calls' = calls
      BY <1>1 DEF EndingEffect
    <2> QED BY <2>1, <2>2 DEF Orderly, NotReceived, Received, Collecting
  <1> QED BY <1>3, <1>4, <1>5 DEF Orderly

\* A broken meeting that somebody comes in to, and nobody leaves it any more.
LEMMA NobodyInside ==
  ASSUME RendezvousFinite, PartyBase, Orderly, NEW t \in Threads, Enters(t), ~intruded', sorvan_
  PROVE  Inside = {} /\ vhozhdeniya_ = 0 /\ otpravleny_ <= 0
  <1>1. Inside = {}
    BY DEF Enters
  <1>2. Cardinality(Inside) = 0 /\ otpravleny_ \in Int
    BY <1>1, Counts DEF PartyBase, RendezvousTypes
  <1> QED BY <1>1, <1>2 DEF Orderly, InsideCounted

LEMMA EnterOverOrderly ==
  ASSUME RendezvousFinite, PartyBase, Orderly, NEW t \in Threads, EnterOver(t), ~intruded'
  PROVE  Orderly'
  <1>1. Enters(t) /\ phase[t] = "entering" /\ UNCHANGED frame
    BY DEF EnterOver, Enters
  <1>2. CASE sorvan_
    <2>1. Inside = {} /\ vhozhdeniya_ = 0 /\ otpravleny_ <= 0 /\ otpravleny_ \in Int
      BY <1>1, <1>2, NobodyInside DEF PartyBase, RendezvousTypes
    <2>2. /\ Depart(t, vhozhdeniya_, otpravleny_, Slots(t), Entered, "broken")
          /\ UNCHANGED <<sorvan_, monitor, met>>
      BY <1>2 DEF EnterOver, Outcome
    <2>3. Ending(t, vhozhdeniya_, otpravleny_, Slots(t), Entered, "broken")
      BY <1>1, <2>1, <2>2, EnteringEnding, SlotsOK DEF PartyBase, RendezvousTypes
    <2>4. otpravleny_ <= 1
      BY <2>1
    <2> QED BY <1>1, <1>2, <2>1, <2>2, <2>3, <2>4, StrayOrderly
  <1>3. CASE ~sorvan_
    <2>1. otpravleny_ >= 1
      BY <1>3 DEF EnterOver, Over
    <2>2. vhozhdeniya_ = uchastniki_
      BY <1>3, <2>1 DEF Orderly, InsideCounted
    <2>3. vhozhdeniya_ < uchastniki_ /\ uchastniki_ \in Nat
      BY <1>1, SlotFree DEF PartyBase, RendezvousTypes
    <2> QED BY <2>2, <2>3
  <1> QED BY <1>2, <1>3

\* A member that leaves a meeting that is over, with or without an item.
LEMMA LeaveOverOrderly ==
  ASSUME RendezvousFinite, PartyBase, Orderly, NEW t \in Threads, LeaveOver(t)
  PROVE  Orderly'
  <1>1. /\ UNCHANGED <<sorvan_, met>> /\ UNCHANGED frame /\ Back(t) /\ Over
        /\ monitor' = Resume(monitor, t)
        /\ Depart(t, index[t], otpravleny_, sloty_, vhozhdeniya_, Outcome)
    BY DEF LeaveOver
  <1>2. Ending(t, index[t], otpravleny_, sloty_, vhozhdeniya_, Outcome) /\ t \in Inside
    <2>1. otpravleny_ \in Int /\ sorvan_' \in BOOLEAN /\ UNCHANGED <<funkciya_, intruded>>
      BY DEF LeaveOver, PartyBase, RendezvousTypes
    <2> QED BY <1>1, <2>1, InsideEnding
  <1>3. EndingEffect(t, index[t], otpravleny_, sloty_, vhozhdeniya_, Outcome)
    BY <1>1, <1>2, EndingDoes
  <1>4. otpravleny_ \in Int /\ vhozhdeniya_ \in Nat
    BY DEF PartyBase, RendezvousTypes
  <1>5. otpravleny_ >= 1 /\ Cardinality(Inside) = otpravleny_ /\ otpravleny_ < vhozhdeniya_
        /\ (~sorvan_ => vhozhdeniya_ = uchastniki_)
    <2>1. CASE otpravleny_ <= 0
      <3>1. sorvan_ /\ Cardinality(Inside) = 0
        BY <1>1, <1>4, <2>1 DEF Over, Orderly, InsideCounted
      <3>2. Inside = {}
        BY <3>1, Counts
      <3> QED BY <1>2, <3>2
    <2>2. CASE otpravleny_ >= 1
      BY <2>2 DEF Orderly, InsideCounted
    <2> QED BY <1>4, <2>1, <2>2
  <1>6. Cardinality(Inside') = otpravleny_ - 1
    BY <1>2, <1>3, <1>5 DEF EndingEffect, One
  <1>7. InsideCounted' /\ CleanSlots'
    BY <1>1, <1>3, <1>4, <1>5, <1>6 DEF InsideCounted, CleanSlots, EndingEffect
  <1>8. \A s \in Inside' : /\ s \in Inside /\ s # t /\ index'[s] = index[s]
                           /\ mine'[s] = mine[s] /\ phase'[s] = phase[s]
    BY <1>3 DEF EndingEffect, Inside
  <1>9. OwnIndexes'
    <2>1. vhozhdeniya_' >= vhozhdeniya_ \/ Inside' = {}
      BY <1>3, <1>4, <1>5, <1>6 DEF EndingEffect
    <2> QED BY <1>3, <1>8, <2>1, RemainingKeep DEF EndingEffect
  <1>10. Collected'
    <2> SUFFICES ASSUME Collecting' PROVE Collected'
      BY DEF Collected
    <2>1. otpravleny_ <= 1
      BY <1>3, <1>4 DEF Collecting, EndingEffect
    <2>2. Inside' = {} /\ vhozhdeniya_' = 0 /\ Indexes' \subseteq Nat
      BY <1>3, <1>4, <1>5, <1>6, <2>1 DEF EndingEffect, Indexes
    <2> QED BY <2>2 DEF Collected
  <1>11. CASE sorvan_
    <2>1. got' = got /\ calls' = calls
      BY <1>3, <1>11 DEF EndingEffect, Outcome
    <2>2. \A s \in Threads : phase'[s] = "entering" => phase[s] = "entering" /\ mine'[s] = mine[s]
      BY <1>3 DEF EndingEffect
    <2>3. NotReceived' /\ Received' /\ Dealt'
      BY <1>1, <1>11, <2>1, <2>2
         DEF Orderly, NotReceived, Received, Collecting, Departing, Dealt
    <2> QED BY <1>7, <1>9, <1>10, <2>3 DEF Orderly
  <1>12. CASE ~sorvan_
    <2> DEFINE x == sloty_[index[t]]
               new == <<mine[t], x>>
    <2>1. got' = got \cup {new} /\ calls' = calls
      BY <1>3, <1>12 DEF EndingEffect, Outcome
    <2>2. /\ \A i, j \in Indexes : sloty_[i] = sloty_[j] => i = j
          /\ Values(sloty_) \in met /\ Values(sloty_) \subseteq 1..calls
          /\ \A s \in Inside : /\ mine[s] \in Values(sloty_)
                               /\ \A p \in got : p[2] # sloty_[index[s]]
      BY <1>5, <1>12 DEF Orderly, Dealt, Departing
    <2>3. \A s \in Inside : index[s] \in Indexes
      BY DEF PartyBase, RendezvousTypes, Inside
    <2>4. x \in Values(sloty_) /\ mine[t] \in Values(sloty_) /\ new[1] = mine[t] /\ new[2] = x
      BY <1>2, <2>2, <2>3 DEF Values
    <2> HIDE DEF new
    <2>5. Received'
      <3>1. Received
        BY DEF Orderly
      <3>2. met' = met /\ \A p \in got : p[2] # x
        BY <1>1, <1>2, <2>2
      <3> QED BY <2>1, <2>2, <2>4, <3>1, <3>2 DEF Received
    <2>6. Dealt'
      <3> SUFFICES ASSUME Departing' PROVE Dealt'
        BY DEF Dealt
      <3>1. sloty_' = sloty_ /\ Indexes' = Indexes /\ Values(sloty_)' = Values(sloty_)
            /\ met' = met
        BY <1>1, <1>3, <1>4 DEF Departing, EndingEffect, Values
      <3>2. \A s \in Inside' : index'[s] = index[s] /\ mine'[s] = mine[s] /\ s \in Inside
                               /\ sloty_[index[s]] # x
        <4>1. \A s \in Inside : s # t => index[s] # index[t]
          BY <1>2 DEF Orderly, OwnIndexes
        <4> QED BY <1>2, <1>8, <2>2, <2>3, <4>1
      <3> QED BY <2>1, <2>2, <2>4, <3>1, <3>2 DEF Dealt
    <2>7. NotReceived'
      <3>1. \A p \in got' : p[2] \in 1..calls
        BY <2>1, <2>2, <2>4 DEF Orderly, NotReceived
      <3>2. \A s \in Threads : phase'[s] # "entering"
        <4>1. ~ \E s \in Threads : phase[s] = "entering"
          <5>1. vhozhdeniya_ = uchastniki_ /\ uchastniki_ \in Nat
            BY <1>5, <1>12 DEF PartyBase, RendezvousTypes
          <5> QED BY <5>1, SlotFree
        <4> QED BY <1>3, <4>1 DEF EndingEffect
      <3>3. ~Collecting' \/ Inside' = {}
        <4>1. Cardinality(Inside') = 0 \/ otpravleny_' >= 1
          BY <1>3, <1>4, <1>6 DEF EndingEffect
        <4> QED BY <1>3, <1>4, <1>6, <4>1 DEF EndingEffect, Collecting
      <3> QED BY <2>1, <3>1, <3>2, <3>3 DEF NotReceived
    <2> QED BY <1>7, <1>9, <1>10, <2>5, <2>6, <2>7 DEF Orderly
  <1> QED BY <1>11, <1>12

\* The slots of a party that is complete: one item of each member.
LEMMA FullSlots ==
  ASSUME RendezvousFinite, PartyBase, Orderly, NEW t \in Threads, phase[t] = "entering",
         Collecting, Entered = uchastniki_
  PROVE  /\ \A i, j \in Indexes : Slots(t)[i] = Slots(t)[j] => i = j
         /\ \A s \in Inside \cup {t} : mine[s] \in Values(Slots(t))
         /\ \A x \in Values(Slots(t)) : \E s \in Inside \cup {t} : x = mine[s]
         /\ Values(Slots(t)) \subseteq 1..calls
         /\ \A p \in got : p[2] \notin Values(Slots(t))
  <1>1. /\ vhozhdeniya_ \in Nat /\ uchastniki_ \in Nat \ {0} /\ vhozhdeniya_ + 1 = uchastniki_
        /\ vhozhdeniya_ \in Indexes
        /\ \A i \in Indexes : i \in Nat /\ (i = vhozhdeniya_ \/ i < vhozhdeniya_)
        /\ sloty_ \in [Indexes -> Nat] /\ index \in [Threads -> Indexes] /\ calls \in Nat
    BY DEF PartyBase, RendezvousTypes, Entered, Indexes
  <1>2. /\ Slots(t)[vhozhdeniya_] = mine[t]
        /\ \A i \in Indexes : i # vhozhdeniya_ => Slots(t)[i] = sloty_[i]
    BY <1>1 DEF Slots
  <1>3. /\ \A s \in Inside : sloty_[index[s]] = mine[s] /\ index[s] < vhozhdeniya_
                             /\ index[s] \in Indexes /\ s \in Threads
        /\ \A i \in Indexes : i < vhozhdeniya_ => \E s \in Inside : index[s] = i
    BY <1>1 DEF Orderly, Collected, OwnIndexes, Inside
  <1>4. \A s \in Inside : Slots(t)[index[s]] = mine[s]
    <2>1. \A s \in Inside : index[s] \in Indexes /\ index[s] # vhozhdeniya_
      BY <1>1, <1>3
    <2> QED BY <1>2, <1>3, <2>1
  <1>5. \A i \in Indexes : i # vhozhdeniya_ => \E s \in Inside : index[s] = i /\ Slots(t)[i] = mine[s]
    BY <1>1, <1>3, <1>4
  <1>6. \A s, u \in Inside \cup {t} : mine[s] = mine[u] => s = u
    BY DEF PartyBase, ItemsOwn, Inside
  <1>7. t \notin Inside
    BY DEF Inside
  <1>8. \A i, j \in Indexes : Slots(t)[i] = Slots(t)[j] => i = j
    <2> TAKE i, j \in Indexes
    <2> HAVE Slots(t)[i] = Slots(t)[j]
    <2>1. CASE i = vhozhdeniya_ /\ j # vhozhdeniya_
      BY <1>2, <1>5, <1>6, <1>7, <2>1
    <2>2. CASE j = vhozhdeniya_ /\ i # vhozhdeniya_
      BY <1>2, <1>5, <1>6, <1>7, <2>2
    <2>3. CASE i # vhozhdeniya_ /\ j # vhozhdeniya_
      BY <1>5, <1>6, <2>3
    <2> QED BY <2>1, <2>2, <2>3
  <1>9. \A s \in Inside \cup {t} : mine[s] \in Values(Slots(t))
    BY <1>1, <1>2, <1>3, <1>4 DEF Values
  <1>10. \A x \in Values(Slots(t)) : \E s \in Inside \cup {t} : x = mine[s]
    BY <1>1, <1>2, <1>5 DEF Values
  <1>11. \A s \in Inside \cup {t} : s \in Threads /\ mine[s] \in 1..calls
    <2>1. \A s \in Inside \cup {t} : s \in Threads /\ phase[s] # "idle"
      BY DEF Inside
    <2> QED BY <1>1, <2>1 DEF PartyBase, ItemsOwn, Empty
  <1>12. \A p \in got : \A s \in Inside \cup {t} : p[2] # mine[s]
    BY <1>11 DEF Orderly, NotReceived
  <1> QED BY <1>8, <1>9, <1>10, <1>11, <1>12

\* The last one arrives, the function runs without an error, and it leaves with
\* its item.
LEMMA PassedOrderly ==
  ASSUME RendezvousFinite, PartyBase, Orderly, NEW t \in Threads, phase[t] = "entering",
         Collecting, Entered = uchastniki_, ~sorvan_', UNCHANGED frame,
         NEW after \in [Indexes -> Nat], Values(after) = Values(Slots(t)),
         \A i, j \in Indexes : after[i] = after[j] => i = j,
         met' = met \cup {Values(after)},
         Ending(t, vhozhdeniya_, Entered, after, Entered, "passed")
  PROVE  Orderly'
  <1>1. EndingEffect(t, vhozhdeniya_, Entered, after, Entered, "passed")
    BY EndingDoes
  <1>2. /\ vhozhdeniya_ \in Nat /\ uchastniki_ \in Nat \ {0} /\ vhozhdeniya_ + 1 = uchastniki_
        /\ vhozhdeniya_ \in Indexes /\ Entered = vhozhdeniya_ + 1 /\ Indexes \subseteq Nat
    BY DEF PartyBase, RendezvousTypes, Entered, Indexes
  <1>3. Inside' = Inside /\ t \notin Inside /\ Cardinality(Inside') = vhozhdeniya_
    <2>1. t \notin Inside /\ Inside' = Inside
      BY <1>1 DEF Inside, EndingEffect
    <2>2. Cardinality(Inside) = vhozhdeniya_
      BY DEF Orderly, InsideCounted, Collecting
    <2> QED BY <2>1, <2>2
  <1>4. \/ /\ vhozhdeniya_ = 0 /\ Inside' = {} /\ otpravleny_' = 0 /\ vhozhdeniya_' = 0
           /\ sloty_' = NoItems'
        \/ /\ vhozhdeniya_ >= 1 /\ otpravleny_' = vhozhdeniya_ /\ sloty_' = after
           /\ vhozhdeniya_' = vhozhdeniya_ + 1
    BY <1>1, <1>2, <1>3 DEF EndingEffect
  <1>5. uchastniki_' = uchastniki_ /\ Indexes' = Indexes /\ calls' = calls
    BY <1>1 DEF EndingEffect
  <1>6. InsideCounted' /\ CleanSlots'
    <2> DEFINE c == Cardinality(Inside')
               o == otpravleny_'
               v == vhozhdeniya_'
               u == uchastniki_'
    <2>1. /\ c = vhozhdeniya_ /\ u = vhozhdeniya_ + 1 /\ vhozhdeniya_ \in Nat
          /\ \/ vhozhdeniya_ = 0 /\ o = 0 /\ v = 0
             \/ vhozhdeniya_ >= 1 /\ o = vhozhdeniya_ /\ v = vhozhdeniya_ + 1
      BY <1>2, <1>3, <1>4, <1>5
    <2> HIDE DEF c, o, v, u
    <2>2. /\ o <= 0 => c = v /\ v = 0
          /\ o >= 1 => c = o /\ o < v /\ v = u
      BY <2>1
    <2>3. CleanSlots'
      BY <1>2, <1>4 DEF CleanSlots
    <2> QED BY <2>2, <2>3 DEF InsideCounted, c, o, v, u
  <1>7. \A s \in Inside' : index'[s] = index[s] /\ mine'[s] = mine[s]
    BY <1>1, <1>3 DEF Inside, EndingEffect
  <1>8. OwnIndexes'
    <2>1. vhozhdeniya_' >= vhozhdeniya_ \/ Inside' = {}
      BY <1>2, <1>4
    <2> QED BY <1>1, <1>3, <1>7, <2>1, RemainingKeep DEF EndingEffect
  <1>9. ASSUME Collecting' PROVE Inside' = {} /\ vhozhdeniya_' = 0
    BY <1>2, <1>4, <1>9 DEF Collecting
  <1>10. Collected'
    BY <1>2, <1>5, <1>9 DEF Collected
  <1> DEFINE V == Values(after)
             x == after[vhozhdeniya_]
             new == <<mine[t], x>>
  <1>11. /\ \A s \in Inside \cup {t} : mine[s] \in V
         /\ \A y \in V : \E s \in Inside \cup {t} : y = mine[s]
         /\ V \subseteq 1..calls
         /\ \A p \in got : p[2] \notin V
    BY FullSlots
  <1>12. got' = got \cup {new} /\ new[1] = mine[t] /\ new[2] = x /\ x \in V /\ mine[t] \in V
    BY <1>1, <1>2, <1>11 DEF EndingEffect, Values
  <1>13. \A i \in Indexes : after[i] \in V
    BY DEF Values
  <1>14. V \in met' /\ met \subseteq met'
    OBVIOUS
  <1>15. Dealt'
    <2> SUFFICES ASSUME Departing' PROVE Dealt'
      BY DEF Dealt
    <2>1. sloty_' = after
      BY <1>4 DEF Departing
    <2>2. Values(sloty_)' = V
      BY <1>5, <2>1 DEF Values
    <2>3. \A s \in Inside : index[s] \in Indexes /\ index[s] # vhozhdeniya_
      BY <1>2 DEF Orderly, OwnIndexes, Inside, PartyBase, RendezvousTypes
    <2> HIDE DEF V, x, new
    <2>4. \A s \in Inside' : \A p \in got' : p[2] # after[index'[s]]
      <3> TAKE s \in Inside'
      <3> TAKE p \in got'
      <3>1. s \in Inside /\ index'[s] = index[s] /\ after[index[s]] \in V
        BY <1>3, <1>7, <1>13, <2>3
      <3>2. after[index[s]] # x
        BY <1>2, <2>3, <3>1 DEF x
      <3> QED BY <1>11, <1>12, <3>1, <3>2
    <2>5. \A s \in Inside' : mine'[s] \in V
      BY <1>3, <1>7, <1>11
    <2> QED BY <1>5, <1>11, <1>14, <2>1, <2>2, <2>4, <2>5 DEF Dealt
  <1> HIDE DEF V, x, new
  <1>16. NotReceived'
    <2>1. \A p \in got' : p[2] \in 1..calls
      BY <1>11, <1>12 DEF Orderly, NotReceived
    <2>2. \A s \in Threads : phase'[s] = "entering" =>
             phase[s] = "entering" /\ s # t /\ mine'[s] = mine[s]
      BY <1>1 DEF EndingEffect
    <2>3. \A s \in Threads : phase[s] = "entering" /\ s # t => mine[s] \notin V
      <3>1. \A s \in Threads : phase[s] = "entering" => s \notin Inside
        BY DEF Inside
      <3>2. Inside \subseteq Threads
        BY DEF Inside
      <3> QED BY <1>11, <3>1, <3>2 DEF PartyBase, ItemsOwn
    <2>4. \A p \in got : \A s \in Threads : phase[s] = "entering" => p[2] # mine[s]
      BY DEF Orderly, NotReceived
    <2>5. \A p \in got' : \A s \in Threads : phase'[s] = "entering" => p[2] # mine'[s]
      BY <1>12, <2>2, <2>3, <2>4
    <2> QED BY <1>5, <1>9, <2>1, <2>5 DEF NotReceived
  <1>17. Received'
    BY <1>11, <1>12, <1>14 DEF Orderly, Received
  <1> QED BY <1>6, <1>8, <1>10, <1>15, <1>16, <1>17 DEF Orderly

LEMMA CompleteOrderly ==
  ASSUME RendezvousFinite, PartyBase, Orderly, NEW t \in Threads, Complete(t), ~intruded'
  PROVE  Orderly'
  <1> DEFINE runs == ~sorvan_ /\ funkciya_ # "none"
             after == IF runs /\ funkciya_ = "rotates" THEN Rotated(Slots(t)) ELSE Slots(t)
             how == IF sorvan_' THEN "broken" ELSE "passed"
  <1>1. /\ Enters(t) /\ Entered = uchastniki_ /\ monitor' = UvedomiVseh(monitor)
        /\ sorvan_' = (sorvan_ \/ (runs /\ funkciya_ = "throws"))
        /\ met' = IF sorvan_' THEN met ELSE met \cup {Values(after)}
        /\ Depart(t, vhozhdeniya_, Entered, after, Entered, how)
    BY DEF Complete, Values
  <1>2. /\ uchastniki_ \in Nat \ {0} /\ Slots(t) \in [Indexes -> Nat] /\ vhozhdeniya_ \in Nat
        /\ sorvan_ \in BOOLEAN /\ Entered \in Int /\ otpravleny_ \in Int
    BY SlotsOK DEF PartyBase, RendezvousTypes, Entered
  <1>3. /\ after \in [Indexes -> Nat] /\ Values(after) = Values(Slots(t))
        /\ (\A i, j \in Indexes : Slots(t)[i] = Slots(t)[j] => i = j)
             => \A i, j \in Indexes : after[i] = after[j] => i = j
    BY <1>2, RotatedIs
  <1>4. sorvan_' \in BOOLEAN
    BY <1>1, <1>2
  <1> HIDE DEF after, runs
  <1>5. Ending(t, vhozhdeniya_, Entered, after, Entered, how)
    BY <1>1, <1>2, <1>3, <1>4, EnteringEnding
  <1>6. phase[t] = "entering" /\ UNCHANGED frame
    BY <1>1 DEF Enters
  <1>7. CASE sorvan_
    <2>1. Inside = {} /\ vhozhdeniya_ = 0
      BY <1>1, <1>7, NobodyInside
    <2>2. sorvan_'
      BY <1>1, <1>7
    <2>3. Entered <= 1 /\ met' = met /\ how = "broken"
      BY <1>1, <2>1, <2>2 DEF Entered
    <2>4. Ending(t, vhozhdeniya_, Entered, after, Entered, "broken")
      BY <1>5, <2>3
    <2> QED BY <1>2, <1>6, <1>7, <2>1, <2>2, <2>3, <2>4, StrayOrderly
  <1>8. CASE ~sorvan_
    <2>1. Collecting /\ ~Over
      <3>1. vhozhdeniya_ # uchastniki_
        BY <1>6, SlotFree, <1>2
      <3> QED BY <1>2, <1>8, <3>1 DEF Orderly, InsideCounted, Collecting, Over
    <2>2. CASE sorvan_'
      <3>1. met' = met /\ how = "broken"
        BY <1>1, <2>2
      <3> QED BY <1>5, <1>6, <2>1, <2>2, <3>1, BreakOrderly
    <2>3. CASE ~sorvan_'
      <3>1. met' = met \cup {Values(after)} /\ how = "passed"
        BY <1>1, <2>3
      <3>2. \A i, j \in Indexes : after[i] = after[j] => i = j
        BY <1>1, <1>3, <1>6, <2>1, FullSlots
      <3> QED BY <1>1, <1>3, <1>5, <1>6, <2>1, <2>3, <3>1, <3>2, PassedOrderly
    <2> QED BY <2>2, <2>3
  <1> QED BY <1>7, <1>8

LEMMA EnterWaitOrderly ==
  ASSUME RendezvousFinite, PartyBase, Orderly, NEW t \in Threads, NEW how \in {"meet", "attempt"},
         EnterWait(t, how)
  PROVE  Orderly'
  <1>1. /\ vhozhdeniya_ \in Nat /\ vhozhdeniya_ \in Indexes /\ uchastniki_ \in Nat \ {0}
        /\ otpravleny_ \in Int /\ Indexes \subseteq Nat
        /\ index \in [Threads -> Indexes] /\ sloty_ \in [Indexes -> Nat]
        /\ phase \in [Threads -> Busy \cup {"idle"}]
    <2>1. phase[t] = "entering"
      BY DEF EnterWait, Enters
    <2>2. vhozhdeniya_ \in Indexes
      BY <2>1, SlotFree
    <2>3. Indexes \subseteq Nat
      BY DEF Indexes, PartyBase, RendezvousTypes
    <2> QED BY <2>2, <2>3 DEF PartyBase, RendezvousTypes
  <1>2. Collecting /\ phase[t] = "entering" /\ t \notin Inside
    <2>1. ~Over /\ phase[t] = "entering"
      BY DEF EnterWait, Enters
    <2>2. Collecting
      BY <1>1, <2>1 DEF Over, Collecting
    <2> QED BY <2>1, <2>2 DEF Inside
  <1>3. /\ vhozhdeniya_' = vhozhdeniya_ + 1 /\ sloty_' = Slots(t)
        /\ index' = [index EXCEPT ![t] = vhozhdeniya_]
        /\ phase' = [phase EXCEPT ![t] = how]
        /\ UNCHANGED <<sorvan_, otpravleny_, mine, met, got, uchastniki_, calls>>
        /\ Indexes' = Indexes
    BY DEF EnterWait, Enters, Entered, frame, Indexes
  <1>4. Inside' = Inside \cup {t} /\ Collecting' /\ ~Departing' /\ otpravleny_ <= 0
    <2>1. Inside' = Inside \cup {t}
      BY <1>1, <1>3 DEF Inside
    <2>2. Collecting' /\ ~Departing'
      BY <1>1, <1>2, <1>3 DEF Collecting, Departing
    <2> QED BY <1>2, <2>1, <2>2 DEF Collecting
  <1>5. InsideCounted' /\ CleanSlots'
    <2>1. Cardinality(Inside') = vhozhdeniya_ + 1
      <3>1. /\ Cardinality(Inside') + One(phase[t] \in {"meet", "attempt"})
                 = Cardinality(Inside) + One(how \in {"meet", "attempt"})
            /\ Cardinality(Inside') \in Nat
        BY <1>1, <1>3, CountsMove DEF Busy
      <3>2. One(phase[t] \in {"meet", "attempt"}) = 0 /\ One(how \in {"meet", "attempt"}) = 1
        BY <1>2 DEF One
      <3>3. Cardinality(Inside) = vhozhdeniya_
        BY <1>4 DEF Orderly, InsideCounted
      <3> DEFINE c == Cardinality(Inside')
      <3>4. c + 0 = vhozhdeniya_ + 1 /\ c \in Nat
        BY <3>1, <3>2, <3>3
      <3> HIDE DEF c
      <3>5. c = vhozhdeniya_ + 1
        BY <3>4
      <3> QED BY <3>5 DEF c
    <2>2. ~sorvan_' /\ otpravleny_' <= 0 /\ ~(otpravleny_' >= 1)
      BY <1>1, <1>2, <1>3, <1>4 DEF Collecting
    <2> QED BY <1>1, <1>3, <2>1, <2>2 DEF InsideCounted, CleanSlots
  <1>6. \A s \in Inside : /\ s \in Threads /\ s # t /\ index'[s] = index[s]
                          /\ index[s] \in Indexes /\ index[s] < vhozhdeniya_
    BY <1>1, <1>2, <1>3 DEF Orderly, OwnIndexes, Inside
  <1>7. index'[t] = vhozhdeniya_
    BY <1>1, <1>3
  <1>8. OwnIndexes'
    <2>1. \A s \in Inside' : index'[s] < vhozhdeniya_ + 1
      <3>1. vhozhdeniya_ < vhozhdeniya_ + 1 /\ \A i \in Indexes : i < vhozhdeniya_ => i < vhozhdeniya_ + 1
        BY <1>1
      <3>2. \A s \in Inside : index'[s] < vhozhdeniya_ + 1
        BY <1>6, <3>1
      <3> QED BY <1>4, <1>7, <3>1, <3>2
    <2>2. \A s, u \in Inside : index'[s] = index'[u] => s = u
      BY <1>6 DEF Orderly, OwnIndexes
    <2>3. \A s \in Inside : index'[s] # index'[t]
      BY <1>1, <1>6, <1>7
    <2> QED BY <1>3, <1>4, <2>1, <2>2, <2>3 DEF OwnIndexes
  <1>9. Collected'
    <2>1. Slots(t)[vhozhdeniya_] = mine[t] /\ \A i \in Indexes : i # vhozhdeniya_ => Slots(t)[i] = sloty_[i]
      BY <1>1 DEF Slots
    <2>2. \A s \in Inside : index[s] # vhozhdeniya_ /\ sloty_[index[s]] = mine[s]
      BY <1>1, <1>2, <1>6 DEF Orderly, Collected
    <2>3. \A s \in Inside' : sloty_'[index'[s]] = mine'[s]
      BY <1>3, <1>4, <1>6, <1>7, <2>1, <2>2
    <2>4. \A i \in Indexes : i < vhozhdeniya_ => \E s \in Inside : index[s] = i
      BY <1>2 DEF Orderly, Collected
    <2>5. \A i \in Indexes : i < vhozhdeniya_ + 1 => i < vhozhdeniya_ \/ i = vhozhdeniya_
      BY <1>1
    <2>6. \A i \in Indexes' : i < vhozhdeniya_' => \E s \in Inside' : index'[s] = i
      BY <1>3, <1>4, <1>6, <1>7, <2>4, <2>5
    <2> QED BY <2>3, <2>6 DEF Collected
  <1>10. Dealt'
    BY <1>4 DEF Dealt
  <1>11. NotReceived' /\ Received'
    <2>1. \A s \in Threads : phase'[s] = "entering" => phase[s] = "entering"
      BY <1>1, <1>3
    <2> QED BY <1>2, <1>3, <1>4, <2>1 DEF Orderly, NotReceived, Received
  <1> QED BY <1>5, <1>8, <1>9, <1>10, <1>11 DEF Orderly

LEMMA PassGateOrderly ==
  ASSUME RendezvousFinite, PartyBase, Orderly, NEW t \in Threads, PassGate(t)
  PROVE  Orderly'
  <1>1. /\ phase[t] = "idle" /\ calls \in Nat /\ mine \in [Threads -> Nat]
        /\ phase \in [Threads -> Busy \cup {"idle"}]
    BY DEF PassGate, PartyBase, RendezvousTypes
  <1>2. /\ calls' = calls + 1 /\ mine' = [mine EXCEPT ![t] = calls + 1]
        /\ phase' = [phase EXCEPT ![t] = "entering"]
        /\ UNCHANGED <<uchastniki_, sorvan_, vhozhdeniya_, otpravleny_, sloty_, index, met, got>>
    BY DEF PassGate
  <1>3. /\ Inside' = Inside /\ t \notin Inside /\ Inside \subseteq Threads
        /\ Indexes' = Indexes /\ NoItems' = NoItems
        /\ Collecting' = Collecting /\ Departing' = Departing /\ Values(sloty_)' = Values(sloty_)
    BY <1>1, <1>2 DEF Inside, Indexes, NoItems, Collecting, Departing, Values
  <1>4. InsideCounted' /\ OwnIndexes' /\ CleanSlots'
    BY <1>2, <1>3 DEF Orderly, InsideCounted, OwnIndexes, CleanSlots
  <1>5. \A s \in Threads : s # t => mine'[s] = mine[s] /\ phase'[s] = phase[s]
    BY <1>1, <1>2
  <1>6. Collected'
    BY <1>2, <1>3, <1>5 DEF Orderly, Collected
  <1>7. \A x \in 1..calls : x \in 1..(calls + 1) /\ x # calls + 1
    BY <1>1
  <1>8. Dealt'
    <2> SUFFICES ASSUME Departing PROVE Dealt'
      BY <1>3 DEF Dealt
    <2>1. Values(sloty_) \subseteq 1..calls'
      BY <1>2, <1>7 DEF Orderly, Dealt
    <2>2. \A s \in Inside : mine'[s] = mine[s]
      BY <1>3, <1>5
    <2> QED BY <1>2, <1>3, <2>1, <2>2 DEF Orderly, Dealt
  <1>9. NotReceived'
    <2>1. mine'[t] = calls + 1
      BY <1>1, <1>2
    <2>2. \A p \in got : p[2] \in 1..calls
      BY DEF Orderly, NotReceived
    <2>3. \A p \in got' : p[2] \in 1..calls' /\ p[2] # mine'[t]
      BY <1>2, <1>7, <2>1, <2>2
    <2>4. \A p \in got : \A s \in Threads :
             s # t /\ (phase[s] = "entering" \/ (Collecting /\ s \in Inside)) => p[2] # mine[s]
      BY DEF Orderly, NotReceived
    <2> QED BY <1>2, <1>3, <1>5, <2>3, <2>4 DEF NotReceived
  <1>10. Received'
    BY <1>2 DEF Orderly, Received
  <1> QED BY <1>4, <1>6, <1>8, <1>9, <1>10 DEF Orderly

LEMMA QuietOrderly ==
  ASSUME RendezvousFinite, PartyBase, Orderly, NEW t \in Threads, Quiet(t)
  PROVE  Orderly'
  <1>1. /\ UNCHANGED <<uchastniki_, calls, vorota_, vhozhdeniya_, otpravleny_, sloty_,
                       phase, index, mine, got, met>>
        /\ sorvan_' = sorvan_ \/ (vhozhdeniya_ = 0 /\ ~sorvan_')
    BY DEF Quiet, WaitAgain, Restart, SetFunction, RendezvousKernelStep, rendezvous, threadVars, frame
  <1>2. Inside' = Inside /\ Indexes' = Indexes /\ NoItems' = NoItems /\ Values(sloty_)' = Values(sloty_)
    BY <1>1 DEF Inside, Indexes, NoItems, Values
  <1>3. OwnIndexes' /\ CleanSlots' /\ Received'
    BY <1>1, <1>2 DEF Orderly, OwnIndexes, CleanSlots, Received
  <1>4. CASE sorvan_' = sorvan_
    <2>1. Collecting' = Collecting /\ Departing' = Departing
      BY <1>1, <1>4 DEF Collecting, Departing
    <2>2. InsideCounted' /\ Collected' /\ Dealt' /\ NotReceived'
      BY <1>1, <1>2, <1>4, <2>1 DEF Orderly, InsideCounted, Collected, Dealt, NotReceived
    <2> QED BY <1>3, <2>2 DEF Orderly
  <1>5. CASE vhozhdeniya_ = 0 /\ ~sorvan_'
    <2>1. otpravleny_ <= 0 /\ ~(otpravleny_ >= 1) /\ Cardinality(Inside) = 0
      <3>1. otpravleny_ \in Int /\ Cardinality(Inside) \in Nat
        BY Counts DEF PartyBase, RendezvousTypes
      <3> QED BY <1>5, <3>1 DEF Orderly, InsideCounted
    <2>2. Inside = {}
      BY <2>1, Counts
    <2>3. InsideCounted'
      BY <1>1, <1>2, <1>5, <2>1 DEF InsideCounted
    <2>4. Collected'
      BY <1>1, <1>2, <1>5, <2>2 DEF Collected, Indexes
    <2>5. Dealt' /\ NotReceived'
      BY <1>1, <1>2, <2>1, <2>2 DEF Orderly, Dealt, NotReceived, Departing
    <2> QED BY <1>3, <2>3, <2>4, <2>5 DEF Orderly
  <1> QED BY <1>1, <1>4, <1>5

\* A call that breaks the rendezvous, from where it waits and from its way in.
LEMMA BreakKeeps ==
  ASSUME RendezvousFinite, PartyBase, NEW t \in Threads,
         EnterTimeless(t) \/ TimesOut(t) \/ WaitFails(t)
  PROVE  PartyBase' /\ (Orderly => Orderly') /\ intruded' = intruded
  <1>1. ~Over /\ sorvan_' /\ sorvan_' = TRUE /\ met' = met /\ UNCHANGED frame
    BY DEF EnterTimeless, TimesOut, WaitFails, Break, Enters
  <1>2. CASE EnterTimeless(t)
    <2>1. /\ Enters(t) /\ monitor' = UvedomiVseh(monitor)
          /\ Depart(t, vhozhdeniya_, Entered, Slots(t), Entered, "failed")
      BY <1>2 DEF EnterTimeless, Break
    <2>2. Entered \in Int /\ Slots(t) \in [Indexes -> Nat] /\ sorvan_' \in BOOLEAN
      BY <1>1, SlotsOK DEF PartyBase, RendezvousTypes, Entered
    <2>3. Ending(t, vhozhdeniya_, Entered, Slots(t), Entered, "failed") /\ phase[t] = "entering"
      BY <2>1, <2>2, EnteringEnding
    <2>4. PartyBase'
      BY <2>3 DEF Ending
    <2>5. Orderly => Orderly'
      BY <1>1, <2>3, BreakOrderly
    <2>6. intruded' = intruded
      BY <1>1, <2>1 DEF Enters, Over, PartyBase, RendezvousTypes
    <2> QED BY <2>4, <2>5, <2>6
  <1>3. CASE TimesOut(t) \/ WaitFails(t)
    <2>1. /\ Back(t) /\ monitor' = UvedomiVseh(Resume(monitor, t))
          /\ Depart(t, index[t], vhozhdeniya_, sloty_, vhozhdeniya_, "failed")
          /\ UNCHANGED <<funkciya_, intruded>>
      BY <1>3 DEF TimesOut, WaitFails, Break, Back
    <2>2. vhozhdeniya_ \in Int /\ sorvan_' \in BOOLEAN
      BY <1>1 DEF PartyBase, RendezvousTypes
    <2>3. Ending(t, index[t], vhozhdeniya_, sloty_, vhozhdeniya_, "failed") /\ t \in Inside
      BY <1>1, <2>1, <2>2, InsideEnding
    <2>4. PartyBase'
      BY <2>3 DEF Ending
    <2>5. Orderly => Orderly'
      BY <1>1, <2>3, BreakOrderly
    <2> QED BY <2>1, <2>4, <2>5
  <1> QED BY <1>2, <1>3

\* The last arrival, and a member that finds the loop over: the types and the
\* balance, whoever has intruded.
LEMMA OverBase ==
  ASSUME RendezvousFinite, PartyBase, NEW t \in Threads,
         Complete(t) \/ EnterOver(t) \/ LeaveOver(t)
  PROVE  PartyBase'
  <1>1. /\ Entered \in Int /\ Slots(t) \in [Indexes -> Nat] /\ sorvan_ \in BOOLEAN
        /\ otpravleny_ \in Int
    BY SlotsOK DEF PartyBase, RendezvousTypes, Entered
  <1>2. CASE Complete(t)
    <2> DEFINE runs == ~sorvan_ /\ funkciya_ # "none"
               after == IF runs /\ funkciya_ = "rotates" THEN Rotated(Slots(t)) ELSE Slots(t)
               how == IF sorvan_' THEN "broken" ELSE "passed"
    <2>1. /\ Enters(t) /\ monitor' = UvedomiVseh(monitor)
          /\ sorvan_' = (sorvan_ \/ (runs /\ funkciya_ = "throws"))
          /\ Depart(t, vhozhdeniya_, Entered, after, Entered, how)
      BY <1>2 DEF Complete
    <2>2. after \in [Indexes -> Nat]
      BY <1>1, RotatedIs DEF PartyBase, RendezvousTypes
    <2>3. sorvan_' \in BOOLEAN
      BY <1>1, <2>1
    <2> HIDE DEF after, how, runs
    <2>4. Ending(t, vhozhdeniya_, Entered, after, Entered, how)
      BY <1>1, <2>1, <2>2, <2>3, EnteringEnding
    <2> QED BY <2>4 DEF Ending
  <1>3. CASE EnterOver(t)
    <2>1. /\ Enters(t) /\ monitor' = monitor /\ sorvan_' \in BOOLEAN
          /\ Depart(t, vhozhdeniya_, otpravleny_, Slots(t), Entered, Outcome)
      BY <1>1, <1>3 DEF EnterOver
    <2>2. Ending(t, vhozhdeniya_, otpravleny_, Slots(t), Entered, Outcome)
      BY <1>1, <2>1, EnteringEnding
    <2> QED BY <2>2 DEF Ending
  <1>4. CASE LeaveOver(t)
    <2>1. /\ Back(t) /\ monitor' = Resume(monitor, t) /\ sorvan_' \in BOOLEAN
          /\ Depart(t, index[t], otpravleny_, sloty_, vhozhdeniya_, Outcome)
          /\ UNCHANGED <<funkciya_, intruded>> /\ UNCHANGED frame
      BY <1>1, <1>4 DEF LeaveOver
    <2>2. Ending(t, index[t], otpravleny_, sloty_, vhozhdeniya_, Outcome)
      BY <1>1, <2>1, InsideEnding
    <2> QED BY <2>2 DEF Ending
  <1> QED BY <1>2, <1>3, <1>4

\* Nothing forgets that somebody has intruded.
LEMMA RendezvousStep ==
  ASSUME RendezvousFinite, PartyInvariant, RendezvousNext
  PROVE  PartyInvariant'
  <1>1. PartyBase /\ (~intruded => Orderly) /\ intruded \in BOOLEAN
    BY DEF PartyInvariant, PartyBase, RendezvousTypes
  <1> SUFFICES PartyBase' /\ (~intruded' => Orderly')
    BY DEF PartyInvariant
  <1>2. PICK t \in Threads :
          \/ PassGate(t) \/ Complete(t) \/ EnterOver(t)
          \/ EnterWait(t, "meet") \/ EnterWait(t, "attempt") \/ EnterTimeless(t)
          \/ LeaveOver(t) \/ TimesOut(t) \/ WaitFails(t) \/ WaitAgain(t)
          \/ Restart(t) \/ SetFunction(t) \/ RendezvousKernelStep(t)
    BY DEF RendezvousNext
  <1>3. CASE PassGate(t)
    <2>1. intruded' = intruded
      BY <1>3 DEF PassGate
    <2> QED BY <1>1, <1>3, <2>1, PassGateBase, PassGateOrderly
  <1>4. CASE Complete(t) \/ EnterOver(t)
    <2>1. ~intruded' => ~intruded
      BY <1>4 DEF Complete, EnterOver, Enters
    <2> QED BY <1>1, <1>4, <2>1, OverBase, CompleteOrderly, EnterOverOrderly
  <1>5. CASE EnterWait(t, "meet") \/ EnterWait(t, "attempt")
    <2>1. ~intruded' => ~intruded
      BY <1>5 DEF EnterWait, Enters
    <2> QED BY <1>1, <1>5, <2>1, EnterWaitBase, EnterWaitOrderly
  <1>6. CASE EnterTimeless(t) \/ TimesOut(t) \/ WaitFails(t)
    BY <1>1, <1>6, BreakKeeps
  <1>7. CASE LeaveOver(t)
    <2>1. intruded' = intruded
      BY <1>7 DEF LeaveOver
    <2> QED BY <1>1, <1>7, <2>1, OverBase, LeaveOverOrderly
  <1>8. CASE Quiet(t)
    <2>1. intruded' = intruded
      BY <1>8 DEF Quiet, WaitAgain, Restart, SetFunction, RendezvousKernelStep
    <2> QED BY <1>1, <1>8, <2>1, QuietBase, QuietOrderly
  <1> QED BY <1>2, <1>3, <1>4, <1>5, <1>6, <1>7, <1>8 DEF Quiet

LEMMA RendezvousStutters ==
  ASSUME PartyInvariant, UNCHANGED rendezvousVars
  PROVE  PartyInvariant'
  <1>1. /\ UNCHANGED <<uchastniki_, funkciya_, vorota_, sorvan_, vhozhdeniya_, otpravleny_>>
        /\ UNCHANGED <<sloty_, monitor, phase, index, mine, calls, met, got, intruded>>
    BY DEF rendezvousVars
  <1>2. Inside' = Inside /\ Entering' = Entering /\ Indexes' = Indexes /\ NoItems' = NoItems
        /\ Values(sloty_)' = Values(sloty_)
    BY <1>1 DEF Inside, Entering, Indexes, NoItems, Values
  <1>3. PartyBase'
    BY <1>1, <1>2 DEF PartyInvariant, PartyBase, RendezvousTypes, RendezvousParked, GateBalanced,
       ItemsOwn
  <1>4. (~intruded => Orderly)'
    <2> SUFFICES ASSUME Orderly PROVE Orderly'
      BY <1>1 DEF PartyInvariant
    <2>1. Collecting' = Collecting /\ Departing' = Departing
      BY <1>1 DEF Collecting, Departing
    <2>2. InsideCounted' /\ OwnIndexes' /\ CleanSlots' /\ Received'
      BY <1>1, <1>2 DEF Orderly, InsideCounted, OwnIndexes, CleanSlots, Received
    <2>3. Collected' /\ Dealt' /\ NotReceived'
      BY <1>1, <1>2, <2>1 DEF Orderly, Collected, Dealt, NotReceived
    <2> QED BY <2>2, <2>3 DEF Orderly
  <1> QED BY <1>3, <1>4 DEF PartyInvariant

\* The inductive invariant of the rendezvous: what its monitor and its gate keep
\* together between any two steps.
THEOREM PartyKept == ASSUME RendezvousFinite PROVE RendezvousSpec => []PartyInvariant
  <1>1. RendezvousInit => PartyInvariant
    BY RendezvousStarts
  <1>2. PartyInvariant /\ [RendezvousNext]_rendezvousVars => PartyInvariant'
    BY RendezvousStep, RendezvousStutters
  <1> QED BY <1>1, <1>2, PTL DEF RendezvousSpec

\* The gate lets in a party and no more (Рандеву: ворота_ and the `finally`
\* clauses), however many meetings are broken, timed out or restarted.
THEOREM GateStaysBalanced == ASSUME RendezvousFinite PROVE RendezvousSpec => []GateBalanced
  <1>1. PartyInvariant => GateBalanced
    BY DEF PartyInvariant, PartyBase
  <1> QED BY <1>1, PartyKept, PTL

\* Who returns normally has received an item of its meeting, and nobody else
\* has received it (Рандеву: the slots, the function, and the index each
\* member keeps).
THEOREM ItemsExchanged == ASSUME RendezvousFinite PROVE RendezvousSpec => []Exchanged
  <1>1. PartyInvariant => Exchanged
    BY DEF PartyInvariant, Orderly, Received, Exchanged
  <1> QED BY <1>1, PartyKept, PTL

\* When nobody is inside the slots are empty and no entry is counted
\* (Рандеву: the `finally` clause of the last to depart).
THEOREM LastCleansUp == ASSUME RendezvousFinite PROVE RendezvousSpec => []LastOutCleansUp
  <1>1. PartyInvariant => LastOutCleansUp
    <2> SUFFICES ASSUME PartyInvariant, ~intruded, Inside = {}
                 PROVE  vhozhdeniya_ = 0 /\ sloty_ = NoItems
      BY DEF LastOutCleansUp
    <2>1. InsideCounted /\ CleanSlots /\ otpravleny_ \in Int
      BY DEF PartyInvariant, PartyBase, RendezvousTypes, Orderly
    <2>2. Cardinality(Inside) = 0
      BY Counts
    <2> QED BY <2>1, <2>2 DEF InsideCounted, CleanSlots
  <1> QED BY <1>1, PartyKept, PTL
------------------------------------------------------------------------------
SyncFinite == IsFiniteSet(Threads) /\ IsFiniteSet(Nodes)

SyncTypes ==
  /\ queues \in [Sides -> Seq(Nodes)]
  /\ cut \subseteq Nodes /\ full \subseteq Nodes /\ otmenyon \subseteq Nodes
  /\ waits = [t \in Threads |-> waits[t]] /\ \A t \in Threads : WaitSetOK(waits[t], {t})
  /\ call \in [Threads -> Calls \cup {NoCall}]
  /\ place \in [Threads -> {"idle", "start", "meet", "own", "wait"}]
  /\ node \in [Threads -> Nodes \cup {NoNode}]
  /\ balance \in Int /\ failedTakes \in Nat

\* What a thread has at each place.
SyncPlaces ==
  \A t \in Threads :
    /\ call[t] = NoCall <=> place[t] = "idle"
    /\ node[t] = NoNode <=> place[t] \in {"idle", "start"}
    /\ waits[t].at[t] = "running" <=> place[t] # "wait"

Queued(s) == ToSet(queues[s])
InHand == {t \in Threads : place[t] = "meet"}

\* A node is queued once or is in one partner's hands, and has one owner.
NodesOwned ==
  /\ \A s \in Sides : IsInjective(queues[s])
  /\ \E s \in Sides : queues[s] = <<>>
  /\ \A t, u \in Threads :
       t # u /\ node[t] = node[u] /\ node[t] # NoNode => (t \in InHand <=> u \in AtOwn)
  /\ \A t \in InHand : \A s \in Sides : node[t] \notin Queued(s)

\* A node of that side whose owner, unless it has left, still waits for a
\* partner.
Unmet(n, s) ==
  /\ \A u \in Owners(n) : Side(call[u]) = s /\ ~Settled(u)
  /\ s = "put" /\ Owners(n) = {} => n \in otmenyon

NodesUnmet ==
  /\ \A s \in Sides : \A n \in Queued(s) : Unmet(n, s)
  /\ \A t \in InHand : Unmet(node[t], OtherSide(call[t]))
  /\ \A t \in AtOwn : node[t] \notin otmenyon

\* The slots of takes that have failed, where an item will be lost.
Stray ==
  {n \in Nodes : /\ n \notin otmenyon /\ Owners(n) = {}
                 /\ \/ n \in Queued("take")
                    \/ \E t \in InHand : node[t] = n /\ Side(call[t]) = "put"}

Lost == balance - Outstanding

LossesCounted == Lost \in Nat /\ Lost + Cardinality(Stray) <= failedTakes

Findable ==
  /\ failedTakes = 0 =>
       /\ cut = {}
       /\ \A t \in AtOwn :
            Settled(t) \/ node[t] \in Queued(Side(call[t]))
              \/ \E u \in InHand : node[u] = node[t]
  /\ \A t \in AtOwn : Settled(t) /\ t \in Asleep(waits[t]) => Alert(waits[t])

SyncInvariant ==
  SyncTypes /\ SyncPlaces /\ NodesOwned /\ NodesUnmet /\ LossesCounted /\ Findable

\* A step of thread t that leaves it there.
Moved(t, c, p, n) ==
  /\ t \in Threads /\ c \in Calls \cup {NoCall} /\ n \in Nodes \cup {NoNode}
  /\ p \in {"idle", "start", "meet", "own", "wait"}
  /\ call' \in [Threads -> Calls \cup {NoCall}]
  /\ place' \in [Threads -> {"idle", "start", "meet", "own", "wait"}]
  /\ node' \in [Threads -> Nodes \cup {NoNode}]
  /\ call'[t] = c /\ place'[t] = p /\ node'[t] = n
  /\ \A u \in Threads : u # t => call'[u] = call[u] /\ place'[u] = place[u] /\ node'[u] = node[u]

LEMMA MoveIs ==
  ASSUME SyncTypes, NEW t \in Threads, NEW c \in Calls \cup {NoCall},
         NEW p \in {"idle", "start", "meet", "own", "wait"}, NEW n \in Nodes \cup {NoNode},
         Move(t, c, p, n)
  PROVE  Moved(t, c, p, n)
  BY DEF Move, Moved, SyncTypes

LEMMA LeaveIs ==
  ASSUME SyncTypes, NEW t \in Threads, Leave(t)
  PROVE  Moved(t, NoCall, "idle", NoNode)
  BY MoveIs DEF Leave

\* Where the threads then are.
LEMMA MovedSets ==
  ASSUME SyncTypes, NEW t, NEW c, NEW p, NEW n, Moved(t, c, p, n)
  PROVE  /\ AtOwn' = (IF p \in {"own", "wait"} THEN AtOwn \cup {t} ELSE AtOwn \ {t})
         /\ InHand' = (IF p = "meet" THEN InHand \cup {t} ELSE InHand \ {t})
         /\ \A m : Owners(m)' = (Owners(m) \ {t})
                     \cup (IF p \in {"own", "wait"} /\ m = n THEN {t} ELSE {})
         /\ AtOwn \subseteq Threads /\ InHand \subseteq Threads /\ AtOwn \cap InHand = {}
  BY DEF Moved, SyncTypes, AtOwn, InHand, Owners

\* The wait sets, of which a step changes one.
LEMMA WaitsOK ==
  ASSUME SyncTypes, NEW t \in Threads, NEW w, WaitSetOK(w, {t}),
         waits' = [waits EXCEPT ![t] = w]
  PROVE  /\ waits' = [u \in Threads |-> waits'[u]] /\ \A u \in Threads : WaitSetOK(waits'[u], {u})
         /\ waits'[t] = w /\ \A u \in Threads : u # t => waits'[u] = waits[u]
  BY DEF SyncTypes

LEMMA AbandonIs ==
  ASSUME SyncTypes, NEW t \in Threads, Abandon(t)
  PROVE  /\ waits' = [u \in Threads |-> waits'[u]] /\ \A u \in Threads : WaitSetOK(waits'[u], {u})
         /\ waits'[t].at[t] = "running" /\ \A u \in Threads : u # t => waits'[u] = waits[u]
  <1> DEFINE w == NewWaitSet(waits[t].os, {t})
  <1>1. waits[t].os \in Platforms
    BY DEF SyncTypes, WaitSetOK, WaitSets
  <1>2. WaitSetOK(w, {t}) /\ w.at[t] = "running"
    BY <1>1, NewWaitSetOK DEF NewWaitSet
  <1>3. waits' = [waits EXCEPT ![t] = w]
    BY DEF Abandon
  <1> HIDE DEF w
  <1> QED BY <1>2, <1>3, WaitsOK

------------------------------------------------------------------------------
\* How the losses change when one thread comes or goes.
HalfOne(x, t) == One(t \in HalfDone(x))

LEMMA LostType ==
  ASSUME SyncFinite, SyncTypes
  PROVE  /\ Cardinality(HalfDone("take")) \in Nat /\ Cardinality(HalfDone("put")) \in Nat
         /\ Lost \in Int /\ balance \in Int
         /\ Lost = balance - Cardinality(HalfDone("take")) + Cardinality(HalfDone("put"))
  <1>1. \A x : HalfDone(x) \subseteq Threads
    BY DEF HalfDone, AtOwn
  <1>2. \A x : Cardinality(HalfDone(x)) \in Nat
    BY <1>1, FS_Subset, FS_CardinalityType DEF SyncFinite
  <1> QED BY <1>2 DEF Lost, Outstanding, SyncTypes

LEMMA LostMoves ==
  ASSUME SyncFinite, SyncTypes, SyncTypes', NEW t \in Threads,
         \A u \in Threads : u # t =>
           \A x \in Sides : (u \in HalfDone(x))' <=> u \in HalfDone(x)
  PROVE  /\ Lost \in Int /\ Lost' \in Int
         /\ Lost' - Lost = (balance' - balance)
                             - (HalfOne("take", t)' - HalfOne("take", t))
                             + (HalfOne("put", t)' - HalfOne("put", t))
         /\ \A x \in Sides : HalfOne(x, t) \in 0..1 /\ HalfOne(x, t)' \in 0..1
  <1> DEFINE H(x) == HalfDone(x)
             G(x) == HalfDone(x)'
  <1>1. ASSUME NEW x \in Sides
        PROVE  /\ Cardinality(H(x)) \in Nat /\ Cardinality(G(x)) \in Nat
               /\ Cardinality(G(x)) + One(t \in H(x)) = Cardinality(H(x)) + One(t \in G(x))
    <2>1. H(x) \subseteq Threads /\ G(x) \subseteq Threads
      BY DEF HalfDone, AtOwn
    <2>2. \A u \in Threads : u # t => (u \in H(x) <=> u \in G(x))
      OBVIOUS
    <2> HIDE DEF H, G
    <2> QED BY <2>1, <2>2, CountMoves DEF SyncFinite
  <1>2. /\ Lost \in Int /\ balance \in Int
        /\ Lost = balance - Cardinality(H("take")) + Cardinality(H("put"))
    BY LostType
  <1>3. (/\ Lost \in Int /\ balance \in Int
         /\ Lost = balance - Cardinality(HalfDone("take")) + Cardinality(HalfDone("put")))'
    <2>1. SyncFinite'
      BY DEF SyncFinite
    <2> QED BY <2>1, LostType, PTL
  <1>4. "take" \in Sides /\ "put" \in Sides
    BY DEF Sides
  <1> DEFINE a == Cardinality(H("take"))
             b == Cardinality(G("take"))
             c == Cardinality(H("put"))
             d == Cardinality(G("put"))
             a1 == One(t \in H("take"))
             b1 == One(t \in G("take"))
             c1 == One(t \in H("put"))
             d1 == One(t \in G("put"))
             l == Lost'
             e == balance'
  <1>5. /\ a \in Nat /\ b \in Nat /\ c \in Nat /\ d \in Nat
        /\ a1 \in 0..1 /\ b1 \in 0..1 /\ c1 \in 0..1 /\ d1 \in 0..1
        /\ b + a1 = a + b1 /\ d + c1 = c + d1
    BY <1>1, <1>4 DEF One
  <1>6. Lost = balance - a + c /\ l = e - b + d /\ l \in Int /\ e \in Int
    BY <1>2, <1>3
  <1> HIDE DEF a, b, c, d, a1, b1, c1, d1, l, e, H, G
  <1>7. l - Lost = (e - balance) - (b1 - a1) + (d1 - c1)
    BY <1>2, <1>5, <1>6
  <1> QED BY <1>2, <1>5, <1>6, <1>7 DEF a1, b1, c1, d1, l, e, H, G, HalfOne, Sides

\* What a step of one thread, or on its behalf, adds to the losses.
LossStep(t) ==
  (balance' - balance) - (HalfOne("take", t)' - HalfOne("take", t))
                       + (HalfOne("put", t)' - HalfOne("put", t))

LEMMA LossesStay ==
  ASSUME SyncFinite, SyncTypes, SyncTypes', LossesCounted, NEW t \in Threads, NEW n,
         \A u \in Threads : u # t =>
           \A x \in Sides : (u \in HalfDone(x))' <=> u \in HalfDone(x),
         \/ LossStep(t) = 0 /\ Stray' \subseteq Stray /\ failedTakes' = failedTakes
         \/ /\ LossStep(t) = 1 /\ Stray' \subseteq Stray \ {n} /\ n \in Stray
            /\ failedTakes' = failedTakes
         \/ LossStep(t) \in 0..1 /\ Stray' \subseteq Stray /\ failedTakes' = failedTakes + 1
         \/ /\ LossStep(t) = 0 /\ Stray' \subseteq Stray \cup {n}
            /\ failedTakes' = failedTakes + 1
  PROVE  LossesCounted'
  <1> DEFINE A == Stray
             B == Stray'
             l == Lost'
             f == failedTakes'
             k == LossStep(t)
  <1>1. l - Lost = k /\ l \in Int /\ Lost \in Int
    BY LostMoves DEF LossStep
  <1>2. A \subseteq Nodes /\ B \subseteq Nodes
    BY DEF Stray
  <1>3. IsFiniteSet(A) /\ IsFiniteSet(B) /\ Cardinality(A) \in Nat /\ Cardinality(B) \in Nat
    BY <1>2, FS_Subset, FS_CardinalityType DEF SyncFinite
  <1>4. Lost \in Nat /\ Lost + Cardinality(A) <= failedTakes /\ failedTakes \in Nat /\ f \in Nat
    BY DEF LossesCounted, SyncTypes
  <1>5. \/ k = 0 /\ B \subseteq A /\ f = failedTakes
        \/ k = 1 /\ B \subseteq A \ {n} /\ n \in A /\ f = failedTakes
        \/ k \in 0..1 /\ B \subseteq A /\ f = failedTakes + 1
        \/ k = 0 /\ B \subseteq A \cup {n} /\ f = failedTakes + 1
    OBVIOUS
  <1> HIDE DEF A, B, l, f, k
  <1>6. B \subseteq A => Cardinality(B) <= Cardinality(A)
    BY <1>3, FS_Subset
  <1>7. B \subseteq A \ {n} /\ n \in A => Cardinality(B) <= Cardinality(A) - 1
    <2>1. SUFFICES ASSUME B \subseteq A \ {n}, n \in A PROVE Cardinality(B) <= Cardinality(A) - 1
      OBVIOUS
    <2>2. IsFiniteSet(A \ {n}) /\ Cardinality(A \ {n}) = Cardinality(A) - 1
      BY <1>3, <2>1, FS_RemoveElement
    <2> QED BY <2>1, <2>2, FS_Subset
  <1>8. B \subseteq A \cup {n} => Cardinality(B) <= Cardinality(A) + 1
    <2>1. SUFFICES ASSUME B \subseteq A \cup {n} PROVE Cardinality(B) <= Cardinality(A) + 1
      OBVIOUS
    <2>2. /\ IsFiniteSet(A \cup {n})
          /\ Cardinality(A \cup {n}) = IF n \in A THEN Cardinality(A) ELSE Cardinality(A) + 1
      BY <1>3, FS_AddElement
    <2>3. Cardinality(B) <= Cardinality(A \cup {n})
      BY <2>1, <2>2, FS_Subset
    <2> QED BY <1>3, <2>2, <2>3
  <1>9. l \in Nat /\ l + Cardinality(B) <= f
    <2>1. l = Lost + k /\ k \in 0..1
      BY <1>1, <1>5
    <2>2. CASE k = 0 /\ B \subseteq A /\ f = failedTakes
      BY <1>3, <1>4, <1>6, <2>1, <2>2
    <2>3. CASE k = 1 /\ B \subseteq A \ {n} /\ n \in A /\ f = failedTakes
      BY <1>3, <1>4, <1>7, <2>1, <2>3
    <2>4. CASE k \in 0..1 /\ B \subseteq A /\ f = failedTakes + 1
      BY <1>3, <1>4, <1>6, <2>1, <2>4
    <2>5. CASE k = 0 /\ B \subseteq A \cup {n} /\ f = failedTakes + 1
      BY <1>3, <1>4, <1>8, <2>1, <2>5
    <2> QED BY <1>5, <2>2, <2>3, <2>4, <2>5
  <1> QED BY <1>9 DEF LossesCounted, B, l, f

\* Nothing changes but the wait set of one thread.
LEMMA SameHalves ==
  ASSUME SyncTypes, NEW T, T \subseteq Threads,
         \A u \in T : /\ u \in AtOwn' <=> u \in AtOwn
                      /\ u \in AtOwn => /\ call'[u] = call[u] /\ node'[u] = node[u]
                                        /\ node[u] \in full' <=> node[u] \in full
  PROVE  /\ \A u \in T : u \in AtOwn => Settled(u)' = Settled(u)
         /\ \A u \in T : \A x \in Sides : (u \in HalfDone(x))' <=> u \in HalfDone(x)
  <1>1. \A u \in T : u \in AtOwn => Settled(u)' = Settled(u)
    BY DEF Settled
  <1> QED BY <1>1 DEF HalfDone
------------------------------------------------------------------------------
\* What an invariant says of the others when thread t is at a node.
LEMMA OwnNode ==
  ASSUME SyncTypes, SyncPlaces, NodesOwned, NodesUnmet, NEW t \in AtOwn
  PROVE  /\ t \in Threads /\ node[t] \in Nodes /\ call[t] \in Calls /\ node[t] \notin otmenyon
         /\ \A u \in AtOwn : u # t => node[u] # node[t]
         /\ Owners(node[t]) = {t}
         /\ waits[t].at[t] = "running" <=> place[t] = "own"
         /\ \A s \in Sides : node[t] \in Queued(s) => s = Side(call[t]) /\ ~Settled(t)
         /\ \A u \in InHand : node[u] = node[t] =>
              OtherSide(call[u]) = Side(call[t]) /\ ~Settled(t)
  <1>1. t \in Threads /\ place[t] \in {"own", "wait"}
    BY DEF AtOwn
  <1>2. node[t] \in Nodes /\ node[t] # NoNode /\ call[t] \in Calls
        /\ (waits[t].at[t] = "running" <=> place[t] = "own")
    BY <1>1 DEF SyncTypes, SyncPlaces
  <1>3. \A u \in AtOwn : u # t => node[u] # node[t]
    BY <1>1, <1>2 DEF NodesOwned, AtOwn, InHand
  <1>4. Owners(node[t]) = {t}
    BY <1>3 DEF Owners
  <1>5. /\ \A s \in Sides : node[t] \in Queued(s) => s = Side(call[t]) /\ ~Settled(t)
        /\ \A u \in InHand : node[u] = node[t] => OtherSide(call[u]) = Side(call[t]) /\ ~Settled(t)
    BY <1>4 DEF NodesUnmet, Unmet
  <1> QED BY <1>1, <1>2, <1>3, <1>4, <1>5 DEF NodesUnmet

LEMMA HandNode ==
  ASSUME SyncTypes, SyncPlaces, NodesOwned, NodesUnmet, NEW t \in InHand
  PROVE  /\ t \in Threads /\ node[t] \in Nodes /\ call[t] \in Calls /\ t \notin AtOwn
         /\ \A u \in InHand : u # t => node[u] # node[t]
         /\ \A s \in Sides : node[t] \notin Queued(s)
         /\ Unmet(node[t], OtherSide(call[t]))
  BY DEF InHand, AtOwn, SyncTypes, SyncPlaces, NodesOwned, NodesUnmet

------------------------------------------------------------------------------
\* A thread that goes on waiting on its node.
LEMMA Rests ==
  ASSUME SyncFinite, SyncInvariant, NEW t \in AtOwn, NEW w, WaitSetOK(w, {t}),
         waits' = [waits EXCEPT ![t] = w], w.at[t] # "running",
         Moved(t, call[t], "wait", node[t]),
         UNCHANGED <<queues, cut, full, otmenyon, balance, failedTakes>>,
         Settled(t) /\ t \in Asleep(w) => Alert(w)
  PROVE  SyncInvariant'
  <1> USE DEF SyncInvariant
  <1>1. /\ waits' = [u \in Threads |-> waits'[u]] /\ \A u \in Threads : WaitSetOK(waits'[u], {u})
        /\ waits'[t] = w /\ \A u \in Threads : u # t => waits'[u] = waits[u]
        /\ t \in Threads
    BY WaitsOK DEF AtOwn
  <1>2. /\ call' \in [Threads -> Calls \cup {NoCall}] /\ node' \in [Threads -> Nodes \cup {NoNode}]
        /\ place' \in [Threads -> {"idle", "start", "meet", "own", "wait"}]
        /\ place'[t] = "wait"
        /\ \A u \in Threads : call'[u] = call[u] /\ node'[u] = node[u]
        /\ \A u \in Threads : u # t => place'[u] = place[u]
    BY DEF Moved
  <1>3. call' = call /\ node' = node
    BY <1>2 DEF SyncTypes
  <1>4. SyncTypes'
    BY <1>1, <1>2 DEF SyncTypes
  <1>5. SyncPlaces'
    <2>1. place[t] \in {"own", "wait"}
      BY DEF AtOwn
    <2> QED BY <1>1, <1>2, <1>3, <2>1 DEF SyncPlaces
  <1>6. /\ AtOwn' = AtOwn /\ InHand' = InHand /\ \A m : Owners(m)' = Owners(m)
        /\ \A s : Queued(s)' = Queued(s) /\ \A u : Settled(u)' = Settled(u)
    <2>1. place[t] \in {"own", "wait"}
      BY DEF AtOwn
    <2>2. AtOwn' = AtOwn /\ InHand' = InHand
      BY <1>2, <2>1 DEF AtOwn, InHand
    <2> QED BY <1>3, <2>2 DEF Owners, Queued, Settled
  <1>7. NodesOwned'
    BY <1>3, <1>6 DEF NodesOwned
  <1>8. /\ \A n, s : Unmet(n, s)' <=> Unmet(n, s)
        /\ \A u : OtherSide(call[u])' = OtherSide(call[u])
    BY <1>3, <1>6 DEF Unmet, OtherSide
  <1>9. NodesUnmet'
    BY <1>3, <1>6, <1>8 DEF NodesUnmet
  <1>10. LossesCounted'
    <2>1. Stray' = Stray
      BY <1>3, <1>6 DEF Stray
    <2>2. \A x : HalfDone(x)' = HalfDone(x)
      BY <1>3, <1>6 DEF HalfDone
    <2>3. Lost' = Lost
      BY <2>2 DEF Lost, Outstanding
    <2> QED BY <2>1, <2>3 DEF LossesCounted
  <1>11. Findable'
    <2>1. \A u \in AtOwn : u \in Threads
      BY DEF AtOwn
    <2> QED BY <1>1, <1>3, <1>6, <2>1 DEF Findable
  <1> QED BY <1>4, <1>5, <1>7, <1>9, <1>10, <1>11

LEMMA WaitKeeps ==
  ASSUME SyncFinite, SyncInvariant, NEW t \in Threads, Wait(t) \/ KernelStep(t)
  PROVE  SyncInvariant'
  <1>1. WaitSetOK(waits[t], {t}) /\ SyncTypes /\ SyncPlaces
    BY DEF SyncInvariant, SyncTypes
  <1>2. CASE Wait(t)
    <2>1. t \in AtOwn /\ ~Settled(t)
      BY <1>2 DEF Wait, AtOwnNode, AtOwn
    <2>2. waits' = [waits EXCEPT ![t] = Zhdi(waits[t], t)]
      BY <1>2 DEF Wait
    <2>3. WaitSetOK(Zhdi(waits[t], t), {t}) /\ Zhdi(waits[t], t).at[t] # "running"
      BY <1>1, ZhdiOK
    <2>4. Moved(t, call[t], "wait", node[t])
      BY <1>1, <1>2, MoveIs DEF Wait, SyncTypes
    <2> QED BY <1>2, <2>1, <2>2, <2>3, <2>4, Rests DEF Wait, history
  <1>3. CASE KernelStep(t)
    <2>1. PICK w \in KernelSteps(waits[t], t, Timed(call[t])) :
            waits' = [waits EXCEPT ![t] = w]
      BY <1>3 DEF KernelStep
    <2>2. /\ t \in AtOwn /\ place[t] = "wait"
          /\ UNCHANGED <<queues, cut, full, otmenyon, call, place, node, balance, failedTakes>>
      BY <1>3 DEF KernelStep, AtOwn, history
    <2>3. WaitSetOK(w, {t}) /\ w.at[t] # "running" /\ waits[t].at[t] \in {"gap", "blocked"}
      BY <1>1, KernelStepOK, KernelStepMoves
    <2>4. Moved(t, call[t], "wait", node[t])
      BY <1>1, <2>2 DEF Moved, SyncTypes
    <2>5. t \in Asleep(waits[t])
      BY <1>1, <2>3 DEF Asleep, AtPlace, WaitSetOK, WaitSets
    <2>6. Settled(t) => Alert(w)
      <3>1. Settled(t) => Alert(waits[t])
        BY <2>2, <2>5 DEF SyncInvariant, Findable
      <3> QED BY <1>1, <3>1, KernelStepOK
    <2> QED BY <2>1, <2>2, <2>3, <2>4, <2>6, Rests
  <1> QED BY <1>2, <1>3

\* A thread that goes back to the queues, with a cancelled node or with none.
LEMMA StartKeeps ==
  ASSUME SyncFinite, SyncInvariant, NEW t \in Threads, Refused(t) \/ MeetCancelled(t)
  PROVE  SyncInvariant'
  <1> USE DEF SyncInvariant
  <1> DEFINE n == node[t]
             c == IF place[t] = "start" THEN NoCall ELSE call[t]
             p == IF place[t] = "start" THEN "idle" ELSE "start"
  <1>1. /\ UNCHANGED <<queues, cut, waits, balance, failedTakes>>
        /\ \/ place[t] = "start" /\ full' = full /\ otmenyon' = otmenyon
           \/ /\ place[t] = "meet" /\ n \in otmenyon
              /\ full' = full \ {n} /\ otmenyon' = otmenyon \ {n}
    BY DEF Refused, MeetCancelled, history
  <1>2. Moved(t, c, p, NoNode) /\ (p = "idle" <=> c = NoCall)
    <2>1. CASE place[t] = "start"
      <3>1. Leave(t)
        BY <2>1 DEF Refused, MeetCancelled
      <3> QED BY <2>1, <3>1, LeaveIs
    <2>2. CASE place[t] # "start"
      <3>1. Move(t, call[t], "start", NoNode) /\ place[t] = "meet"
        BY <2>2 DEF Refused, MeetCancelled
      <3>2. call[t] \in Calls /\ call[t] # NoCall
        BY <3>1 DEF SyncTypes, SyncPlaces
      <3> QED BY <2>2, <3>1, <3>2, MoveIs
    <2> QED BY <2>1, <2>2
  <1>3. t \notin AtOwn /\ p \in {"idle", "start"}
    BY <1>1 DEF AtOwn
  <1>4. /\ AtOwn' = AtOwn /\ InHand' = InHand \ {t} /\ \A m : Owners(m)' = Owners(m)
        /\ AtOwn \subseteq Threads /\ InHand \subseteq Threads
    <2>1. \A m : t \notin Owners(m)
      BY <1>3 DEF Owners
    <2>2. p \notin {"own", "wait"} /\ p # "meet"
      OBVIOUS
    <2> HIDE DEF p, c
    <2>3. /\ AtOwn' = AtOwn \ {t} /\ InHand' = InHand \ {t}
          /\ \A m : Owners(m)' = Owners(m) \ {t}
          /\ AtOwn \subseteq Threads /\ InHand \subseteq Threads
      BY <1>2, <2>2, MovedSets
    <2> QED BY <1>3, <2>1, <2>3
  <1>5. /\ place'[t] = p /\ node'[t] = NoNode /\ call'[t] = c
        /\ \A u \in Threads : u # t => call'[u] = call[u] /\ place'[u] = place[u] /\ node'[u] = node[u]
    BY <1>2 DEF Moved
  <1>6. \A u \in AtOwn : u # t /\ u \in Threads /\ node[u] \notin otmenyon
    BY <1>3, <1>4 DEF NodesUnmet
  <1>7. SyncTypes'
    BY <1>1, <1>2 DEF Moved, SyncTypes
  <1>8. SyncPlaces'
    <2>1. waits[t].at[t] = "running" /\ p # "wait"
      BY <1>1, <1>3 DEF SyncPlaces
    <2> QED BY <1>1, <1>2, <1>3, <1>5, <2>1 DEF SyncPlaces
  <1>9. \A s : Queued(s)' = Queued(s)
    BY <1>1 DEF Queued
  <1>10. NodesOwned'
    BY <1>1, <1>3, <1>4, <1>5, <1>9 DEF NodesOwned
  <1>11. \A u \in AtOwn : Settled(u)' = Settled(u) /\ call'[u] = call[u] /\ node'[u] = node[u]
    <2>1. \A u \in AtOwn : node[u] \in full' <=> node[u] \in full
      BY <1>1, <1>6
    <2> QED BY <1>5, <1>6, <2>1 DEF Settled
  <1>12. ASSUME NEW m, NEW s, Unmet(m, s), m # n \/ place[t] = "start" PROVE Unmet(m, s)'
    <2>1. m \in otmenyon' <=> m \in otmenyon
      BY <1>1, <1>12
    <2>2. \A u \in Owners(m) : u \in AtOwn
      BY DEF Owners
    <2> QED BY <1>4, <1>11, <1>12, <2>1, <2>2 DEF Unmet
  <1>13. NodesUnmet'
    <2>1. place[t] # "start" => t \in InHand
      BY <1>1 DEF InHand
    <2>2. \A s \in Sides : \A m \in Queued(s) : Unmet(m, s) /\ (m # n \/ place[t] = "start")
      BY <2>1, HandNode DEF NodesUnmet
    <2>3. \A u \in InHand : u # t =>
             Unmet(node[u], OtherSide(call[u])) /\ (node[u] # n \/ place[t] = "start")
      BY <2>1, HandNode DEF NodesUnmet
    <2>4. \A u \in InHand' : /\ u \in InHand /\ u # t /\ node'[u] = node[u]
                             /\ OtherSide(call[u])' = OtherSide(call[u])
      BY <1>4, <1>5 DEF OtherSide
    <2>5. \A s \in Sides : \A m \in Queued(s)' : Unmet(m, s)'
      BY <1>9, <1>12, <2>2
    <2>6. \A u \in InHand' : Unmet(node[u], OtherSide(call[u]))'
      BY <1>12, <2>3, <2>4
    <2>7. \A u \in AtOwn' : node'[u] \notin otmenyon'
      BY <1>1, <1>4, <1>6, <1>11
    <2> QED BY <2>5, <2>6, <2>7 DEF NodesUnmet
  <1>14. LossesCounted'
    <2>1. Stray' \subseteq Stray
      <3> SUFFICES ASSUME NEW m \in Stray' PROVE m \in Stray
        OBVIOUS
      <3>1. /\ m \in Nodes /\ m \notin otmenyon' /\ Owners(m) = {}
            /\ \/ m \in Queued("take")
               \/ \E u \in InHand' : node'[u] = m /\ (Side(call[u]) = "put")'
        BY <1>4, <1>9 DEF Stray
      <3>2. \A u \in InHand' : u \in InHand /\ u # t /\ node'[u] = node[u]
                               /\ Side(call[u])' = Side(call[u])
        BY <1>4, <1>5 DEF Side
      <3>3. \A u \in InHand : u # t /\ place[t] # "start" => node[u] # n
        <4>1. place[t] # "start" => t \in InHand
          BY <1>1 DEF InHand
        <4> QED BY <4>1, HandNode
      <3>4. place[t] # "start" => n \notin Queued("take")
        <4>1. place[t] # "start" => t \in InHand
          BY <1>1 DEF InHand
        <4> QED BY <4>1, HandNode DEF Sides
      <3>5. m \notin otmenyon
        BY <1>1, <3>1, <3>2, <3>3, <3>4
      <3> QED BY <3>1, <3>2, <3>5 DEF Stray
    <2>2. \A u \in Threads : \A x \in Sides : (u \in HalfDone(x))' <=> u \in HalfDone(x)
      BY <1>4, <1>11 DEF HalfDone
    <2>3. LossStep(t) = 0
      <3>1. HalfOne("take", t)' = HalfOne("take", t) /\ HalfOne("put", t)' = HalfOne("put", t)
        BY <2>2 DEF HalfOne, One, Sides
      <3>2. \A x : HalfOne(x, t) \in Int
        BY DEF HalfOne, One
      <3> QED BY <1>1, <3>1, <3>2 DEF LossStep, SyncTypes
    <2> QED BY <1>1, <1>7, <2>1, <2>2, <2>3, LossesStay
  <1>15. Findable'
    <2>1. \A u \in InHand : (\E v \in AtOwn : node[v] = node[u]) => u # t \/ place[t] = "start"
      BY <1>1, <1>6
    <2>2. place[t] = "start" => t \notin InHand
      BY DEF InHand
    <2>3. \A v \in AtOwn : (\E u \in InHand : node[u] = node[v])
             => \E u \in InHand' : node'[u] = node'[v]
      BY <1>4, <1>5, <1>11, <2>1, <2>2
    <2> QED BY <1>1, <1>4, <1>9, <1>11, <2>3 DEF Findable
  <1> QED BY <1>7, <1>8, <1>10, <1>13, <1>14, <1>15

------------------------------------------------------------------------------
\* The ways for a thread to leave its own node.
LeavesOwn(t) ==
  /\ t \in AtOwn /\ Abandon(t) /\ Leave(t) /\ UNCHANGED queues
  /\ full' \in {full, full \ {node[t]}}
  /\ otmenyon' \in {otmenyon, otmenyon \cup {node[t]}}
  /\ cut' \subseteq Nodes /\ failedTakes' \in {failedTakes, failedTakes + 1}
  /\ cut' = cut \/ failedTakes' = failedTakes + 1
  /\ ~Settled(t) /\ Side(call[t]) = "put" => node[t] \in otmenyon'
  /\ \/ /\ ~Settled(t) /\ balance' = balance
        /\ node[t] \in otmenyon' \/ failedTakes' = failedTakes + 1
     \/ Settled(t) /\ Count(call[t])
     \/ /\ Settled(t) /\ balance' = balance
        /\ Side(call[t]) = "take" /\ failedTakes' = failedTakes + 1

\* What they do to the losses.
LEMMA LeavesOwnLoss ==
  ASSUME SyncTypes, NEW t \in AtOwn, LeavesOwn(t), t \notin AtOwn'
  PROVE  /\ ~Settled(t) => LossStep(t) = 0
         /\ Settled(t) => LossStep(t) = 0
                            \/ (LossStep(t) = 1 /\ failedTakes' = failedTakes + 1)
  <1>1. HalfOne("take", t)' = 0 /\ HalfOne("put", t)' = 0
    BY DEF HalfOne, One, HalfDone
  <1>2. /\ HalfOne("take", t) = IF Settled(t) /\ Side(call[t]) = "take" THEN 1 ELSE 0
        /\ HalfOne("put", t) = IF Settled(t) /\ Side(call[t]) = "put" THEN 1 ELSE 0
    BY DEF HalfOne, One, HalfDone
  <1>3. Side(call[t]) \in Sides
    BY DEF Side, Sides
  <1>4. balance \in Int
    BY DEF SyncTypes
  <1> DEFINE b == balance'
             a1 == HalfOne("take", t)
             a2 == HalfOne("take", t)'
             b1 == HalfOne("put", t)
             b2 == HalfOne("put", t)'
  <1> DEFINE k == (b - balance) - (a2 - a1) + (b2 - b1)
  <1>9. LossStep(t) = k
    BY DEF LossStep
  <1>0. a2 = 0 /\ b2 = 0
    BY <1>1
  <1> HIDE DEF a1, a2, b1, b2, b
  <1>5. ASSUME ~Settled(t) PROVE k = 0
    <2>1. b = balance
      BY <1>5 DEF LeavesOwn, b
    <2>2. a1 = 0 /\ b1 = 0
      BY <1>2, <1>5 DEF a1, b1
    <2> QED BY <1>0, <1>4, <1>5, <2>1, <2>2
  <1>6. ASSUME Settled(t), Side(call[t]) = "take"
        PROVE  k = 0 \/ (k = 1 /\ failedTakes' = failedTakes + 1)
    <2>1. b = balance - 1 \/ (b = balance /\ failedTakes' = failedTakes + 1)
      <3>1. Side(call[t]) # "put" /\ balance + -1 = balance - 1
        BY <1>4, <1>6
      <3> QED BY <1>6, <3>1 DEF LeavesOwn, Count, b
    <2>2. a1 = 1 /\ b1 = 0
      BY <1>2, <1>6 DEF a1, b1
    <2> QED BY <1>0, <1>4, <1>6, <2>1, <2>2
  <1>7. ASSUME Settled(t), Side(call[t]) = "put" PROVE k = 0
    <2>1. b = balance + 1
      <3>1. Side(call[t]) # "take"
        BY <1>7
      <3> QED BY <1>7, <3>1 DEF LeavesOwn, Count, b
    <2>2. a1 = 0 /\ b1 = 1
      BY <1>2, <1>7 DEF a1, b1
    <2> QED BY <1>0, <1>4, <1>7, <2>1, <2>2
  <1> HIDE DEF k
  <1>8. Settled(t) => k = 0 \/ (k = 1 /\ failedTakes' = failedTakes + 1)
    BY <1>3, <1>6, <1>7 DEF Sides
  <1> QED BY <1>5, <1>8, <1>9

LEMMA OwnLeaves ==
  ASSUME SyncFinite, SyncInvariant, NEW t \in AtOwn, LeavesOwn(t)
  PROVE  SyncInvariant'
  <1> USE DEF SyncInvariant
  <1> DEFINE n == node[t]
  <1>1. /\ t \in Threads /\ n \in Nodes /\ n \notin otmenyon
        /\ \A u \in AtOwn : u # t => node[u] # n
        /\ \A s \in Sides : n \in Queued(s) => s = Side(call[t]) /\ ~Settled(t)
        /\ \A u \in InHand : node[u] = n => OtherSide(call[u]) = Side(call[t]) /\ ~Settled(t)
    BY OwnNode
  <1>2. Moved(t, NoCall, "idle", NoNode)
    BY <1>1, LeaveIs DEF LeavesOwn
  <1>3. /\ AtOwn' = AtOwn \ {t} /\ InHand' = InHand /\ \A m : Owners(m)' = Owners(m) \ {t}
        /\ AtOwn \subseteq Threads /\ InHand \subseteq Threads /\ t \notin InHand
    <2>1. "idle" \notin {"own", "wait"} /\ "idle" # "meet"
      OBVIOUS
    <2>2. /\ AtOwn' = AtOwn \ {t} /\ InHand' = InHand \ {t} /\ \A m : Owners(m)' = Owners(m) \ {t}
          /\ AtOwn \subseteq Threads /\ InHand \subseteq Threads /\ AtOwn \cap InHand = {}
      BY <1>2, <2>1, MovedSets
    <2> QED BY <2>2
  <1>4. /\ place'[t] = "idle" /\ node'[t] = NoNode /\ call'[t] = NoCall
        /\ \A u \in Threads : u # t => call'[u] = call[u] /\ place'[u] = place[u] /\ node'[u] = node[u]
    BY <1>2 DEF Moved
  <1>5. /\ waits' = [u \in Threads |-> waits'[u]] /\ \A u \in Threads : WaitSetOK(waits'[u], {u})
        /\ waits'[t].at[t] = "running" /\ \A u \in Threads : u # t => waits'[u] = waits[u]
    BY <1>1, AbandonIs DEF LeavesOwn
  <1>6. SyncTypes'
    <2>1. balance' \in Int /\ failedTakes' \in Nat
      BY DEF LeavesOwn, Count, SyncTypes
    <2>2. cut' \subseteq Nodes /\ full' \subseteq Nodes /\ otmenyon' \subseteq Nodes
      BY <1>1 DEF LeavesOwn, SyncTypes
    <2> QED BY <1>2, <1>5, <2>1, <2>2 DEF Moved, LeavesOwn, SyncTypes
  <1>7. SyncPlaces'
    BY <1>4, <1>5 DEF SyncPlaces
  <1>8. \A s : Queued(s)' = Queued(s)
    BY DEF Queued, LeavesOwn
  <1>9. NodesOwned'
    BY <1>3, <1>4, <1>8 DEF NodesOwned, LeavesOwn
  <1>10. /\ \A m : m # n => ((m \in full' <=> m \in full) /\ (m \in otmenyon' <=> m \in otmenyon))
         /\ otmenyon \subseteq otmenyon'
    BY DEF LeavesOwn
  <1>11. \A u \in AtOwn : u # t =>
            Settled(u)' = Settled(u) /\ call'[u] = call[u] /\ node'[u] = node[u] /\ u \in Threads
    <2>1. \A u \in AtOwn : u # t => (node[u] \in full' <=> node[u] \in full)
      BY <1>1, <1>10
    <2> QED BY <1>3, <1>4, <2>1 DEF Settled
  <1>12. ASSUME NEW m, NEW s, Unmet(m, s), m = n => s = Side(call[t]) /\ ~Settled(t)
         PROVE Unmet(m, s)'
    <2>1. \A u \in Owners(m) \ {t} : Side(call'[u]) = s /\ ~Settled(u)'
      BY <1>11, <1>12 DEF Unmet, Owners
    <2>2. ASSUME s = "put", Owners(m) \ {t} = {} PROVE m \in otmenyon'
      <3>1. CASE m = n
        BY <1>12, <2>2, <3>1 DEF LeavesOwn
      <3>2. CASE m # n
        <4>1. t \notin Owners(m)
          BY <3>2 DEF Owners
        <4> QED BY <1>10, <1>12, <2>2, <4>1 DEF Unmet
      <3> QED BY <3>1, <3>2
    <2>3. Owners(m)' = Owners(m) \ {t}
      BY <1>3
    <2> QED BY <2>1, <2>2, <2>3 DEF Unmet
  <1>13. NodesUnmet'
    <2>1. \A s \in Sides : \A m \in Queued(s)' : Unmet(m, s)'
      BY <1>1, <1>8, <1>12 DEF NodesUnmet
    <2>2. \A u \in InHand : /\ u # t /\ node'[u] = node[u]
                            /\ OtherSide(call[u])' = OtherSide(call[u])
      BY <1>3, <1>4 DEF OtherSide
    <2>3. \A u \in InHand : Unmet(node[u], OtherSide(call[u]))'
      <3> TAKE u \in InHand
      <3>1. Unmet(node[u], OtherSide(call[u]))
        BY DEF NodesUnmet
      <3>2. node[u] = n => OtherSide(call[u]) = Side(call[t]) /\ ~Settled(t)
        BY <1>1
      <3>3. \A m, s : Unmet(m, s) /\ (m = n => s = Side(call[t]) /\ ~Settled(t)) => Unmet(m, s)'
        BY <1>12
      <3> HIDE DEF n
      <3>4. \A m, s : m = node[u] /\ s = OtherSide(call[u]) => Unmet(m, s)'
        BY <3>1, <3>2, <3>3
      <3> QED BY <2>2, <3>4
    <2>4. \A u \in AtOwn' : node'[u] \notin otmenyon'
      BY <1>1, <1>3, <1>10, <1>11 DEF NodesUnmet
    <2> QED BY <1>3, <2>1, <2>3, <2>4 DEF NodesUnmet
  <1>14. LossesCounted'
    <2>1. \A m \in Stray' : m # n => m \in Stray
      <3> TAKE m \in Stray'
      <3> HAVE m # n
      <3>1. /\ m \in Nodes /\ m \notin otmenyon' /\ Owners(m)' = {}
            /\ \/ m \in Queued("take")
               \/ \E u \in InHand : node'[u] = m /\ (Side(call[u]) = "put")'
        BY <1>3, <1>8 DEF Stray
      <3>2. \A u \in InHand : node'[u] = node[u] /\ Side(call[u])' = Side(call[u])
        BY <1>3, <1>4 DEF Side
      <3>3. m \notin otmenyon /\ Owners(m) = {}
        <4>1. t \notin Owners(m)
          BY DEF Owners
        <4> QED BY <1>3, <1>10, <3>1, <4>1
      <3> QED BY <3>1, <3>2, <3>3 DEF Stray
    <2>2. Settled(t) \/ n \in otmenyon' => n \notin Stray'
      <3>1. \A u \in InHand : node'[u] = node[u]
        BY <1>3, <1>4
      <3>2. n \in Stray' => n \notin otmenyon' /\
               (n \in Queued("take") \/ \E u \in InHand : node[u] = n)
        BY <1>3, <1>8, <3>1 DEF Stray
      <3> QED BY <1>1, <3>2 DEF Sides
    <2>3. \A u \in Threads : u # t => \A x \in Sides : (u \in HalfDone(x))' <=> u \in HalfDone(x)
      BY <1>3, <1>11 DEF HalfDone
    <2>4. /\ ~Settled(t) => LossStep(t) = 0
          /\ Settled(t) => LossStep(t) = 0
                             \/ (LossStep(t) = 1 /\ failedTakes' = failedTakes + 1)
      BY <1>3, LeavesOwnLoss
    <2>5. Stray' \subseteq Stray \cup {n} /\ (n \notin Stray' => Stray' \subseteq Stray)
      BY <2>1
    <2>6. \/ LossStep(t) = 0 /\ Stray' \subseteq Stray /\ failedTakes' = failedTakes
          \/ LossStep(t) \in 0..1 /\ Stray' \subseteq Stray /\ failedTakes' = failedTakes + 1
          \/ LossStep(t) = 0 /\ Stray' \subseteq Stray \cup {n} /\ failedTakes' = failedTakes + 1
      <3>1. CASE Settled(t) \/ n \in otmenyon'
        <4>1. Stray' \subseteq Stray
          BY <2>2, <2>5, <3>1
        <4>2. failedTakes' = failedTakes \/ failedTakes' = failedTakes + 1
          BY DEF LeavesOwn
        <4>3. \/ LossStep(t) = 0
              \/ LossStep(t) = 1 /\ failedTakes' = failedTakes + 1
          BY <2>4
        <4>4. LossStep(t) = 0 \/ LossStep(t) = 1 => LossStep(t) \in 0..1
          OBVIOUS
        <4> QED BY <4>1, <4>2, <4>3, <4>4
      <3>2. CASE ~Settled(t) /\ n \notin otmenyon'
        <4>1. failedTakes' = failedTakes + 1
          BY <3>2 DEF LeavesOwn
        <4> QED BY <2>4, <2>5, <3>2, <4>1
      <3> QED BY <3>1, <3>2
    <2> HIDE DEF n
    <2> QED BY <1>1, <1>6, <2>3, <2>6, LossesStay
  <1>15. Findable'
    <2>1. failedTakes' = 0 => failedTakes = 0 /\ cut' = cut
      BY DEF LeavesOwn, SyncTypes
    <2>2. \A u \in InHand : node'[u] = node[u]
      BY <1>3, <1>4
    <2>3. \A v \in AtOwn' : /\ v \in AtOwn /\ v # t /\ node'[v] = node[v] /\ waits'[v] = waits[v]
                            /\ Settled(v)' = Settled(v) /\ Side(call[v])' = Side(call[v])
      BY <1>3, <1>5, <1>11 DEF Side
    <2> QED BY <1>3, <1>8, <2>1, <2>2, <2>3 DEF Findable
  <1> QED BY <1>6, <1>7, <1>9, <1>13, <1>14, <1>15

LEMMA LeaveKeeps ==
  ASSUME SyncFinite, SyncInvariant, NEW t \in Threads,
         Finish(t) \/ GiveUp(t) \/ PutFails(t) \/ TakeFails(t) \/ PollFails(t)
  PROVE  SyncInvariant'
  <1>1. /\ cut \subseteq Nodes /\ Side("take") = "take" /\ Side("poll") = "take"
        /\ balance \in Int /\ failedTakes \in Nat
    BY DEF SyncInvariant, SyncTypes, Side
  <1>2. t \in AtOwn
    BY DEF Finish, GiveUp, PutFails, TakeFails, PollFails, AtOwnNode, AtOwn
  <1>3. node[t] \in Nodes
    BY <1>2, OwnNode DEF SyncInvariant
  <1>4. Abandon(t) /\ Leave(t) /\ UNCHANGED queues
    BY DEF Finish, GiveUp, PutFails, TakeFails, PollFails
  <1>5. LeavesOwn(t)
    <2>1. CASE Finish(t)
      BY <1>1, <1>2, <1>4, <2>1 DEF Finish, LeavesOwn
    <2>2. CASE GiveUp(t)
      BY <1>1, <1>2, <1>4, <2>2 DEF GiveUp, LeavesOwn, history
    <2>3. CASE PutFails(t)
      BY <1>1, <1>2, <1>4, <2>3 DEF PutFails, LeavesOwn
    <2>4. CASE TakeFails(t)
      BY <1>1, <1>2, <1>3, <1>4, <2>4 DEF TakeFails, LeavesOwn
    <2>5. CASE PollFails(t)
      BY <1>1, <1>2, <1>4, <2>5 DEF PollFails, LeavesOwn
    <2> QED BY <2>1, <2>2, <2>3, <2>4, <2>5
  <1> QED BY <1>2, <1>5, OwnLeaves

------------------------------------------------------------------------------
\* A step that settles nothing, and ends no call that is settled.
LEMMA SameLosses ==
  ASSUME SyncFinite, SyncTypes, SyncTypes', LossesCounted, NEW t \in Threads,
         \A u \in Threads : \A x \in Sides : (u \in HalfDone(x))' <=> u \in HalfDone(x),
         UNCHANGED <<balance, failedTakes>>, Stray' \subseteq Stray
  PROVE  LossesCounted'
  <1>1. HalfOne("take", t)' = HalfOne("take", t) /\ HalfOne("put", t)' = HalfOne("put", t)
    BY DEF HalfOne, One, Sides
  <1>2. \A x : HalfOne(x, t) \in Int
    BY DEF HalfOne, One
  <1>3. LossStep(t) = 0
    BY <1>1, <1>2 DEF LossStep, SyncTypes
  <1> QED BY <1>3, LossesStay

LEMMA DequeuedIs ==
  ASSUME NEW q \in Seq(Nodes), q # <<>>, IsInjective(q)
  PROVE  /\ Dequeued(q) \in Seq(Nodes) /\ IsInjective(Dequeued(q))
         /\ Head(q) \in Nodes /\ Head(q) \in ToSet(q)
         /\ ToSet(Dequeued(q)) \subseteq ToSet(q) \ {Head(q)}
         /\ cut = {} => ToSet(Dequeued(q)) = ToSet(q) \ {Head(q)}
  <1>1. /\ Tail(q) \in Seq(Nodes) /\ Head(q) \in Nodes /\ Head(q) \in ToSet(q)
        /\ ToSet(Tail(q)) = ToSet(q) \ {Head(q)} /\ IsInjective(Tail(q))
    BY TailSet
  <1>2. ToSet(<<>>) = {} /\ IsInjective(<<>>) /\ <<>> \in Seq(Nodes)
    BY DEF ToSet, IsInjective
  <1> QED BY <1>1, <1>2 DEF Dequeued

LEMMA SidesAre ==
  ASSUME NEW c \in Calls
  PROVE  /\ Side(c) \in Sides /\ OtherSide(c) \in Sides /\ Side(c) # OtherSide(c)
         /\ \A x \in Sides : x = Side(c) \/ x = OtherSide(c)
         /\ Side(c) = "put" <=> OtherSide(c) = "take"
  BY DEF Side, OtherSide, Sides, Calls

LEMMA MatchKeeps ==
  ASSUME SyncFinite, SyncInvariant, NEW t \in Threads, NEW c \in Calls, Match(t, c)
  PROVE  SyncInvariant'
  <1> USE DEF SyncInvariant
  <1> DEFINE s == OtherSide(c)
             q == queues[s]
             n == Head(q)
             d == Dequeued(q)
  <1>1. /\ q # <<>> /\ queues' = [queues EXCEPT ![s] = d] /\ cut' = cut \ {n}
        /\ UNCHANGED <<full, otmenyon, waits, balance, failedTakes>>
        /\ place[t] \in {"idle", "start"}
    BY DEF Match, history, Starts
  <1>2. s \in Sides /\ q \in Seq(Nodes) /\ IsInjective(q) /\ queues \in [Sides -> Seq(Nodes)]
        /\ \A x \in Sides : x # s => queues[x] = <<>>
    BY <1>1, SidesAre DEF SyncTypes, NodesOwned, Sides
  <1>3. /\ d \in Seq(Nodes) /\ IsInjective(d) /\ n \in Nodes /\ n \in ToSet(q)
        /\ ToSet(d) \subseteq ToSet(q) \ {n}
        /\ cut = {} => ToSet(d) = ToSet(q) \ {n}
    BY <1>1, <1>2, DequeuedIs
  <1>4. Moved(t, c, "meet", n)
    BY <1>3, MoveIs DEF Match
  <1> HIDE DEF d, n, q, s
  <1>5. /\ queues' \in [Sides -> Seq(Nodes)] /\ queues'[s] = d
        /\ \A x \in Sides : x # s => queues'[x] = <<>> /\ queues'[x] = queues[x]
    BY <1>1, <1>2, <1>3
  <1>6. /\ \A x \in Sides : Queued(x)' \subseteq Queued(x) /\ n \notin Queued(x)'
        /\ n \in Queued(s)
        /\ cut = {} => \A x \in Sides : Queued(x) \subseteq Queued(x)' \cup {n}
    <2>1. Queued(s) = ToSet(q) /\ Queued(s)' = ToSet(d)
      BY <1>5 DEF Queued, q
    <2>2. \A x \in Sides : x # s => Queued(x)' = {} /\ Queued(x) = {}
      BY <1>5 DEF Queued, ToSet
    <2> QED BY <1>3, <2>1, <2>2
  <1>7. t \notin AtOwn /\ t \notin InHand
    BY <1>1 DEF AtOwn, InHand
  <1>8. /\ AtOwn' = AtOwn /\ InHand' = InHand \cup {t} /\ \A m : Owners(m)' = Owners(m)
        /\ AtOwn \subseteq Threads /\ InHand \subseteq Threads
    <2>1. "meet" \notin {"own", "wait"}
      OBVIOUS
    <2>2. \A m : t \notin Owners(m)
      BY <1>7 DEF Owners
    <2>3. /\ AtOwn' = AtOwn \ {t} /\ InHand' = InHand \cup {t} /\ \A m : Owners(m)' = Owners(m) \ {t}
          /\ AtOwn \subseteq Threads /\ InHand \subseteq Threads
      BY <1>4, <2>1, MovedSets
    <2> QED BY <1>7, <2>2, <2>3
  <1>9. /\ place'[t] = "meet" /\ node'[t] = n /\ call'[t] = c
        /\ \A u \in Threads : u # t => call'[u] = call[u] /\ place'[u] = place[u] /\ node'[u] = node[u]
    BY <1>4 DEF Moved
  <1>10. SyncTypes'
    BY <1>1, <1>4, <1>5 DEF Moved, SyncTypes
  <1>11. SyncPlaces'
    <2>1. waits[t].at[t] = "running" /\ n # NoNode /\ c # NoCall
      BY <1>1, <1>3, SynchronousAssumption, MeetingAssumption DEF SyncPlaces, Calls, NoCall
    <2> QED BY <1>1, <1>9, <2>1 DEF SyncPlaces
  <1>12. NodesOwned'
    <2>1. \A x \in Sides : IsInjective(queues'[x])
      BY <1>3, <1>5 DEF IsInjective
    <2>2. \E x \in Sides : queues'[x] = <<>>
      <3>1. \E x \in Sides : x # s
        BY DEF Sides
      <3> QED BY <1>5, <3>1
    <2>3. \A u \in InHand : node[u] # n
      BY <1>2, <1>6 DEF NodesOwned
    <2>4. \A u \in Threads : u # t /\ node'[u] = n => u \in AtOwn /\ u \notin InHand
      <3>1. \A u \in Threads : node[u] = n => place[u] \in {"meet", "own", "wait"}
        BY <1>3, SynchronousAssumption, MeetingAssumption DEF SyncTypes, SyncPlaces
      <3> QED BY <1>9, <2>3, <3>1 DEF AtOwn, InHand
    <2>5. \A u, v \in Threads : u # v /\ node'[u] = node'[v] /\ node'[u] # NoNode
                                  => (u \in InHand' <=> v \in AtOwn')
      BY <1>7, <1>8, <1>9, <2>4 DEF NodesOwned
    <2>6. \A u \in InHand' : \A x \in Sides : node'[u] \notin Queued(x)'
      BY <1>6, <1>7, <1>8, <1>9 DEF NodesOwned
    <2> QED BY <2>1, <2>2, <2>5, <2>6 DEF NodesOwned
  <1>13. \A u \in AtOwn : /\ Settled(u)' = Settled(u) /\ call'[u] = call[u] /\ node'[u] = node[u]
                          /\ u # t /\ u \in Threads
    BY <1>1, <1>7, <1>8, <1>9 DEF Settled
  <1>14. ASSUME NEW m, NEW x, Unmet(m, x) PROVE Unmet(m, x)'
    BY <1>1, <1>8, <1>13, <1>14 DEF Unmet, Owners
  <1>15. NodesUnmet'
    <2>1. \A u \in InHand' :
             \/ u \in InHand /\ node'[u] = node[u] /\ OtherSide(call[u])' = OtherSide(call[u])
             \/ node'[u] = n /\ OtherSide(call[u])' = s
      BY <1>7, <1>8, <1>9 DEF OtherSide, s
    <2>2. Unmet(n, s)
      BY <1>2, <1>6 DEF NodesUnmet
    <2>3. \A u \in InHand' : Unmet(node[u], OtherSide(call[u]))'
      BY <1>14, <2>1, <2>2 DEF NodesUnmet
    <2>4. \A x \in Sides : \A m \in Queued(x)' : Unmet(m, x)'
      BY <1>6, <1>14 DEF NodesUnmet
    <2> QED BY <1>1, <1>8, <1>13, <2>3, <2>4 DEF NodesUnmet
  <1>16. LossesCounted'
    <2>1. Stray' \subseteq Stray
      <3>1. \A u \in InHand' : \/ /\ u \in InHand /\ node'[u] = node[u]
                                  /\ Side(call[u])' = Side(call[u])
                               \/ node'[u] = n /\ Side(call[u])' = Side(c)
        BY <1>7, <1>8, <1>9 DEF Side
      <3>2. Side(c) = "put" => n \in Queued("take")
        BY <1>6, SidesAre DEF s
      <3>3. Queued("take")' \subseteq Queued("take")
        BY <1>6 DEF Sides
      <3> QED BY <1>1, <1>8, <3>1, <3>2, <3>3 DEF Stray
    <2>2. \A u \in Threads : \A x \in Sides : (u \in HalfDone(x))' <=> u \in HalfDone(x)
      BY <1>8, <1>13 DEF HalfDone
    <2> QED BY <1>1, <1>10, <2>1, <2>2, SameLosses
  <1>17. Findable'
    <2>1. \A v \in AtOwn : Side(call[v]) \in Sides /\ Side(call[v])' = Side(call[v])
      BY <1>13 DEF Side, Sides
    <2>2. ASSUME failedTakes = 0, NEW v \in AtOwn
          PROVE  \/ Settled(v) \/ node[v] \in Queued(Side(call[v]))'
                 \/ \E u \in InHand' : node'[u] = node[v]
      <3>1. \A u \in InHand : u \in InHand' /\ node'[u] = node[u]
        BY <1>7, <1>8, <1>9
      <3>2. t \in InHand' /\ node'[t] = n /\ cut = {}
        BY <1>8, <1>9, <2>2 DEF Findable
      <3>3. \/ Settled(v) \/ node[v] \in Queued(Side(call[v]))
            \/ \E u \in InHand : node[u] = node[v]
        BY <2>2 DEF Findable
      <3> QED BY <1>6, <2>1, <3>1, <3>2, <3>3
    <2>3. failedTakes' = 0 => failedTakes = 0 /\ cut' = {}
      BY <1>1 DEF Findable
    <2> QED BY <1>1, <1>8, <1>13, <2>1, <2>2, <2>3 DEF Findable
  <1> QED BY <1>10, <1>11, <1>12, <1>15, <1>16, <1>17

LEMMA EnqueueKeeps ==
  ASSUME SyncFinite, SyncInvariant, NEW t \in Threads, NEW c \in Calls, Enqueue(t, c)
  PROVE  SyncInvariant'
  <1> USE DEF SyncInvariant
  <1> DEFINE s == Side(c)
             q == queues[s]
  <1>0. PICK n \in Nodes \ Referenced :
          /\ queues' = [queues EXCEPT ![s] = Append(q, n)]
          /\ cut' = IF q = <<>> THEN cut ELSE cut \ {Last(q)}
          /\ full' = IF s = "put" THEN full \cup {n} ELSE full \ {n}
          /\ otmenyon' = otmenyon \ {n}
          /\ Move(t, c, "own", n)
    BY DEF Enqueue
  <1>1. /\ queues[OtherSide(c)] = <<>> /\ UNCHANGED <<waits, balance, failedTakes>>
        /\ place[t] \in {"idle", "start"}
    BY DEF Enqueue, history, Starts
  <1>2. s \in Sides /\ q \in Seq(Nodes) /\ IsInjective(q) /\ queues \in [Sides -> Seq(Nodes)]
        /\ \A x \in Sides : x = s \/ queues[x] = <<>>
    BY <1>1, SidesAre DEF SyncTypes, NodesOwned
  <1>3. /\ n \in Nodes /\ \A u \in Threads : node[u] # n
        /\ \A x \in Sides : n \notin Queued(x)
    BY <1>0 DEF Referenced, Queued
  <1>4. Moved(t, c, "own", n)
    BY <1>0, MoveIs
  <1>5. /\ Append(q, n) \in Seq(Nodes) /\ IsInjective(Append(q, n))
        /\ ToSet(Append(q, n)) = ToSet(q) \cup {n}
    BY <1>2, <1>3, AppendSet DEF Queued
  <1>6. /\ queues' \in [Sides -> Seq(Nodes)] /\ queues'[s] = Append(q, n)
        /\ \A x \in Sides : x # s => queues'[x] = queues[x]
    BY <1>0, <1>2, <1>5
  <1>7. /\ Queued(s)' = Queued(s) \cup {n} /\ \A x \in Sides : x # s => Queued(x)' = Queued(x)
    BY <1>5, <1>6 DEF Queued
  <1>8. /\ cut' \subseteq cut /\ \A m : m # n => ((m \in full' <=> m \in full) /\ (m \in otmenyon' <=> m \in otmenyon))
        /\ n \notin otmenyon' /\ (n \in full' <=> s = "put")
        /\ full' \subseteq Nodes /\ otmenyon' \subseteq Nodes /\ cut' \subseteq Nodes
    BY <1>0 DEF SyncTypes
  <1> HIDE DEF q
  <1>9. t \notin AtOwn /\ t \notin InHand
    BY <1>1 DEF AtOwn, InHand
  <1>10. /\ AtOwn' = AtOwn \cup {t} /\ InHand' = InHand
         /\ \A m : Owners(m)' = (IF m = n THEN Owners(m) \cup {t} ELSE Owners(m))
         /\ AtOwn \subseteq Threads /\ InHand \subseteq Threads
    <2>1. "own" \in {"own", "wait"} /\ "own" # "meet"
      OBVIOUS
    <2>2. \A m : t \notin Owners(m)
      BY <1>9 DEF Owners
    <2>3. /\ AtOwn' = AtOwn \cup {t} /\ InHand' = InHand \ {t}
          /\ \A m : Owners(m)' = (Owners(m) \ {t}) \cup (IF m = n THEN {t} ELSE {})
          /\ AtOwn \subseteq Threads /\ InHand \subseteq Threads
      BY <1>4, <2>1, MovedSets
    <2> QED BY <1>9, <2>2, <2>3
  <1>11. /\ place'[t] = "own" /\ node'[t] = n /\ call'[t] = c
         /\ \A u \in Threads : u # t => call'[u] = call[u] /\ place'[u] = place[u] /\ node'[u] = node[u]
    BY <1>4 DEF Moved
  <1>12. SyncTypes'
    BY <1>1, <1>4, <1>6, <1>8 DEF Moved, SyncTypes
  <1>13. SyncPlaces'
    <2>1. waits[t].at[t] = "running" /\ n # NoNode /\ c # NoCall
      BY <1>1, <1>3, SynchronousAssumption, MeetingAssumption DEF SyncPlaces, Calls, NoCall
    <2> QED BY <1>1, <1>11, <2>1 DEF SyncPlaces
  <1>14. Owners(n) = {}
    BY <1>3 DEF Owners, AtOwn
  <1>15. NodesOwned'
    <2>1. \A x \in Sides : IsInjective(queues'[x])
      BY <1>5, <1>6 DEF NodesOwned
    <2>2. \E x \in Sides : queues'[x] = <<>>
      BY <1>1, <1>6, SidesAre
    <2>3. \A u, v \in Threads : u # v /\ node'[u] = node'[v] /\ node'[u] # NoNode
                                  => (u \in InHand' <=> v \in AtOwn')
      BY <1>3, <1>10, <1>11 DEF NodesOwned
    <2>4. \A u \in InHand' : \A x \in Sides : node'[u] \notin Queued(x)'
      BY <1>3, <1>7, <1>9, <1>10, <1>11 DEF NodesOwned
    <2> QED BY <2>1, <2>2, <2>3, <2>4 DEF NodesOwned
  <1>16. \A u \in AtOwn : /\ Settled(u)' = Settled(u) /\ call'[u] = call[u] /\ node'[u] = node[u]
                          /\ node[u] # n /\ u # t /\ u \in Threads
    <2>1. \A u \in AtOwn : /\ call'[u] = call[u] /\ node'[u] = node[u]
                           /\ node[u] # n /\ u # t /\ u \in Threads
      BY <1>3, <1>9, <1>10, <1>11
    <2> QED BY <1>8, <2>1 DEF Settled
  <1>17. ~Settled(t)' /\ Side(call[t])' = s
    <2>1. Side(call[t])' = s
      BY <1>11 DEF Side
    <2>2. s = "put" \/ s = "take"
      BY <1>2 DEF Sides
    <2> QED BY <1>8, <1>11, <2>1, <2>2 DEF Settled
  <1>18. ASSUME NEW m, NEW x, Unmet(m, x), m # n PROVE Unmet(m, x)'
    <2>1. Owners(m)' = Owners(m) /\ Owners(m) \subseteq AtOwn
      BY <1>10, <1>18 DEF Owners
    <2> QED BY <1>8, <1>16, <1>18, <2>1 DEF Unmet
  <1>19. Unmet(n, s)'
    BY <1>10, <1>14, <1>17 DEF Unmet
  <1>20. NodesUnmet'
    <2>1. \A u \in InHand : /\ node'[u] = node[u] /\ OtherSide(call[u])' = OtherSide(call[u])
                            /\ node[u] # n
      BY <1>3, <1>9, <1>10, <1>11 DEF OtherSide
    <2>2. \A u \in InHand' : Unmet(node[u], OtherSide(call[u]))'
      BY <1>10, <1>18, <2>1 DEF NodesUnmet
    <2>3. \A x \in Sides : \A m \in Queued(x)' : Unmet(m, x)'
      BY <1>3, <1>7, <1>18, <1>19 DEF NodesUnmet
    <2>4. \A u \in AtOwn' : node'[u] \notin otmenyon'
      BY <1>8, <1>10, <1>11, <1>16 DEF NodesUnmet
    <2> QED BY <2>2, <2>3, <2>4 DEF NodesUnmet
  <1>21. LossesCounted'
    <2>1. Stray' \subseteq Stray
      <3> SUFFICES ASSUME NEW m \in Stray' PROVE m \in Stray
        OBVIOUS
      <3>1. m # n
        BY <1>10 DEF Stray
      <3>2. \A u \in InHand : node'[u] = node[u] /\ Side(call[u])' = Side(call[u])
        BY <1>9, <1>10, <1>11 DEF Side
      <3>3. m \in Queued("take")' => m \in Queued("take")
        BY <1>7, <3>1 DEF Sides
      <3> QED BY <1>8, <1>10, <3>1, <3>2, <3>3 DEF Stray
    <2>2. \A u \in Threads : \A x \in Sides : (u \in HalfDone(x))' <=> u \in HalfDone(x)
      BY <1>9, <1>10, <1>16, <1>17 DEF HalfDone
    <2> QED BY <1>1, <1>12, <2>1, <2>2, SameLosses
  <1>22. Findable'
    <2>1. \A v \in AtOwn : Side(call[v]) \in Sides /\ Side(call[v])' = Side(call[v])
      BY <1>16 DEF Side, Sides
    <2>2. ASSUME failedTakes = 0, NEW v \in AtOwn
          PROVE  \/ Settled(v) \/ node[v] \in Queued(Side(call[v]))'
                 \/ \E u \in InHand' : node'[u] = node[v]
      <3>1. \A u \in InHand : u \in InHand' /\ node'[u] = node[u]
        BY <1>9, <1>10, <1>11
      <3>2. \A x \in Sides : Queued(x) \subseteq Queued(x)'
        BY <1>7
      <3> QED BY <2>1, <2>2, <3>1, <3>2 DEF Findable
    <2>3. node'[t] \in Queued(Side(call[t]))'
      BY <1>7, <1>11, <1>17
    <2>4. failedTakes' = 0 => failedTakes = 0 /\ cut' = {}
      BY <1>1, <1>8 DEF Findable
    <2>5. failedTakes' = 0 => \A v \in AtOwn' :
            \/ Settled(v)' \/ node'[v] \in Queued(Side(call[v]))'
            \/ \E u \in InHand' : node'[u] = node'[v]
      BY <1>10, <1>16, <2>1, <2>2, <2>3, <2>4
    <2>6. \A v \in AtOwn' : Settled(v)' /\ v \in Asleep(waits'[v]) => Alert(waits'[v])
      BY <1>1, <1>10, <1>16, <1>17 DEF Findable
    <2> QED BY <2>4, <2>5, <2>6 DEF Findable
  <1> QED BY <1>12, <1>13, <1>15, <1>20, <1>21, <1>22

\* уведоми on a node: its owner, if it waits there, is bound to look.
LEMMA NotifyIs ==
  ASSUME SyncTypes, NEW n, Notify(n)
  PROVE  /\ waits' = [u \in Threads |-> waits'[u]] /\ \A u \in Threads : WaitSetOK(waits'[u], {u})
         /\ \A u \in Threads : waits'[u].at[u] = "running" <=> waits[u].at[u] = "running"
         /\ \A u \in Threads \ Owners(n) : waits'[u] = waits[u]
         /\ Owners(n) # {} => \E v \in Owners(n) :
              /\ v \in Asleep(waits'[v]) => Alert(waits'[v])
              /\ \A u \in Threads : u # v => waits'[u] = waits[u]
  <1>1. CASE Owners(n) = {} /\ UNCHANGED waits
    BY <1>1 DEF SyncTypes
  <1>2. CASE Owners(n) # {}
    <2>1. PICK v \in Owners(n) : \E w \in Uvedomi(waits[v]) : waits' = [waits EXCEPT ![v] = w]
      BY <1>2 DEF Notify
    <2>2. PICK w \in Uvedomi(waits[v]) : waits' = [waits EXCEPT ![v] = w]
      BY <2>1
    <2>3. v \in Threads /\ WaitSetOK(waits[v], {v})
      BY DEF Owners, AtOwn, SyncTypes
    <2>4. WaitSetOK(w, {v}) /\ (\/ w.at[v] = waits[v].at[v]
                                \/ waits[v].at[v] = "blocked" /\ w.at[v] = "awake")
      BY <2>3, UvedomiOK
    <2>5. v \in Asleep(w) => Alert(w)
      <3>1. v \in Asleep(w) => v \in Waiting(waits[v])
        BY <2>3, <2>4 DEF Asleep, Waiting, AtPlace, WaitSetOK, WaitSets
      <3> QED BY <2>3, <3>1, UvedomiAlerts
    <2>6. /\ waits' = [u \in Threads |-> waits'[u]] /\ \A u \in Threads : WaitSetOK(waits'[u], {u})
          /\ waits'[v] = w /\ \A u \in Threads : u # v => waits'[u] = waits[u]
      BY <2>2, <2>3, <2>4, WaitsOK
    <2> QED BY <2>3, <2>4, <2>5, <2>6
  <1> QED BY <1>1, <1>2 DEF Notify

\* What the hand-over adds to the losses: none if the node's owner v is there,
\* whose call becomes settled.
LEMMA MeetLoss ==
  ASSUME SyncTypes, NEW c \in Calls, NEW v \in Threads, Count(c),
         \A x \in Sides : v \notin HalfDone(x),
         \A x \in Sides : (v \in HalfDone(x))' <=> x = OtherSide(c)
  PROVE  LossStep(v) = 0
  <1> DEFINE b == balance'
             a1 == HalfOne("take", v)
             a2 == HalfOne("take", v)'
             b1 == HalfOne("put", v)
             b2 == HalfOne("put", v)'
             k == (b - balance) - (a2 - a1) + (b2 - b1)
  <1>1. LossStep(v) = k
    BY DEF LossStep
  <1>2. a1 = 0 /\ b1 = 0 /\ balance \in Int
    BY DEF HalfOne, One, Sides, SyncTypes
  <1>3. CASE Side(c) = "put"
    <2>1. OtherSide(c) = "take" /\ b = balance + 1
      BY <1>3, SidesAre DEF Count
    <2>2. a2 = 1 /\ b2 = 0
      BY <2>1 DEF HalfOne, One, Sides
    <2> HIDE DEF a1, a2, b1, b2, b
    <2>3. k = 0
      BY <1>2, <2>1, <2>2
    <2> QED BY <1>1, <2>3
  <1>4. CASE Side(c) = "take"
    <2>1. OtherSide(c) = "put" /\ b = balance - 1
      <3>1. OtherSide(c) = "put" /\ b = balance + -1
        BY <1>4, SidesAre DEF Count, OtherSide
      <3> HIDE DEF b
      <3> QED BY <1>2, <3>1
    <2>2. a2 = 0 /\ b2 = 1
      BY <2>1 DEF HalfOne, One, Sides
    <2> HIDE DEF a1, a2, b1, b2, b
    <2>3. k = 0
      BY <1>2, <2>1, <2>2
    <2> QED BY <1>1, <2>3
  <1> QED BY <1>3, <1>4, SidesAre DEF Sides

LEMMA MeetKeeps ==
  ASSUME SyncFinite, SyncInvariant, NEW t \in Threads, Meet(t)
  PROVE  SyncInvariant'
  <1> USE DEF SyncInvariant
  <1> DEFINE n == node[t]
             c == call[t]
             s == OtherSide(c)
  <1>1. /\ place[t] = "meet" /\ n \notin otmenyon
        /\ full' = (IF Side(c) = "put" THEN full \cup {n} ELSE full \ {n})
        /\ Notify(n) /\ Count(c) /\ Leave(t)
        /\ UNCHANGED <<queues, cut, otmenyon, failedTakes>>
    BY DEF Meet
  <1>2. t \in InHand /\ t \notin AtOwn
    BY <1>1 DEF InHand, AtOwn
  <1>3. /\ n \in Nodes /\ c \in Calls
        /\ \A u \in InHand : u # t => node[u] # n
        /\ \A x \in Sides : n \notin Queued(x)
        /\ Unmet(n, s)
    BY <1>2, HandNode
  <1>4. Moved(t, NoCall, "idle", NoNode)
    BY <1>1, LeaveIs
  <1>5. /\ AtOwn' = AtOwn /\ InHand' = InHand \ {t} /\ \A m : Owners(m)' = Owners(m)
        /\ AtOwn \subseteq Threads /\ InHand \subseteq Threads
    <2>1. "idle" \notin {"own", "wait"} /\ "idle" # "meet"
      OBVIOUS
    <2>2. \A m : t \notin Owners(m)
      BY <1>2 DEF Owners
    <2>3. /\ AtOwn' = AtOwn \ {t} /\ InHand' = InHand \ {t} /\ \A m : Owners(m)' = Owners(m) \ {t}
          /\ AtOwn \subseteq Threads /\ InHand \subseteq Threads
      BY <1>4, <2>1, MovedSets
    <2> QED BY <1>2, <2>2, <2>3
  <1>6. /\ place'[t] = "idle" /\ node'[t] = NoNode /\ call'[t] = NoCall
        /\ \A u \in Threads : u # t => call'[u] = call[u] /\ place'[u] = place[u] /\ node'[u] = node[u]
    BY <1>4 DEF Moved
  <1>7. /\ waits' = [u \in Threads |-> waits'[u]] /\ \A u \in Threads : WaitSetOK(waits'[u], {u})
        /\ \A u \in Threads : waits'[u].at[u] = "running" <=> waits[u].at[u] = "running"
        /\ \A u \in Threads \ Owners(n) : waits'[u] = waits[u]
        /\ Owners(n) # {} => \E v \in Owners(n) :
              /\ v \in Asleep(waits'[v]) => Alert(waits'[v])
              /\ \A u \in Threads : u # v => waits'[u] = waits[u]
    BY <1>1, NotifyIs
  <1>8. /\ \A m : m # n => (m \in full' <=> m \in full)
        /\ n \in full' <=> Side(c) = "put"
        /\ full' \subseteq Nodes
    BY <1>1, <1>3 DEF SyncTypes
  <1>9. SyncTypes'
    <2>1. balance' \in Int
      BY <1>1 DEF Count, SyncTypes
    <2> QED BY <1>1, <1>4, <1>7, <1>8, <2>1 DEF Moved, SyncTypes
  <1>10. SyncPlaces'
    BY <1>1, <1>6, <1>7 DEF SyncPlaces
  <1>11. \A x : Queued(x)' = Queued(x)
    BY <1>1 DEF Queued
  <1>12. NodesOwned'
    BY <1>1, <1>2, <1>5, <1>6, <1>11 DEF NodesOwned
  <1>13. \A u \in AtOwn : /\ call'[u] = call[u] /\ node'[u] = node[u] /\ u # t /\ u \in Threads
                          /\ Side(call[u])' = Side(call[u])
                          /\ node[u] # n => Settled(u)' = Settled(u)
    <2>1. \A u \in AtOwn : /\ call'[u] = call[u] /\ node'[u] = node[u] /\ u # t /\ u \in Threads
      BY <1>2, <1>5, <1>6
    <2> QED BY <1>8, <2>1 DEF Settled, Side
  <1>14. \A u \in Owners(n) : /\ u \in AtOwn /\ Side(call[u]) = s /\ ~Settled(u) /\ Settled(u)'
                              /\ node[u] = n
    <2>1. \A u \in Owners(n) : u \in AtOwn /\ Side(call[u]) = s /\ ~Settled(u) /\ node[u] = n
      BY <1>3 DEF Unmet, Owners
    <2>2. s = "take" <=> Side(c) = "put"
      BY <1>3, SidesAre
    <2> HIDE DEF s, n
    <2>3. \A u \in Owners(n) : node'[u] = n /\ Side(call[u])' = s
      BY <1>13, <2>1
    <2> QED BY <1>8, <2>1, <2>2, <2>3 DEF Settled
  <1>15. ASSUME NEW m, NEW x, Unmet(m, x), m # n PROVE Unmet(m, x)'
    <2>1. Owners(m)' = Owners(m) /\ \A u \in Owners(m) : u \in AtOwn /\ node[u] = m
      BY <1>5 DEF Owners
    <2> QED BY <1>1, <1>13, <1>15, <2>1 DEF Unmet
  <1>16. NodesUnmet'
    <2>1. \A u \in InHand' : /\ node'[u] = node[u] /\ OtherSide(call[u])' = OtherSide(call[u])
                             /\ node[u] # n /\ u \in InHand
      BY <1>3, <1>5, <1>6 DEF OtherSide
    <2>2. \A u \in InHand' : Unmet(node[u], OtherSide(call[u]))'
      BY <1>15, <2>1 DEF NodesUnmet
    <2>3. \A x \in Sides : \A m \in Queued(x)' : Unmet(m, x)'
      BY <1>3, <1>11, <1>15 DEF NodesUnmet
    <2>4. \A u \in AtOwn' : node'[u] \notin otmenyon'
      BY <1>1, <1>5, <1>13 DEF NodesUnmet
    <2> QED BY <2>2, <2>3, <2>4 DEF NodesUnmet
  <1>17. Stray' \subseteq Stray \ {n}
    <2> SUFFICES ASSUME NEW m \in Stray' PROVE m \in Stray \ {n}
      OBVIOUS
    <2>1. \A u \in InHand' : /\ node'[u] = node[u] /\ Side(call[u])' = Side(call[u])
                             /\ node[u] # n /\ u \in InHand
      BY <1>3, <1>5, <1>6 DEF Side
    <2>2. /\ m \in Nodes /\ m \notin otmenyon /\ Owners(m) = {}
          /\ m \in Queued("take") \/ \E u \in InHand' : node'[u] = m /\ (Side(call[u]) = "put")'
      BY <1>1, <1>5, <1>11 DEF Stray
    <2>3. n \notin Queued("take")
      BY <1>3 DEF Sides
    <2> HIDE DEF n
    <2> QED BY <2>1, <2>2, <2>3 DEF Stray
  <1>18. \A u \in Threads \ Owners(n) : \A x \in Sides : (u \in HalfDone(x))' <=> u \in HalfDone(x)
    <2>1. \A u \in AtOwn \ Owners(n) : node[u] # n
      BY DEF Owners
    <2> QED BY <1>5, <1>13, <2>1 DEF HalfDone
  <1>19. LossesCounted'
    <2>1. CASE Owners(n) = {}
      <3>1. s # "put" /\ Side(c) = "put"
        <4>1. s # "put"
          BY <1>1, <1>3, <2>1 DEF Unmet
        <4> QED BY <1>3, <4>1, SidesAre DEF Sides
      <3>2. n \in Stray
        BY <1>1, <1>2, <1>3, <2>1, <3>1 DEF Stray
      <3>3. LossStep(t) = 1
        <4>1. balance' = balance + 1 /\ balance \in Int
          BY <1>1, <3>1 DEF Count, SyncTypes
        <4>2. HalfOne("take", t)' = HalfOne("take", t) /\ HalfOne("put", t)' = HalfOne("put", t)
          BY <1>18, <2>1 DEF HalfOne, One, Sides
        <4>3. \A x : HalfOne(x, t) \in Int
          BY DEF HalfOne, One
        <4>4. HalfOne("take", t)' - HalfOne("take", t) = 0 /\ HalfOne("put", t)' - HalfOne("put", t) = 0
          BY <4>2, <4>3
        <4>5. balance' - balance = 1
          BY <4>1
        <4> QED BY <4>4, <4>5 DEF LossStep
      <3> HIDE DEF n
      <3> QED BY <1>1, <1>9, <1>17, <1>18, <2>1, <3>2, <3>3, LossesStay
    <2>2. CASE Owners(n) # {}
      <3>1. PICK v \in Owners(n) : TRUE
        BY <2>2
      <3>2. v \in Threads /\ v \in AtOwn
        BY <1>5, <1>14, <3>1
      <3>3. Owners(n) = {v}
        <4>1. Owners(n) = {v} \/ \E u \in Owners(n) : u # v
          BY <3>1
        <4>2. \A u \in Owners(n) : u \in AtOwn /\ node[u] = n
          BY <1>14
        <4>3. \A u \in AtOwn : u # v => node[u] # node[v]
          BY <3>2, OwnNode
        <4> QED BY <3>1, <4>1, <4>2, <4>3
      <3>4. \A x \in Sides : v \notin HalfDone(x)
        BY <1>14, <3>1 DEF HalfDone
      <3>5. \A x \in Sides : (v \in HalfDone(x))' <=> x = s
        BY <1>5, <1>13, <1>14, <3>1, <3>2 DEF HalfDone
      <3>6. LossStep(v) = 0
        BY <1>1, <1>3, <3>2, <3>4, <3>5, MeetLoss
      <3>7. Stray' \subseteq Stray
        BY <1>17
      <3> HIDE DEF n
      <3> QED BY <1>1, <1>9, <1>18, <3>2, <3>3, <3>6, <3>7, LossesStay
    <2> QED BY <2>1, <2>2
  <1>20. Findable'
    <2>1. failedTakes' = 0 => failedTakes = 0 /\ cut' = {}
      BY <1>1 DEF Findable
    <2>2. ASSUME failedTakes = 0, NEW v \in AtOwn
          PROVE  \/ Settled(v)' \/ node'[v] \in Queued(Side(call[v]))'
                 \/ \E u \in InHand' : node'[u] = node'[v]
      <3>1. CASE node[v] = n
        BY <1>14, <3>1 DEF Owners
      <3>2. CASE node[v] # n
        <4>1. \A u \in InHand : u # t => u \in InHand' /\ node'[u] = node[u]
          BY <1>5, <1>6
        <4>2. Queued(Side(call[v]))' = Queued(Side(call[v]))
          BY <1>11, <1>13
        <4>3. \/ Settled(v) \/ node[v] \in Queued(Side(call[v]))
              \/ \E u \in InHand : node[u] = node[v]
          BY <2>2 DEF Findable
        <4> QED BY <1>13, <3>2, <4>1, <4>2, <4>3
      <3> QED BY <3>1, <3>2
    <2>3. ASSUME NEW v \in AtOwn, Settled(v)', v \in Asleep(waits'[v]) PROVE Alert(waits'[v])
      <3>1. CASE v \in Owners(n)
        <4>1. PICK u \in Owners(n) : /\ u \in Asleep(waits'[u]) => Alert(waits'[u])
          BY <1>7, <3>1
        <4>2. node[u] = node[v] /\ u \in AtOwn
          BY <3>1 DEF Owners
        <4>3. u = v
          BY <4>2, OwnNode
        <4> QED BY <2>3, <4>1, <4>3
      <3>2. CASE v \notin Owners(n)
        <4>1. node[v] # n /\ waits'[v] = waits[v]
          BY <1>5, <1>7, <3>2 DEF Owners
        <4> QED BY <1>13, <2>3, <4>1 DEF Findable
      <3> QED BY <3>1, <3>2
    <2> QED BY <1>5, <2>1, <2>2, <2>3 DEF Findable
  <1> QED BY <1>9, <1>10, <1>12, <1>16, <1>19, <1>20

------------------------------------------------------------------------------
LEMMA SyncStarts == ASSUME SyncFinite PROVE Init => SyncInvariant
  <1> SUFFICES ASSUME Init PROVE SyncInvariant
    OBVIOUS
  <1>1. /\ queues = [s \in Sides |-> <<>>] /\ cut = {} /\ full = {} /\ otmenyon = {}
        /\ call = [t \in Threads |-> NoCall] /\ place = [t \in Threads |-> "idle"]
        /\ node = [t \in Threads |-> NoNode] /\ balance = 0 /\ failedTakes = 0
    BY DEF Init
  <1>2. PICK os \in Systems : waits = [t \in Threads |-> NewWaitSet(os, {t})]
    BY DEF Init
  <1>3. \A t \in Threads : WaitSetOK(waits[t], {t}) /\ waits[t].at[t] = "running"
    BY <1>2, NewWaitSetOK, SynchronousAssumption, MeetingAssumption DEF NewWaitSet
  <1>4. SyncTypes
    <2>1. waits = [t \in Threads |-> waits[t]]
      BY <1>2
    <2>2. queues \in [Sides -> Seq(Nodes)]
      BY <1>1
    <2> QED BY <1>1, <1>3, <2>1, <2>2 DEF SyncTypes
  <1>5. AtOwn = {} /\ InHand = {}
    BY <1>1 DEF AtOwn, InHand
  <1>6. \A s \in Sides : Queued(s) = {} /\ IsInjective(queues[s]) /\ queues[s] = <<>>
    BY <1>1 DEF Queued, ToSet, IsInjective
  <1>7. SyncPlaces
    BY <1>1, <1>3 DEF SyncPlaces
  <1>8. NodesOwned /\ NodesUnmet
    <2>1. "put" \in Sides
      BY DEF Sides
    <2>2. \A t \in Threads : node[t] = NoNode
      BY <1>1
    <2> QED BY <1>5, <1>6, <2>1, <2>2 DEF NodesOwned, NodesUnmet
  <1>9. LossesCounted
    <2>1. Stray = {}
      BY <1>5, <1>6 DEF Stray, Sides
    <2>2. \A s : HalfDone(s) = {}
      BY <1>5 DEF HalfDone
    <2>3. Cardinality({}) = 0
      BY FS_EmptySet
    <2>4. Lost = 0
      <3>1. HalfDone("take") = {} /\ HalfDone("put") = {}
        BY <2>2
      <3>2. Outstanding = 0 - 0
        BY <2>3, <3>1 DEF Outstanding
      <3> QED BY <1>1, <3>2 DEF Lost
    <2>5. 0 \in Nat /\ 0 + 0 <= 0
      OBVIOUS
    <2> QED BY <1>1, <2>1, <2>3, <2>4, <2>5 DEF LossesCounted
  <1>10. Findable
    BY <1>1, <1>5 DEF Findable
  <1> QED BY <1>4, <1>7, <1>8, <1>9, <1>10 DEF SyncInvariant

LEMMA SyncStep ==
  ASSUME SyncFinite, SyncInvariant, Next
  PROVE  SyncInvariant'
  <1>1. PICK t \in Threads :
          \/ \E c \in Calls : Match(t, c) \/ Enqueue(t, c)
          \/ Refused(t) \/ Meet(t) \/ MeetCancelled(t)
          \/ Finish(t) \/ Wait(t) \/ GiveUp(t)
          \/ PutFails(t) \/ TakeFails(t) \/ PollFails(t) \/ KernelStep(t)
    BY DEF Next
  <1>2. CASE \E c \in Calls : Match(t, c) \/ Enqueue(t, c)
    BY <1>2, MatchKeeps, EnqueueKeeps
  <1>3. CASE Refused(t) \/ MeetCancelled(t)
    BY <1>3, StartKeeps
  <1>4. CASE Meet(t)
    BY <1>4, MeetKeeps
  <1>5. CASE Finish(t) \/ GiveUp(t) \/ PutFails(t) \/ TakeFails(t) \/ PollFails(t)
    BY <1>5, LeaveKeeps
  <1>6. CASE Wait(t) \/ KernelStep(t)
    BY <1>6, WaitKeeps
  <1> QED BY <1>1, <1>2, <1>3, <1>4, <1>5, <1>6

LEMMA SyncStutters == ASSUME SyncInvariant, UNCHANGED vars PROVE SyncInvariant'
  <1>1. UNCHANGED <<queues, cut, full, otmenyon, waits, call, place, node, balance, failedTakes>>
    BY DEF vars
  <1>2. /\ AtOwn' = AtOwn /\ InHand' = InHand /\ \A m : Owners(m)' = Owners(m)
        /\ \A s : Queued(s)' = Queued(s) /\ \A u : Settled(u)' = Settled(u)
    BY <1>1 DEF AtOwn, InHand, Owners, Queued, Settled
  <1>3. /\ \A n, s : Unmet(n, s)' <=> Unmet(n, s)
        /\ Stray' = Stray /\ \A x : HalfDone(x)' = HalfDone(x)
    BY <1>1, <1>2 DEF Unmet, Stray, HalfDone
  <1>4. Lost' = Lost
    BY <1>1, <1>3 DEF Lost, Outstanding
  <1>5. SyncTypes' /\ SyncPlaces' /\ NodesOwned' /\ NodesUnmet'
    BY <1>1, <1>2, <1>3 DEF SyncInvariant, SyncTypes, SyncPlaces, NodesOwned, NodesUnmet
  <1>6. LossesCounted' /\ Findable'
    BY <1>1, <1>2, <1>3, <1>4 DEF SyncInvariant, LossesCounted, Findable
  <1> QED BY <1>5, <1>6 DEF SyncInvariant

\* The inductive invariant of the channel: what is true of its queues and of the
\* nodes outside them between any two steps.
THEOREM SyncKept == ASSUME SyncFinite PROVE Spec => []SyncInvariant
  <1>1. Init => SyncInvariant
    BY SyncStarts
  <1>2. SyncInvariant /\ [Next]_vars => SyncInvariant'
    BY SyncStep, SyncStutters
  <1> QED BY <1>1, <1>2, PTL DEF Spec

\* A put that has returned has its take and a take its put, but for one item at
\* most of each take whose wait failed (СинхронныйКанал: the four calls, their
\* cancellations and their catch clauses).
THEOREM ItemsHandedOver == ASSUME SyncFinite PROVE Spec => []HandOver
  <1>1. SyncInvariant => HandOver
    <2> SUFFICES ASSUME SyncInvariant PROVE HandOver
      OBVIOUS
    <2>1. /\ Lost \in Nat /\ Lost + Cardinality(Stray) <= failedTakes /\ failedTakes \in Nat
      BY DEF SyncInvariant, LossesCounted, SyncTypes
    <2>2. Cardinality(Stray) \in Nat
      <3>1. Stray \subseteq Nodes
        BY DEF Stray
      <3> QED BY <3>1, FS_Subset, FS_CardinalityType DEF SyncFinite
    <2>3. Lost \in 0..failedTakes
      BY <2>1, <2>2
    <2> QED BY <2>3 DEF HandOver, Lost
  <1> QED BY <1>1, SyncKept, PTL

\* Whoever waits is found, by a partner or by its notification, as long as no
\* wait of a take has failed; and a put and a take never wait past each other
\* (СинхронныйКанал: the two queues, and the node's own monitor).
THEOREM NobodyWaitsPast == ASSUME SyncFinite PROVE Spec => []NobodyMissed
  <1>1. SyncInvariant => NobodyMissed
    <2> SUFFICES ASSUME SyncInvariant PROVE NobodyMissed
      OBVIOUS
    <2> USE DEF SyncInvariant
    <2>1. \A s \in Sides : \A n : n \in Queued(s) => Contains(queues[s], n)
      <3>1. \A q \in Seq(Nodes) : DOMAIN q = 1..Len(q)
        OBVIOUS
      <3>2. \A s \in Sides : DOMAIN queues[s] = 1..Len(queues[s])
        BY <3>1 DEF SyncTypes
      <3> QED BY <3>2 DEF Queued, ToSet, Contains
    <2>2. ASSUME failedTakes = 0, NEW t \in AtOwn
          PROVE  \/ Settled(t) /\ (t \in Asleep(waits[t]) => Alert(waits[t]))
                 \/ ~Settled(t) /\ node[t] \notin otmenyon
                      /\ \/ Contains(queues[Side(call[t])], node[t])
                         \/ \E u \in Threads : place[u] = "meet" /\ node[u] = node[t]
      <3>1. node[t] \notin otmenyon /\ Side(call[t]) \in Sides
        BY DEF NodesUnmet, Side, Sides
      <3>2. /\ Settled(t) /\ t \in Asleep(waits[t]) => Alert(waits[t])
            /\ \/ Settled(t) \/ node[t] \in Queued(Side(call[t]))
               \/ \E u \in Threads : place[u] = "meet" /\ node[u] = node[t]
        BY <2>2 DEF Findable, InHand
      <3> QED BY <2>1, <3>1, <3>2
    <2>3. \E s \in Sides : queues[s] = <<>>
      BY DEF NodesOwned
    <2> QED BY <2>2, <2>3 DEF NobodyMissed
  <1> QED BY <1>1, SyncKept, PTL
==============================================================================
