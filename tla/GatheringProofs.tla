--------------------------- MODULE GatheringProofs ---------------------------
(***************************************************************************)
(* The gates and the barrier, for any threads and any count, and on either *)
(* platform.                                                               *)
(*                                                                         *)
(* The gates.  GateInv has, besides the types,                             *)
(*   Opened        what the gate's fields say of the calls of отпусти;     *)
(*   GateParked    who waits is in a call;                                 *)
(*   NoEarlyPassage, NobodyAsleep                                          *)
(*                 of Gates.                                               *)
(* With Opened the first says that a gate somebody has passed is open, and *)
(* the second is what the one уведомиВсех has to achieve: no отпусти after *)
(* the one that opens the gate notifies again.                             *)
(*                                                                         *)
(* The barrier.  PartyInv has, besides the types,                          *)
(*   BarrierParked  who waits is in the wait of делайБарьер;               *)
(*   NoneAhead      nobody is of a generation later than the current one;  *)
(*   Descending     a member's index is at least the places left, so that  *)
(*                  the next one to come, who gets the number before it,   *)
(*                  has an index of its own;                               *)
(*   CountsMembers, IndexesUnique                                          *)
(*                  of CyclicBarrier.                                      *)
(* Outcomes, on top of it, says how the calls of each generation may have  *)
(* ended: nobody leaves a generation that is over by itself.               *)
(***************************************************************************)
EXTENDS Gates, CyclicBarrier, CommonTheorems

Opened ==
  IF cls = "latch" THEN latched_ <=> released >= 1
                   ELSE schyot_ = initial_ - released

GateParked ==
  \A t \in Threads :
    monitor.at[t] # "running" => phase[t] \in {"acquire", "attempt"}

GateInv == TypeOK /\ Opened /\ GateParked /\ NoEarlyPassage /\ NobodyAsleep

\* The gate is open exactly when it has been released often enough.
LEMMA OpenMeaning ==
  ASSUME TypeOK, Opened
  PROVE  Open <=> released >= (IF cls = "latch" THEN 1 ELSE initial_)
  BY GatesAssumption, GatheringAssumption DEF TypeOK, Opened, Open

LEMMA GateInitInv == GateInit => GateInv
  <1> SUFFICES ASSUME GateInit PROVE GateInv
    OBVIOUS
  <1>1. PICK os \in Systems : monitor = NewWaitSet(os, Threads)
    BY DEF GateInit
  <1>2. WaitSetOK(monitor, Threads) /\ Asleep(monitor) = {}
        /\ \A t \in Threads : monitor.at[t] = "running"
    BY <1>1, NewWaitSetOK, GatesAssumption, GatheringAssumption DEF NewWaitSet, Asleep, AtPlace
  <1>3. initial_ \in Int /\ schyot_ = initial_ /\ released \in 0..MaxReleases
    BY GatesAssumption, GatheringAssumption DEF GateInit
  <1>4. TypeOK
    BY <1>2, <1>3 DEF GateInit, TypeOK, Phases
  <1>5. Opened
    BY <1>3 DEF GateInit, Opened
  <1>6. GateParked /\ NoEarlyPassage /\ NobodyAsleep
    BY <1>2 DEF GateInit, GateParked, NoEarlyPassage, NobodyAsleep
  <1> QED BY <1>4, <1>5, <1>6 DEF GateInv

\* A thread that comes back from жди without touching the gate.
LEMMA GateBackInv ==
  ASSUME GateInv, NEW t \in Threads, NEW p \in {"idle", "past"}, p = "past" => Open,
         monitor' = Resume(monitor, t), Goto(t, p), UNCHANGED gate
  PROVE  GateInv' /\ Asleep(monitor') \subseteq Asleep(monitor)
  <1>1. /\ WaitSetOK(monitor', Threads)
        /\ \A s \in Threads : s # t => monitor'.at[s] = monitor.at[s]
        /\ monitor'.at[t] = "running"
        /\ monitor'.os = monitor.os /\ Asleep(monitor') \subseteq Asleep(monitor)
    BY ResumeOK DEF GateInv, TypeOK
  <1>2. TypeOK' /\ Opened' /\ GateParked'
    BY <1>1 DEF GateInv, TypeOK, Opened, GateParked, Goto, gate, Phases
  <1>3. NoEarlyPassage'
    BY OpenMeaning DEF GateInv, NoEarlyPassage, TypeOK, Goto, gate
  <1>4. NobodyAsleep'
    BY <1>1 DEF GateInv, NobodyAsleep, Open, gate
  <1> QED BY <1>1, <1>2, <1>3, <1>4 DEF GateInv

LEMMA GateWaitInv ==
  ASSUME GateInv, NEW t \in Threads, NEW call \in {"acquire", "attempt"}, Wait(t, call)
  PROVE  GateInv'
  <1>1. /\ WaitSetOK(monitor', Threads)
        /\ \A s \in Threads : s # t => monitor'.at[s] = monitor.at[s]
    BY ZhdiOK DEF GateInv, TypeOK, Wait
  <1>2. TypeOK' /\ Opened' /\ GateParked'
    BY <1>1 DEF GateInv, TypeOK, Opened, GateParked, Wait, Goto, gate, Phases
  <1>3. NoEarlyPassage' /\ NobodyAsleep'
    BY DEF GateInv, NoEarlyPassage, NobodyAsleep, TypeOK, Open, Wait, Goto, gate
  <1> QED BY <1>2, <1>3 DEF GateInv

\* отпусти: it notifies exactly when it opens the gate.
LEMMA ReleaseInv ==
  ASSUME GateInv, NEW t \in Threads, Release(t)
  PROVE  GateInv' /\ Asleep(monitor') \subseteq Asleep(monitor)
  <1>1. /\ WaitSetOK(monitor', Threads)
        /\ \A s \in Threads : \/ monitor'.at[s] = monitor.at[s]
                              \/ monitor.at[s] = "blocked"
        /\ monitor'.os = monitor.os /\ Asleep(monitor') \subseteq Asleep(monitor)
        /\ \/ monitor' = monitor /\ cls # "latch" /\ schyot_ # 1
           \/ monitor.os = "linux" => Asleep(monitor') = {}
    BY ZenonT(60), UvedomiVsehOK DEF GateInv, TypeOK, Release
  <1>2. TypeOK'
    <2>1. latched_' \in BOOLEAN
      BY DEF GateInv, TypeOK, Release
    <2>2. schyot_' \in Int /\ released' \in 0..MaxReleases
      BY GatesAssumption, GatheringAssumption DEF GateInv, TypeOK, Release
    <2> QED BY <1>1, <2>1, <2>2 DEF GateInv, TypeOK, Release
  <1>3. Opened'
    <2>1. released \in Nat /\ released' >= 1 /\ cls' = cls
      BY GatesAssumption, GatheringAssumption DEF GateInv, TypeOK, Release
    <2>2. CASE cls = "latch"
      <3>1. latched_' = TRUE
        BY <2>2 DEF Release
      <3> QED BY <2>1, <2>2, <3>1 DEF Opened
    <2>3. CASE cls # "latch"
      BY <2>1, <2>3 DEF GateInv, TypeOK, Opened, Release
    <2> QED BY <2>2, <2>3
  <1>4. GateParked'
    BY <1>1 DEF GateInv, GateParked, Release
  <1>5. NoEarlyPassage'
    BY GatesAssumption, GatheringAssumption DEF GateInv, TypeOK, NoEarlyPassage, Release
  <1>6. NobodyAsleep'
    <2>1. CASE monitor.os = "linux" => Asleep(monitor') = {}
      BY <1>1, <2>1 DEF NobodyAsleep
    <2>2. CASE monitor' = monitor /\ cls # "latch" /\ schyot_ # 1
      <3>1. Open' => Open
        BY <2>2 DEF GateInv, TypeOK, Release, Open
      <3> QED BY <2>2, <3>1 DEF GateInv, NobodyAsleep
    <2> QED BY <1>1, <2>1, <2>2
  <1> QED BY <1>1, <1>2, <1>3, <1>4, <1>5, <1>6 DEF GateInv

LEMMA GateKernelInv ==
  ASSUME GateInv, NEW t \in Threads, GateKernelStep(t)
  PROVE  GateInv' /\ Asleep(monitor') \subseteq Asleep(monitor)
  <1>1. monitor' \in KernelSteps(monitor, t, phase[t] = "attempt")
        /\ UNCHANGED <<gate, phase>>
    BY DEF GateKernelStep
  <1>2. /\ WaitSetOK(monitor', Threads)
        /\ \A s \in Threads : s # t => monitor'.at[s] = monitor.at[s]
        /\ t \in Waiting(monitor)
        /\ monitor'.os = monitor.os /\ Asleep(monitor') \subseteq Asleep(monitor)
    BY <1>1, KernelStepOK DEF GateInv, TypeOK
  <1>3. monitor.at[t] # "running"
    BY <1>2 DEF Waiting, AtPlace
  <1>4. TypeOK' /\ Opened' /\ GateParked' /\ NoEarlyPassage'
    BY <1>1, <1>2, <1>3 DEF GateInv, TypeOK, Opened, GateParked, NoEarlyPassage, gate
  <1>5. NobodyAsleep'
    BY <1>1, <1>2 DEF GateInv, NobodyAsleep, Open, gate
  <1> QED BY <1>2, <1>4, <1>5 DEF GateInv

\* A step keeps the invariant, and puts nobody to sleep unless the gate is shut.
LEMMA GateNextInv ==
  ASSUME GateInv, [GateNext]_gateVars
  PROVE  GateInv' /\ (Open => Asleep(monitor') \subseteq Asleep(monitor))
  <1> DEFINE OK == GateInv' /\ (Open => Asleep(monitor') \subseteq Asleep(monitor))
  <1>1. ASSUME NEW t \in Threads, Pass(t) \/ GiveUp(t) \/ GateWaitFailed(t) PROVE OK
    BY <1>1, GateBackInv DEF Pass, GiveUp, GateWaitFailed
  <1>2. ASSUME NEW t \in Threads, NEW call \in {"acquire", "attempt"}, Wait(t, call)
        PROVE OK
    BY <1>2, GateWaitInv DEF Wait
  <1>3. ASSUME NEW t \in Threads, Acquire(t) \/ Attempt(t) PROVE OK
    BY <1>1, <1>2, <1>3 DEF Acquire, Attempt
  <1>4. ASSUME UNCHANGED gateVars PROVE OK
    BY <1>4 DEF GateInv, gateVars, TypeOK, Opened, GateParked, NoEarlyPassage, NobodyAsleep, Open
  <1> QED
    BY <1>1, <1>3, <1>4, ReleaseInv, GateKernelInv DEF GateNext

(* Everything below holds of every reachable state.                         *)
THEOREM GateInvariance == GateSpec => []GateInv
  BY GateInitInv, GateNextInv, PTL DEF GateSpec

(* Type correctness, with the wait set of the platform.                     *)
THEOREM GateTypes == GateSpec => []TypeOK
  BY GateInvariance, PTL DEF GateInv

(* Nobody passes before the отпусти that opens the gate.                    *)
THEOREM PassageIsLate == GateSpec => []NoEarlyPassage
  BY GateInvariance, PTL DEF GateInv

(* On linux nobody sleeps behind an open gate, although отпусти notifies    *)
(* only once.                                                               *)
THEOREM NoSleeper == GateSpec => []NobodyAsleep
  BY GateInvariance, PTL DEF GateInv

LEMMA StepStaysOpen ==
  ASSUME GateInv, [GateNext]_gateVars, \E t \in Threads : phase[t] = "past"
  PROVE  Asleep(monitor') \subseteq Asleep(monitor)
  <1>1. Open
    BY OpenMeaning DEF GateInv, NoEarlyPassage
  <1> QED BY <1>1, GateNextInv

(* Once somebody has passed, no thread goes to sleep any more.              *)
THEOREM OpenForEver == GateSpec => StaysOpen
  <1>1. GateInv /\ [GateNext]_gateVars =>
          [(\E t \in Threads : phase[t] = "past")
             => Asleep(monitor') \subseteq Asleep(monitor)]_gateVars
    BY StepStaysOpen
  <1> QED BY <1>1, GateInvariance, PTL DEF GateSpec, StaysOpen
------------------------------------------------------------------------------
(* The barrier. *)

Finite == IsFiniteSet(Threads)

Generations == 0..MaxResets
Ends == {"passed", "noValue", "left"}

BarrierTypes ==
  /\ schyot_ \in Int /\ sbrosy_ \in Generations /\ sorvan_ \in BOOLEAN
  /\ command \in Commands
  /\ WaitSetOK(monitor, Threads)
  /\ phase \in [Threads -> {"idle", "barrier", "attempt"}]
  /\ index \in [Threads -> Int] /\ r \in [Threads -> Generations]
  /\ results \in [Generations -> SUBSET Ends]
  /\ restarted \in SUBSET Generations

BarrierParked == \A t \in Threads : monitor.at[t] = "running" <=> phase[t] = "idle"

\* Nobody waits for a generation that is still to come.
NoneAhead == \A t \in Threads : phase[t] # "idle" => r[t] <= sbrosy_

\* Who comes next gets an index that is smaller than all before it.
Descending == ~sorvan_ => \A t \in Members(sbrosy_) : index[t] >= schyot_

PartyInv ==
  /\ BarrierTypes /\ BarrierParked /\ NoneAhead /\ Descending
  /\ CountsMembers /\ IndexesUnique

LEMMA PartyInit == Init => PartyInv
  <1> SUFFICES ASSUME Init PROVE PartyInv
    OBVIOUS
  <1>1. PICK os \in Systems : monitor = NewWaitSet(os, Threads)
    BY DEF Init
  <1>2. WaitSetOK(monitor, Threads) /\ \A t \in Threads : monitor.at[t] = "running"
    BY <1>1, NewWaitSetOK, GatheringAssumption DEF NewWaitSet
  <1>3. /\ \A t \in Threads : phase[t] = "idle"
        /\ schyot_ = Parties /\ sorvan_ = FALSE
    BY DEF Init
  <1>4. BarrierTypes
    <2>1. 0 \in Generations /\ Parties \in Int
      BY CyclicBarrierAssumption DEF Generations
    <2>2. schyot_ \in Int /\ sbrosy_ \in Generations /\ index \in [Threads -> Int]
          /\ r \in [Threads -> Generations]
      BY <2>1 DEF Init
    <2>3. results \in [Generations -> SUBSET Ends] /\ restarted \in SUBSET Generations
      BY DEF Init, Generations
    <2> QED BY <1>2, <2>2, <2>3 DEF Init, BarrierTypes
  <1>5. BarrierParked /\ NoneAhead /\ Descending /\ IndexesUnique
    BY <1>2, <1>3 DEF BarrierParked, NoneAhead, Descending, IndexesUnique, Members
  <1>6. CountsMembers
    <2>1. Members(sbrosy_) = {}
      BY <1>3 DEF Members
    <2> QED BY <1>3, <2>1, FS_EmptySet, CyclicBarrierAssumption DEF CountsMembers
  <1> QED BY <1>4, <1>5, <1>6 DEF PartyInv

\* All but t go on as they were, and t is outside.
Outside(t) ==
  /\ phase' = [phase EXCEPT ![t] = "idle"]
  /\ \A u \in Threads : u # t => index'[u] = index[u] /\ r'[u] = r[u]

LEMMA OutsideMembers ==
  ASSUME BarrierTypes, NEW t \in Threads, Outside(t), NEW g
  PROVE  /\ Members(g)' \subseteq Members(g)
         /\ phase[t] = "idle" \/ r[t] # g => Members(g)' = Members(g)
  BY DEF BarrierTypes, Outside, Members

\* The generation is over, or broken, or none of its members has left.
LEMMA OutsideParty ==
  ASSUME PartyInv, BarrierTypes', BarrierParked', NEW t \in Threads, Outside(t),
         \/ sorvan_' = TRUE /\ sbrosy_' = sbrosy_
         \/ sbrosy_' = sbrosy_ + 1 /\ schyot_' = Parties
         \/ /\ UNCHANGED barrier
            /\ phase[t] = "idle" \/ r[t] # sbrosy_
  PROVE  PartyInv'
  <1>1. /\ sbrosy_ \in Nat /\ schyot_ \in Int /\ phase \in [Threads -> {"idle", "barrier", "attempt"}]
        /\ r \in [Threads -> Nat] /\ Parties \in Nat \ {0}
        /\ \A u \in Threads : phase'[u] # "idle" =>
             phase[u] # "idle" /\ index'[u] = index[u] /\ r'[u] = r[u]
    BY CyclicBarrierAssumption DEF PartyInv, BarrierTypes, Generations, Outside
  <1>2. NoneAhead'
    BY <1>1 DEF PartyInv, NoneAhead, barrier
  <1>3. IndexesUnique'
    BY <1>1 DEF PartyInv, IndexesUnique
  <1>4. Descending' /\ CountsMembers'
    <2>1. CASE sorvan_' = TRUE
      BY <2>1 DEF Descending, CountsMembers
    <2>2. CASE sbrosy_' = sbrosy_ + 1 /\ schyot_' = Parties
      <3>1. Members(sbrosy_)' = {}
        BY <1>1, <2>2 DEF PartyInv, NoneAhead, Members
      <3> QED BY <1>1, <2>2, <3>1, FS_EmptySet DEF Descending, CountsMembers
    <2>3. CASE UNCHANGED barrier /\ (phase[t] = "idle" \/ r[t] # sbrosy_)
      <3>1. Members(sbrosy_)' = Members(sbrosy_)
        <4>1. Members(sbrosy_)' = {u \in Threads : phase'[u] # "idle" /\ r'[u] = sbrosy_}
          BY <2>3 DEF Members, barrier
        <4> QED BY <1>1, <2>3, <4>1 DEF Members, Outside
      <3>2. CountsMembers'
        BY <2>3, <3>1 DEF PartyInv, CountsMembers, barrier
      <3>3. Descending'
        BY <1>1, <2>3, <3>1 DEF PartyInv, Descending, barrier, Members
      <3> QED BY <3>2, <3>3
    <2> QED BY <2>1, <2>2, <2>3
  <1> QED BY <1>2, <1>3, <1>4 DEF PartyInv

\* A step that leaves the parties and the generation alone.
LEMMA SameParty ==
  ASSUME PartyInv, BarrierTypes', BarrierParked', UNCHANGED <<barrier, phase, index, r>>
  PROVE  PartyInv'
  <1>1. \A g : Members(g)' = Members(g)
    BY DEF Members
  <1> QED BY <1>1 DEF PartyInv, NoneAhead, Descending, CountsMembers, IndexesUnique, barrier, Members

\* What the end of a call leaves behind.
LEMMA EndEffect ==
  ASSUME BarrierTypes, NEW t \in Threads, NEW g \in Generations,
         NEW how \in Ends \cup {"broken"}, End(t, g, how)
  PROVE  /\ Outside(t)
         /\ phase' \in [Threads -> {"idle", "barrier", "attempt"}]
         /\ index' \in [Threads -> Int] /\ r' \in [Threads -> Generations]
         /\ results' \in [Generations -> SUBSET Ends]
  <1>1. 0 \in Generations
    BY CyclicBarrierAssumption DEF Generations
  <1>2. /\ phase' = [phase EXCEPT ![t] = "idle"]
        /\ index' = [index EXCEPT ![t] = 0] /\ r' = [r EXCEPT ![t] = 0]
        /\ results' = [results EXCEPT ![g] = results[g] \cup ({how} \ {"broken"})]
    BY DEF End, Goto
  <1>3. results' \in [Generations -> SUBSET Ends]
    BY <1>2 DEF BarrierTypes
  <1> QED BY <1>1, <1>2, <1>3 DEF BarrierTypes, Outside

\* What the monitor is after a thread has come back, or stayed outside, and has
\* or has not woken the others.
BackOK(t) ==
  /\ WaitSetOK(monitor', Threads) /\ monitor'.at[t] = "running"
  /\ \A u \in Threads : u # t => (monitor'.at[u] = "running" <=> monitor.at[u] = "running")

LEMMA BackEffect ==
  ASSUME BarrierTypes, NEW t \in Threads,
         \/ monitor' = Resume(monitor, t)
         \/ monitor' = UvedomiVseh(Resume(monitor, t))
         \/ monitor.at[t] = "running" /\ monitor' \in {monitor, UvedomiVseh(monitor)}
  PROVE  BackOK(t)
  <1>1. WaitSetOK(monitor, Threads)
    BY DEF BarrierTypes
  <1>2. /\ WaitSetOK(Resume(monitor, t), Threads) /\ Resume(monitor, t).at[t] = "running"
        /\ \A u \in Threads : u # t => Resume(monitor, t).at[u] = monitor.at[u]
    BY <1>1, ResumeOK
  <1>3. CASE monitor' = Resume(monitor, t)
    BY <1>2, <1>3 DEF BackOK
  <1>4. CASE monitor' = UvedomiVseh(Resume(monitor, t))
    BY <1>2, <1>4, UvedomiVsehOK DEF BackOK
  <1>5. CASE monitor.at[t] = "running" /\ monitor' \in {monitor, UvedomiVseh(monitor)}
    BY <1>1, <1>5, UvedomiVsehOK DEF BackOK
  <1> QED BY <1>3, <1>4, <1>5

\* A call that ends here.
LEMMA EndParty ==
  ASSUME PartyInv, NEW t \in Threads, NEW g \in Generations,
         NEW how \in Ends \cup {"broken"}, End(t, g, how), BackOK(t),
         sorvan_' \in BOOLEAN, schyot_' \in Int, sbrosy_' \in Generations,
         UNCHANGED <<command, restarted>>,
         \/ sorvan_' = TRUE /\ sbrosy_' = sbrosy_
         \/ sbrosy_' = sbrosy_ + 1 /\ schyot_' = Parties
         \/ UNCHANGED barrier /\ r[t] # sbrosy_
  PROVE  PartyInv'
  <1>1. /\ Outside(t)
        /\ phase' \in [Threads -> {"idle", "barrier", "attempt"}]
        /\ index' \in [Threads -> Int] /\ r' \in [Threads -> Generations]
        /\ results' \in [Generations -> SUBSET Ends]
    BY EndEffect DEF PartyInv
  <1>2. BarrierTypes'
    BY <1>1 DEF PartyInv, BarrierTypes, BackOK
  <1>3. BarrierParked'
    BY <1>1 DEF PartyInv, BarrierTypes, BarrierParked, BackOK, Outside
  <1> QED BY <1>1, <1>2, <1>3, OutsideParty

LEMMA EnterWaitParty ==
  ASSUME Finite, PartyInv, NEW t \in Threads, NEW call \in {"barrier", "attempt"},
         EnterWait(t, call)
  PROVE  PartyInv'
  <1> DEFINE M == Members(sbrosy_)
  <1>1. /\ schyot_ \in Int /\ sbrosy_ \in Generations /\ sbrosy_ \in Nat /\ Parties \in Nat
        /\ phase \in [Threads -> {"idle", "barrier", "attempt"}]
        /\ index \in [Threads -> Int] /\ r \in [Threads -> Generations]
        /\ phase[t] = "idle" /\ sorvan_ = FALSE /\ schyot_ # 1
    BY CyclicBarrierAssumption DEF PartyInv, BarrierTypes, Generations, EnterWait
  <1>2. /\ schyot_' = schyot_ - 1 /\ UNCHANGED <<sbrosy_, sorvan_, command, results, restarted>>
        /\ index' = [index EXCEPT ![t] = schyot_ - 1] /\ r' = [r EXCEPT ![t] = sbrosy_]
        /\ phase' = [phase EXCEPT ![t] = call]
    BY DEF EnterWait, Goto
  <1>3. /\ WaitSetOK(monitor', Threads) /\ monitor'.at[t] # "running"
        /\ \A u \in Threads : u # t => monitor'.at[u] = monitor.at[u]
    <2>1. WaitSetOK(monitor, Threads) /\ monitor' = Zhdi(monitor, t)
      BY DEF PartyInv, BarrierTypes, EnterWait
    <2>2. Zhdi(monitor, t).at[t] # "running"
      BY <2>1, ZhdiOK
    <2> QED BY <2>1, <2>2, ZhdiOK
  <1>4. BarrierTypes'
    BY <1>1, <1>2, <1>3 DEF PartyInv, BarrierTypes
  <1>5. BarrierParked' /\ NoneAhead'
    BY <1>1, <1>2, <1>3 DEF PartyInv, BarrierParked, NoneAhead
  <1>6. M' = M \cup {t} /\ t \notin M /\ M \subseteq Threads
    BY <1>1, <1>2 DEF Members
  <1>7. Cardinality(M) \in Nat /\ Cardinality(M') = Cardinality(M) + 1
    BY <1>6, FS_Subset, FS_CardinalityType, FS_AddElement DEF Finite
  <1>8. schyot_ = Parties - Cardinality(M) /\ schyot_ >= 1
    BY <1>1 DEF PartyInv, CountsMembers
  <1>9. CountsMembers'
    BY <1>1, <1>2, <1>7, <1>8 DEF CountsMembers
  <1>10. /\ schyot_ - 1 \in 1..(Parties - 1)
         /\ \A u \in M : index[u] # schyot_ - 1 /\ index[u] >= schyot_ - 1
    BY <1>1, <1>7, <1>8 DEF PartyInv, Descending, Members
  <1>11. IndexesUnique'
    BY <1>1, <1>2, <1>10 DEF PartyInv, IndexesUnique, Members
  <1>12. Descending'
    BY <1>1, <1>2, <1>6, <1>10 DEF Descending, Members
  <1> QED BY <1>4, <1>5, <1>9, <1>11, <1>12 DEF PartyInv

LEMMA TripParty ==
  ASSUME PartyInv, NEW t \in Threads, Trip(t)
  PROVE  PartyInv'
  <1>1. /\ phase[t] = "idle" /\ sbrosy_ < MaxResets /\ sbrosy_ \in Generations
        /\ schyot_' = Parties /\ sbrosy_' = sbrosy_ + 1
        /\ sorvan_' \in BOOLEAN /\ UNCHANGED <<command, restarted>>
        /\ monitor' = UvedomiVseh(monitor)
    BY DEF PartyInv, BarrierTypes, Trip
  <1>2. PICK how \in Ends : End(t, sbrosy_, how)
    BY DEF Trip, Ends
  <1>3. sbrosy_' \in Generations /\ schyot_' \in Int
    BY <1>1, CyclicBarrierAssumption DEF Generations
  <1>4. BackOK(t)
    BY <1>1, BackEffect DEF PartyInv, BarrierParked
  <1> QED BY <1>1, <1>2, <1>3, <1>4, EndParty

LEMMA RestartParty ==
  ASSUME PartyInv, NEW t \in Threads, Restart(t)
  PROVE  PartyInv'
  <1>1. /\ phase[t] = "idle" /\ sbrosy_ < MaxResets /\ sbrosy_ \in Generations
        /\ schyot_' = Parties /\ sbrosy_' = sbrosy_ + 1 /\ sorvan_' = FALSE
        /\ UNCHANGED <<command, phase, index, r, results>>
        /\ monitor' = UvedomiVseh(monitor) /\ restarted' = restarted \cup {sbrosy_}
    BY DEF PartyInv, BarrierTypes, Restart
  <1>2. sbrosy_' \in Generations /\ schyot_' \in Int
    BY <1>1, CyclicBarrierAssumption DEF Generations
  <1>3. BackOK(t)
    BY <1>1, BackEffect DEF PartyInv, BarrierParked
  <1>4. BarrierTypes'
    BY <1>1, <1>2, <1>3 DEF PartyInv, BarrierTypes, BackOK
  <1>5. BarrierParked'
    BY <1>1, <1>3 DEF PartyInv, BarrierParked, BackOK
  <1>6. Outside(t)
    BY <1>1 DEF PartyInv, BarrierTypes, Outside
  <1> QED BY <1>1, <1>4, <1>5, <1>6, OutsideParty

\* The other ends of a call: the caller was turned away, or leaves a barrier that
\* it breaks or that is broken, or one that has passed on to another generation.
LEMMA LeaveParty ==
  ASSUME PartyInv, NEW t \in Threads,
         \/ EnterBroken(t) \/ EnterTimeless(t) \/ LeaveBroken(t) \/ LeavePassed(t)
         \/ TimesOut(t) \/ WaitFailed(t)
  PROVE  PartyInv'
  <1>1. BackOK(t)
    BY BackEffect
    DEF PartyInv, BarrierParked, EnterBroken, EnterTimeless, LeaveBroken, LeavePassed,
        TimesOut, WaitFailed, Break
  <1>2. PICK g \in Generations, how \in Ends \cup {"broken"} : End(t, g, how)
    BY DEF PartyInv, BarrierTypes, Ends, EnterBroken, EnterTimeless, LeaveBroken,
           LeavePassed, TimesOut, WaitFailed
  <1>3. /\ schyot_' \in Int /\ sbrosy_' \in Generations /\ sorvan_' \in BOOLEAN
        /\ UNCHANGED <<command, restarted>>
        /\ \/ sorvan_' = TRUE /\ sbrosy_' = sbrosy_
           \/ UNCHANGED barrier /\ r[t] # sbrosy_
    <2>1. schyot_ \in Int /\ sbrosy_ \in Generations /\ sorvan_ \in BOOLEAN
      BY DEF PartyInv, BarrierTypes
    <2>2. CASE EnterBroken(t)
      BY <2>1, <2>2 DEF EnterBroken
    <2>3. CASE EnterTimeless(t)
      BY <2>1, <2>3 DEF EnterTimeless, Break
    <2>4. CASE LeaveBroken(t)
      BY <2>1, <2>4 DEF LeaveBroken, barrier
    <2>5. CASE LeavePassed(t)
      BY <2>1, <2>5 DEF LeavePassed, barrier
    <2>6. CASE TimesOut(t) \/ WaitFailed(t)
      BY <2>1, <2>6 DEF TimesOut, WaitFailed, Break
    <2> QED BY <2>2, <2>3, <2>4, <2>5, <2>6
  <1> QED BY <1>1, <1>2, <1>3, EndParty

LEMMA StayParty ==
  ASSUME PartyInv, NEW t \in Threads, WaitAgain(t) \/ SetCommand(t) \/ KernelStep(t)
  PROVE  PartyInv'
  <1>1. UNCHANGED <<barrier, phase, index, r, results, restarted>> /\ command' \in Commands
    BY DEF PartyInv, BarrierTypes, WaitAgain, SetCommand, KernelStep
  <1>2. /\ WaitSetOK(monitor', Threads)
        /\ \A u \in Threads : monitor'.at[u] = "running" <=> monitor.at[u] = "running"
    <2>1. WaitSetOK(monitor, Threads)
      BY DEF PartyInv, BarrierTypes
    <2>2. CASE WaitAgain(t)
      BY <2>1, <2>2, ZhdiOK DEF WaitAgain, Looking
    <2>3. CASE SetCommand(t)
      BY <2>1, <2>3 DEF SetCommand
    <2>4. CASE KernelStep(t)
      <3>1. PICK timed : monitor' \in KernelSteps(monitor, t, timed)
        BY <2>4 DEF KernelStep
      <3>2. WaitSetOK(monitor', Threads) /\ \A u \in Threads : u # t => monitor'.at[u] = monitor.at[u]
        BY <2>1, <3>1, KernelStepOK
      <3>3. monitor.at[t] # "running" /\ monitor'.at[t] # "running"
        BY <2>1, <3>1, KernelStepMoves
      <3> QED BY <3>2, <3>3
    <2> QED BY <2>2, <2>3, <2>4
  <1>3. BarrierTypes' /\ BarrierParked'
    BY <1>1, <1>2 DEF PartyInv, BarrierTypes, BarrierParked, barrier
  <1> QED BY <1>1, <1>3, SameParty

LEMMA PartyNext == Finite /\ PartyInv /\ [Next]_vars => PartyInv'
  <1> SUFFICES ASSUME Finite, PartyInv, [Next]_vars PROVE PartyInv'
    OBVIOUS
  <1>1. ASSUME NEW t \in Threads, DoBarrier(t) PROVE PartyInv'
    BY <1>1, LeaveParty, TripParty, EnterWaitParty DEF DoBarrier
  <1>2. ASSUME NEW t \in Threads, Look(t) PROVE PartyInv'
    BY <1>2, LeaveParty, StayParty DEF Look
  <1>3. CASE UNCHANGED vars
    <2>1. BarrierTypes' /\ BarrierParked'
      BY <1>3 DEF PartyInv, vars, BarrierTypes, BarrierParked
    <2> QED BY <1>3, <2>1, SameParty DEF vars, barrier
  <1> QED BY <1>1, <1>2, <1>3, RestartParty, StayParty DEF Next

(* An unbroken barrier awaits exactly the parties that are missing, however *)
(* slowly those of earlier generations leave.                               *)
THEOREM PartiesCounted == ASSUME Finite PROVE Spec => []CountsMembers
  BY PartyInit, PartyNext, PTL DEF Spec, PartyInv

(* The arrival indexes of a generation are its own, and none is given twice.*)
THEOREM IndexesAreUnique == ASSUME Finite PROVE Spec => []IndexesUnique
  BY PartyInit, PartyNext, PTL DEF Spec, PartyInv

\* How the calls of a generation may have ended: none of one still to come, none
\* but early leavers' of the one that is under way, and none of those if it is
\* over by itself.
Outcomes ==
  \A g \in Generations :
    /\ g > sbrosy_ => results[g] = {}
    /\ g = sbrosy_ => results[g] \subseteq {"left"} /\ (~sorvan_ => results[g] = {})
    /\ g < sbrosy_ /\ g \notin restarted => "left" \notin results[g]

LEMMA OutcomesMean == Outcomes /\ sbrosy_ \in Generations => AllOrNone
  BY CyclicBarrierAssumption DEF Outcomes, AllOrNone, Generations

LEMMA OutcomesInit == Init => Outcomes
  BY CyclicBarrierAssumption DEF Init, Outcomes, Generations

\* Somebody leaves the generation that is under way, and breaks it.
LEMMA LeftOutcomes ==
  ASSUME PartyInv, Outcomes, NEW t \in Threads, End(t, sbrosy_, "left"),
         sorvan_' = TRUE, UNCHANGED <<sbrosy_, restarted>>
  PROVE  Outcomes'
  <1>1. /\ results \in [Generations -> SUBSET Ends] /\ sbrosy_ \in Generations
        /\ results' = [results EXCEPT ![sbrosy_] = @ \cup {"left"}]
    BY DEF PartyInv, BarrierTypes, End
  <1> QED BY <1>1, CyclicBarrierAssumption DEF Outcomes, Generations

\* A generation is over, and nobody has left it early.
LEMMA TripOutcomes ==
  ASSUME PartyInv, Outcomes, NEW t \in Threads, Trip(t)
  PROVE  Outcomes'
  <1>1. /\ results \in [Generations -> SUBSET Ends] /\ sbrosy_ \in Generations
        /\ sorvan_ = FALSE /\ sbrosy_' = sbrosy_ + 1 /\ restarted' = restarted
    BY DEF PartyInv, BarrierTypes, Trip
  <1>2. PICK how \in {"noValue", "passed"} :
          results' = [results EXCEPT ![sbrosy_] = @ \cup ({how} \ {"broken"})]
    BY DEF Trip, End
  <1>3. results[sbrosy_] = {}
    BY <1>1 DEF Outcomes
  <1>4. "left" \notin results'[sbrosy_]
    BY <1>1, <1>2, <1>3
  <1>5. \A g \in Generations : g # sbrosy_ => results'[g] = results[g]
    BY <1>1, <1>2
  <1> QED BY <1>1, <1>4, <1>5, CyclicBarrierAssumption DEF Outcomes, Generations

\* Somebody leaves a generation that is over.
LEMMA PassedOutcomes ==
  ASSUME PartyInv, Outcomes, NEW t \in Threads, LeavePassed(t)
  PROVE  Outcomes'
  <1>1. /\ results \in [Generations -> SUBSET Ends] /\ sbrosy_ \in Generations
        /\ r[t] \in Generations /\ r[t] # sbrosy_ /\ phase[t] # "idle"
        /\ results' = [results EXCEPT ![r[t]] = @ \cup ({"passed"} \ {"broken"})]
        /\ UNCHANGED <<sbrosy_, sorvan_, restarted>>
    BY DEF PartyInv, BarrierTypes, BarrierParked, LeavePassed, Looking, End, barrier
  <1>2. r[t] < sbrosy_
    BY <1>1, CyclicBarrierAssumption DEF PartyInv, NoneAhead, Generations
  <1>3. "left" \in results'[r[t]] => "left" \in results[r[t]]
    BY <1>1
  <1>4. \A g \in Generations : g # r[t] => results'[g] = results[g]
    BY <1>1
  <1> QED BY <1>1, <1>2, <1>3, <1>4, CyclicBarrierAssumption DEF Outcomes, Generations

LEMMA RestartOutcomes ==
  ASSUME PartyInv, Outcomes, NEW t \in Threads, Restart(t)
  PROVE  Outcomes'
  <1>1. /\ sbrosy_ \in Generations /\ sbrosy_' = sbrosy_ + 1 /\ results' = results
        /\ restarted' = restarted \cup {sbrosy_}
    BY DEF PartyInv, BarrierTypes, Restart
  <1> QED BY <1>1, CyclicBarrierAssumption DEF Outcomes, Generations

\* Nobody leaves, or only somebody that was turned away.
LEMMA SameOutcomes ==
  ASSUME PartyInv, Outcomes, UNCHANGED <<sbrosy_, sorvan_, restarted>>,
         \/ UNCHANGED results
         \/ \E t \in Threads, g \in Generations : End(t, g, "broken")
  PROVE  Outcomes'
  <1>1. results' = results
    <2>1. ASSUME NEW g \in Generations, NEW t \in Threads, End(t, g, "broken")
          PROVE  results' = results
      BY <2>1 DEF PartyInv, BarrierTypes, End
    <2> QED BY <2>1
  <1> QED BY <1>1 DEF Outcomes

LEMMA OutcomesNext == PartyInv /\ Outcomes /\ [Next]_vars => Outcomes'
  <1> SUFFICES ASSUME PartyInv, Outcomes, [Next]_vars PROVE Outcomes'
    OBVIOUS
  <1>1. \A t \in Threads : r[t] \in Generations /\ sbrosy_ \in Generations
    BY DEF PartyInv, BarrierTypes
  <1>2. ASSUME NEW t \in Threads, EnterBroken(t) \/ LeaveBroken(t) PROVE Outcomes'
    BY <1>1, <1>2, SameOutcomes DEF EnterBroken, LeaveBroken, barrier
  <1>3. ASSUME NEW t \in Threads, EnterTimeless(t) \/ TimesOut(t) \/ WaitFailed(t)
        PROVE  Outcomes'
    BY <1>3, LeftOutcomes DEF EnterTimeless, TimesOut, WaitFailed, Break
  <1>4. ASSUME NEW t \in Threads,
               \/ EnterWait(t, "barrier") \/ EnterWait(t, "attempt") \/ WaitAgain(t)
               \/ SetCommand(t) \/ KernelStep(t)
        PROVE  Outcomes'
    BY <1>4, SameOutcomes DEF EnterWait, WaitAgain, SetCommand, KernelStep, barrier
  <1>5. CASE UNCHANGED vars
    BY <1>5, SameOutcomes DEF vars
  <1> QED
    BY <1>2, <1>3, <1>4, <1>5, TripOutcomes, PassedOutcomes, RestartOutcomes
    DEF Next, DoBarrier, Look

(* A generation passes together or not at all: once a thread has left it    *)
(* early none of it gets through, unless рестарт has ended it.              *)
THEOREM TogetherOrNot == ASSUME Finite PROVE Spec => []AllOrNone
  <1>1. PartyInv /\ Outcomes => AllOrNone
    BY OutcomesMean DEF PartyInv, BarrierTypes
  <1> QED BY <1>1, PartyInit, PartyNext, OutcomesInit, OutcomesNext, PTL DEF Spec
==============================================================================
