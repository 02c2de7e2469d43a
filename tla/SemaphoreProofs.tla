--------------------------- MODULE SemaphoreProofs ---------------------------
(***************************************************************************)
(* Semaphore for any finite set of threads, any seeds and any MaxIssued:   *)
(* both classes, on both platforms, conserve their permits and take only   *)
(* steps that SyncContract allows.  The inductive invariant adds to the    *)
(* properties of the module                                                *)
(*   Located  who waits, or is about to, is in a call: every way out of    *)
(*            the waiting loop starts from a thread that ждут_ counts;     *)
(*   Adding   an отпусти(n) between its read and write has permits to add. *)
(* For the wakeups it adds                                                 *)
(*   LoopWaits  who is in a waiting loop waits, or is on its way into жди; *)
(*   Late       уведоми outside a monitor comes after the write of права_; *)
(*   Noticed    nobody on its way into жди is overlooked either.           *)
(* At the end is what the contract itself says of the number of threads    *)
(* past обрети.                                                            *)
(***************************************************************************)
EXTENDS Semaphore, CommonTheorems

\* What the theorems ask of the constants, beyond SemaphoreAssumption.
Finite == IsFiniteSet(Threads)

Located ==
  \A t \in Threads :
    /\ monitor.at[t] # "running" \/ parking = t => phase[t] \in {"acquire", "attempt"}
    /\ parking = t => monitor.at[t] = "running"

Adding == \A t \in Threads : phase[t] = "add" => left[t] > 0

Inv == TypeOK /\ Located /\ Adding /\ QueueCounted /\ PermitsConserved

\* How a change of one thread's phase moves it in and out of the two sets.
LEMMA GotoCounts ==
  ASSUME Finite, phase \in [Threads -> Phases], NEW t \in Threads,
         NEW p \in Phases, Goto(t, p)
  PROVE  /\ phase' \in [Threads -> Phases]
         /\ phase'[t] = p /\ \A s \in Threads : s # t => phase'[s] = phase[s]
         /\ Cardinality(Holders) \in Nat /\ Cardinality(Holders') \in Nat
         /\ Cardinality(InLoop) \in Nat /\ Cardinality(InLoop') \in Nat
         /\ Cardinality(Holders') + One(phase[t] = "held")
              = Cardinality(Holders) + One(p = "held")
         /\ Cardinality(InLoop') + One(phase[t] \in {"acquire", "attempt"})
              = Cardinality(InLoop) + One(p \in {"acquire", "attempt"})
  <1>1. /\ phase' \in [Threads -> Phases]
        /\ phase'[t] = p /\ \A s \in Threads : s # t => phase'[s] = phase[s]
    BY DEF Goto
  <1>2. IsFiniteSet(Holders) /\ IsFiniteSet(Holders')
        /\ IsFiniteSet(InLoop) /\ IsFiniteSet(InLoop')
    <2>1. Holders \subseteq Threads /\ Holders' \subseteq Threads
          /\ InLoop \subseteq Threads /\ InLoop' \subseteq Threads
      BY DEF Holders, InLoop
    <2> QED BY <2>1, FS_Subset DEF Finite
  <1>3. /\ Holders' = IF p = "held" THEN Holders \cup {t} ELSE Holders \ {t}
        /\ t \in Holders <=> phase[t] = "held"
    BY <1>1 DEF Holders
  <1>4. /\ InLoop' = IF p \in {"acquire", "attempt"} THEN InLoop \cup {t} ELSE InLoop \ {t}
        /\ t \in InLoop <=> phase[t] \in {"acquire", "attempt"}
    BY <1>1 DEF InLoop
  <1>5. /\ Cardinality(Holders) \in Nat /\ Cardinality(Holders') \in Nat
        /\ Cardinality(InLoop) \in Nat /\ Cardinality(InLoop') \in Nat
    BY <1>2, FS_CardinalityType
  <1>6. Cardinality(Holders') + One(phase[t] = "held")
              = Cardinality(Holders) + One(p = "held")
    BY <1>2, <1>3, <1>5, FS_AddElement, FS_RemoveElement DEF One
  <1>7. Cardinality(InLoop') + One(phase[t] \in {"acquire", "attempt"})
              = Cardinality(InLoop) + One(p \in {"acquire", "attempt"})
    BY <1>2, <1>4, <1>5, FS_AddElement, FS_RemoveElement DEF One
  <1> QED BY <1>1, <1>5, <1>6, <1>7

LEMMA InitInv == Init => Inv
  <1> SUFFICES ASSUME Init PROVE Inv
    OBVIOUS
  <1>1. PICK os \in Systems : monitor = NewWaitSet(os, Threads)
    BY DEF Init
  <1>2. WaitSetOK(monitor, Threads)
    BY <1>1, NewWaitSetOK, SemaphoreAssumption
  <1>3. \A t \in Threads : monitor.at[t] = "running" /\ t # NoThread
    BY <1>1, SemaphoreAssumption DEF NewWaitSet
  <1>4. Holders = {} /\ InLoop = {}
    BY DEF Init, Holders, InLoop
  <1>5. Cardinality({}) = 0
    BY FS_EmptySet
  <1>6. prava_ \in Int
    BY SemaphoreAssumption DEF Init
  <1>7. QueueCounted /\ PermitsConserved
    BY <1>4, <1>5, <1>6 DEF Init, QueueCounted, PermitsConserved
  <1> QED
    BY <1>2, <1>3, <1>6, <1>7 DEF Init, Inv, TypeOK, Phases, Located, Adding

LEMMA EnterInv ==
  ASSUME Finite, Inv, NEW t \in Threads, NEW call \in {"acquire", "attempt"},
         Enter(t, call)
  PROVE  Inv'
  <1> USE DEF Inv, TypeOK, Phases, Enter, Entering, bulkVars, One
  <1>1. t # NoThread
    BY SemaphoreAssumption
  <1>2. CASE MayPass /\ Goto(t, "held") /\ prava_' = prava_ - 1
             /\ UNCHANGED <<zhdut_, monitor, parking>>
    <2>1. QueueCounted' /\ PermitsConserved'
      BY <1>2, GotoCounts DEF QueueCounted, PermitsConserved
    <2> QED
      BY <1>2, <2>1, GotoCounts DEF Located, Adding
  <1>3. CASE JoinQueue /\ Goto(t, call) /\ parking' = t /\ UNCHANGED <<prava_, monitor>>
    <2>1. QueueCounted' /\ PermitsConserved'
      BY <1>3, GotoCounts DEF QueueCounted, PermitsConserved, JoinQueue
    <2>2. TypeOK'
      BY <1>3, GotoCounts DEF JoinQueue
    <2> QED
      BY <1>1, <1>3, <2>1, <2>2, GotoCounts DEF Located, Adding
  <1> QED BY <1>2, <1>3

LEMMA ParkInv ==
  ASSUME Finite, Inv, NEW t \in Threads, Park(t)
  PROVE  Inv'
  <1>1. WaitSetOK(monitor', Threads)
        /\ (\A s \in Threads : s # t => monitor'.at[s] = monitor.at[s])
    BY ZhdiOK DEF Inv, TypeOK, Park
  <1>2. t # NoThread
    BY SemaphoreAssumption
  <1>3. Located'
    BY <1>1, <1>2, SemaphoreAssumption DEF Inv, Located, Park
  <1> QED
    BY <1>1, <1>3 DEF Inv, TypeOK, Adding, QueueCounted, PermitsConserved, Holders,
       InLoop, Park, bulkVars

\* A step that ends t's call, with or without a permit, and takes it out of the
\* count; `w` is the wait set it leaves.
LEMMA LeaveInv ==
  ASSUME Finite, Inv, NEW t \in Threads, NEW p \in {"held", "idle"},
         phase[t] \in {"acquire", "attempt"}, parking = NoThread, parking' = NoThread,
         WaitSetOK(monitor', Threads), monitor'.at[t] = "running",
         \A s \in Threads : monitor'.at[s] # "running" => monitor.at[s] # "running",
         prava_' = prava_ - One(p = "held"), LeaveQueue, Goto(t, p),
         UNCHANGED bulkVars
  PROVE  Inv'
  <1> USE DEF Inv, Phases, bulkVars
  <1>1. QueueCounted' /\ PermitsConserved'
    BY GotoCounts DEF TypeOK, QueueCounted, PermitsConserved, LeaveQueue, One
  <1>2. TypeOK'
    BY <1>1, GotoCounts DEF TypeOK, QueueCounted, One
  <1>3. Located' /\ Adding'
    BY GotoCounts, SemaphoreAssumption DEF TypeOK, Located, Adding
  <1> QED BY <1>1, <1>2, <1>3

LEMMA RetryInv ==
  ASSUME Finite, Inv, NEW t \in Threads, NEW call \in {"acquire", "attempt"},
         Retry(t, call)
  PROVE  Inv'
  <1>1. WaitSetOK(monitor', Threads) /\ monitor'.at[t] = "running"
        /\ (\A s \in Threads : s # t => monitor'.at[s] = monitor.at[s])
    BY ResumeOK DEF Inv, TypeOK, Retry
  <1>2. phase[t] \in {"acquire", "attempt"} /\ parking = NoThread
    BY DEF Retry, Returning
  <1>3. CASE prava_' = prava_ - 1 /\ LeaveQueue /\ Goto(t, "held") /\ UNCHANGED parking
    BY <1>1, <1>2, <1>3, LeaveInv DEF Retry, One
  <1>4. CASE parking' = t /\ UNCHANGED <<prava_, zhdut_, phase>>
    <2>1. Located'
      BY <1>1, <1>2, <1>4, SemaphoreAssumption DEF Inv, Located
    <2> QED
      BY <1>1, <1>4, <2>1 DEF Inv, TypeOK, Adding, QueueCounted, PermitsConserved,
         Holders, InLoop, Retry, bulkVars
  <1> QED BY <1>3, <1>4 DEF Retry

LEMMA GiveUpInv ==
  ASSUME Finite, Inv, NEW t \in Threads, GiveUp(t)
  PROVE  Inv'
  <1>1. WaitSetOK(monitor', Threads) /\ monitor'.at[t] = "running"
        /\ (\A s \in Threads : s # t => monitor'.at[s] = monitor.at[s])
    BY ResumeOK DEF Inv, TypeOK, GiveUp
  <1>2. prava_' = prava_ - One("idle" = "held")
    BY DEF GiveUp, One, Inv, TypeOK
  <1> QED BY <1>1, <1>2, LeaveInv DEF GiveUp, Returning

LEMMA WaitFailedInv ==
  ASSUME Finite, Inv, NEW t \in Threads, WaitFailed(t)
  PROVE  Inv'
  <1> DEFINE w == Resume(monitor, t)
  <1>1. WaitSetOK(w, Threads)
        /\ (\A s \in Threads : s # t => w.at[s] = monitor.at[s])
        /\ w.at[t] = "running"
    BY ResumeOK DEF Inv, TypeOK
  <1>2. monitor' \in Uvedomi(w)
    BY DEF WaitFailed
  <1> HIDE DEF w
  <1>3. WaitSetOK(monitor', Threads)
        /\ \A s \in Threads : \/ monitor'.at[s] = w.at[s]
                              \/ w.at[s] = "blocked" /\ monitor'.at[s] = "awake"
    BY <1>1, <1>2, UvedomiOK
  <1>4. monitor'.at[t] = "running"
        /\ \A s \in Threads : monitor'.at[s] # "running" => monitor.at[s] # "running"
    BY <1>1, <1>3
  <1>5. phase[t] \in {"acquire", "attempt"}
    BY DEF Inv, Located, WaitFailed
  <1>6. prava_' = prava_ - One("idle" = "held")
    BY DEF WaitFailed, One, Inv, TypeOK
  <1> QED BY <1>3, <1>4, <1>5, <1>6, LeaveInv DEF WaitFailed

LEMMA ReleaseInv ==
  ASSUME Finite, Inv, NEW t \in Threads, Release(t)
  PROVE  Inv'
  <1>1. WaitSetOK(monitor', Threads)
        /\ \A s \in Threads : monitor'.at[s] # "running" => monitor.at[s] # "running"
    BY UvedomiOK DEF Inv, TypeOK, Release
  <1>2. monitor.at[t] = "running"
    BY DEF Inv, Located, Release
  <1> USE DEF Inv, TypeOK, Phases, Release, bulkVars, One
  <1>3. QueueCounted' /\ PermitsConserved'
    BY GotoCounts DEF QueueCounted, PermitsConserved
  <1>4. TypeOK'
    BY <1>1, GotoCounts
  <1>5. Located' /\ Adding'
    BY <1>1, <1>2, GotoCounts, SemaphoreAssumption DEF Located, Adding
  <1> QED BY <1>3, <1>4, <1>5

\* A step that leaves every thread's phase alone, and the permits conserved.
LEMMA InPlaceInv ==
  ASSUME Inv, UNCHANGED <<zhdut_, parking, phase, unsync, cls, seen>>,
         WaitSetOK(monitor', Threads),
         \A s \in Threads : monitor'.at[s] # "running" => monitor.at[s] # "running",
         prava_' \in Int, issued' \in Int, prava_' - prava_ = issued' - issued,
         left' \in [Threads -> Nat],
         \A s \in Threads : phase[s] = "add" => left'[s] = left[s],
         Cardinality(Holders) \in Nat
  PROVE  Inv'
  <1>1. Holders' = Holders /\ InLoop' = InLoop
    BY DEF Holders, InLoop
  <1>2. QueueCounted' /\ PermitsConserved'
    BY <1>1 DEF Inv, TypeOK, QueueCounted, PermitsConserved
  <1>3. TypeOK'
    BY DEF Inv, TypeOK
  <1>4. Located' /\ Adding'
    BY SemaphoreAssumption DEF Inv, TypeOK, Located, Adding
  <1> QED BY <1>2, <1>3, <1>4 DEF Inv

LEMMA HoldersCounted == Finite => Cardinality(Holders) \in Nat
  BY FS_Subset, FS_CardinalityType DEF Finite, Holders

LEMMA ReleaseNInv ==
  ASSUME Finite, Inv, NEW t \in Threads, NEW n \in Nat, ReleaseN(t, n)
  PROVE  Inv'
  <1>1. WaitSetOK(monitor', Threads)
        /\ \A s \in Threads : monitor'.at[s] # "running" => monitor.at[s] # "running"
    BY UvedomiNOK DEF Finite, Inv, TypeOK, ReleaseN
  <1>2. prava_' \in Int /\ issued' \in Int /\ prava_' - prava_ = issued' - issued
    BY DEF Inv, TypeOK, ReleaseN
  <1> QED BY <1>1, <1>2, HoldersCounted, InPlaceInv DEF Inv, TypeOK, ReleaseN

LEMMA UnsyncReadInv ==
  ASSUME Finite, Inv, NEW t \in Threads, NEW n \in Nat \ {0}, UnsyncRead(t, n)
  PROVE  Inv'
  <1> USE DEF Inv, TypeOK, Phases, UnsyncRead, One
  <1>1. QueueCounted' /\ PermitsConserved'
    BY GotoCounts DEF QueueCounted, PermitsConserved
  <1>2. TypeOK'
    BY GotoCounts
  <1>3. Located' /\ Adding'
    BY GotoCounts DEF Located, Adding
  <1> QED BY <1>1, <1>2, <1>3

LEMMA UnsyncWriteInv ==
  ASSUME Finite, Inv, NEW t \in Threads, UnsyncWrite(t)
  PROVE  Inv'
  <1> USE DEF Inv, TypeOK, Phases, UnsyncWrite, One
  <1>1. prava_' \in Int /\ issued' \in Int /\ unsync' \in {"none", "clean", "raced"}
    OBVIOUS
  <1>2. QueueCounted'
    BY GotoCounts DEF QueueCounted
  <1>3. PermitsConserved'
    <2> SUFFICES ASSUME unsync' # "raced"
                 PROVE  prava_' + Cardinality(Holders') = issued'
      BY DEF PermitsConserved
    <2>1. prava_' = prava_ + left[t] /\ unsync # "raced"
      OBVIOUS
    <2>2. Cardinality(Holders') = Cardinality(Holders) /\ Cardinality(Holders) \in Nat
      BY GotoCounts
    <2> QED BY <2>1, <2>2 DEF PermitsConserved
  <1>4. TypeOK'
    BY <1>1, GotoCounts
  <1>5. Located' /\ Adding'
    BY GotoCounts DEF Located, Adding
  <1> QED BY <1>2, <1>3, <1>4, <1>5

LEMMA UnsyncNotifyInv ==
  ASSUME Finite, Inv, NEW t \in Threads, UnsyncNotify(t)
  PROVE  Inv'
  <1>1. CASE left[t] > 0 /\ monitor' \in Uvedomi(monitor)
             /\ left' = [left EXCEPT ![t] = @ - 1] /\ UNCHANGED phase
    <2>1. WaitSetOK(monitor', Threads)
          /\ \A s \in Threads : monitor'.at[s] # "running" => monitor.at[s] # "running"
      BY <1>1, UvedomiOK DEF Inv, TypeOK
    <2>2. left' \in [Threads -> Nat]
          /\ \A s \in Threads : phase[s] = "add" => left'[s] = left[s]
      BY <1>1 DEF Inv, TypeOK, UnsyncNotify
    <2> QED
      BY <1>1, <2>1, <2>2, HoldersCounted, InPlaceInv DEF Inv, TypeOK, UnsyncNotify
  <1>2. CASE Goto(t, "idle") /\ UNCHANGED <<monitor, left>>
    <2> USE DEF Inv, TypeOK, Phases, UnsyncNotify, One
    <2>1. QueueCounted' /\ PermitsConserved'
      BY <1>2, GotoCounts DEF QueueCounted, PermitsConserved
    <2>2. TypeOK'
      BY <1>2, GotoCounts
    <2>3. Located' /\ Adding'
      BY <1>2, GotoCounts DEF Located, Adding
    <2> QED BY <2>1, <2>2, <2>3
  <1> QED BY <1>1, <1>2 DEF UnsyncNotify

LEMMA KernelInv ==
  ASSUME Finite, Inv, NEW t \in Threads, KernelStep(t)
  PROVE  Inv'
  <1>1. WaitSetOK(monitor', Threads)
        /\ Waiting(monitor') = Waiting(monitor)
        /\ (\A s \in Threads : s # t => monitor'.at[s] = monitor.at[s])
        /\ t \in Waiting(monitor)
    BY KernelStepOK DEF Inv, TypeOK, KernelStep
  <1>2. monitor.at[t] # "running"
    BY <1>1 DEF Waiting, AtPlace
  <1>3. prava_' \in Int /\ issued' \in Int /\ prava_' - prava_ = issued' - issued
    BY DEF Inv, TypeOK, KernelStep, bulkVars
  <1> QED
    BY <1>1, <1>2, <1>3, HoldersCounted, InPlaceInv DEF Inv, TypeOK, KernelStep, bulkVars

LEMMA NextInv == Finite /\ Inv /\ [Next]_vars => Inv'
  <1> SUFFICES ASSUME Finite, Inv, [Next]_vars PROVE Inv'
    OBVIOUS
  <1>1. ASSUME NEW t \in Threads, Acquire(t) PROVE Inv'
    BY <1>1, EnterInv, RetryInv DEF Acquire
  <1>2. ASSUME NEW t \in Threads, Attempt(t) PROVE Inv'
    BY <1>2, EnterInv, RetryInv, GiveUpInv DEF Attempt
  <1>3. ASSUME NEW t \in Threads, Donate(t) PROVE Inv'
    <2>1. PICK n \in 1..(MaxIssued - issued - Pending) : ReleaseN(t, n) \/ UnsyncRead(t, n)
      BY <1>3 DEF Donate
    <2>2. n \in Nat \ {0}
      OBVIOUS
    <2> QED BY <2>1, <2>2, ReleaseNInv, UnsyncReadInv
  <1>4. CASE UNCHANGED vars
    BY <1>4 DEF Inv, vars, TypeOK, Located, Adding, QueueCounted, PermitsConserved,
       Holders, InLoop
  <1> QED
    BY <1>1, <1>2, <1>3, <1>4, ParkInv, WaitFailedInv, ReleaseInv, UnsyncWriteInv,
       UnsyncNotifyInv, KernelInv DEF Next

(* Everything below holds of every reachable state.                         *)
THEOREM Invariance == ASSUME Finite PROVE Spec => []Inv
  BY InitInv, NextInv, PTL DEF Spec

(* Type correctness; that ждут_ is never negative needs QueueCounted.       *)
THEOREM TypeCorrectness == ASSUME Finite PROVE Spec => []TypeOK
  BY Invariance, PTL DEF Inv

(* Permits are neither lost nor invented by обрети, пытайся, отпусти,       *)
(* timeouts and failed waits, nor by an отпусти(n) of Семафор that meets no *)
(* other update of права_.                                                  *)
THEOREM Conservation == ASSUME Finite PROVE Spec => []PermitsConserved
  BY Invariance, PTL DEF Inv

(* ждут_ counts the waiting threads, so it returns to 0 with the last one.  *)
THEOREM QueueIsCounted == ASSUME Finite PROVE Spec => []QueueCounted
  BY Invariance, PTL DEF Inv

------------------------------------------------------------------------------
\* Who is in a waiting loop waits, or is about to.
LoopWaits == \A t \in Threads :
  phase[t] \in {"acquire", "attempt"} => monitor.at[t] # "running" \/ parking = t

\* A thread that calls уведоми with no monitor has written права_ before.
Late == \A t \in Threads : phase[t] = "notify" => unsync # "none"

\* NoLostWakeup, and the same for a thread on its way into жди.
Noticed ==
  unsync = "none" /\ (Asleep(monitor) # {} \/ parking # NoThread) =>
    IF monitor.os = "linux"
    THEN EnoughAwake
    ELSE prava_ > 0 => (Alert(monitor) \/ Holders # {})

WakeInv == LoopWaits /\ Late /\ Noticed

LEMMA InitWake == Init => WakeInv
  <1> SUFFICES ASSUME Init PROVE WakeInv
    OBVIOUS
  <1>1. Asleep(monitor) = {}
    BY DEF Init, NewWaitSet, Asleep, AtPlace
  <1> QED BY <1>1 DEF Init, WakeInv, LoopWaits, Late, Noticed

LEMMA ResumingCounted ==
  ASSUME Finite, NEW w, WaitSetOK(w, Threads)
  PROVE  /\ IsFiniteSet(Resuming(w)) /\ Cardinality(Resuming(w)) \in Nat
         /\ Cardinality(Resuming(w)) > 0 => Alert(w)
  <1>1. Resuming(w) \subseteq Threads
    BY DEF Resuming, AtPlace, WaitSetOK, WaitSets
  <1> HIDE DEF Resuming
  <1>2. IsFiniteSet(Resuming(w)) /\ Cardinality(Resuming(w)) \in Nat
    BY <1>1, FS_Subset, FS_CardinalityType DEF Finite
  <1>3. Resuming(w) = {} => Cardinality(Resuming(w)) = 0
    BY FS_EmptySet
  <1> QED BY <1>2, <1>3 DEF Alert

\* Nobody is overlooked when there is no permit, or a thread that gets one.
LEMMA NothingToTake ==
  ASSUME Finite, Inv', prava_' <= 0
  PROVE  Noticed'
  <1>1. WaitSetOK(monitor', Threads) /\ prava_' \in Int
    BY DEF Inv, TypeOK
  <1>2. Cardinality(Resuming(monitor')) \in Nat
    BY <1>1, ResumingCounted
  <1> QED BY <1>1, <1>2 DEF Noticed, EnoughAwake

LEMMA EnterWake ==
  ASSUME Finite, Inv, WakeInv, NEW t \in Threads, NEW call \in {"acquire", "attempt"},
         Enter(t, call)
  PROVE  WakeInv'
  <1> USE DEF Inv, TypeOK, WakeInv, bulkVars
  <1>1. /\ parking = NoThread /\ phase[t] = "idle" /\ phase \in [Threads -> Phases]
        /\ UNCHANGED <<monitor, unsync, cls>> /\ t # NoThread /\ prava_ \in Int
    BY SemaphoreAssumption DEF Enter, Entering
  <1>2. Cardinality(Resuming(monitor)) \in Nat /\ IsFiniteSet(Resuming(monitor))
        /\ (Cardinality(Resuming(monitor)) > 0 => Alert(monitor))
    BY ResumingCounted
  <1>3. CASE MayPass /\ prava_' = prava_ - 1 /\ Goto(t, "held") /\ UNCHANGED parking
    <2>1. t \in Holders'
      BY <1>1, <1>3 DEF Goto, Holders
    <2>2. Noticed'
      BY <1>1, <1>2, <1>3, <2>1 DEF Noticed, EnoughAwake
    <2> QED BY <1>1, <1>3, <2>2 DEF Goto, LoopWaits, Late
  <1>4. CASE ~MayPass /\ JoinQueue /\ Goto(t, call) /\ parking' = t /\ UNCHANGED prava_
    <2>0. phase'[t] = call /\ \A s \in Threads : s # t => phase'[s] = phase[s]
      BY <1>1, <1>4 DEF Goto
    <2>1. LoopWaits' /\ Late' /\ Holders' = Holders
      <3>1. LoopWaits'
        BY <1>1, <1>4, <2>0, SemaphoreAssumption DEF LoopWaits
      <3>2. Late' /\ Holders' = Holders
        BY <1>1, <2>0 DEF Late, Holders
      <3> QED BY <3>1, <3>2
    <2>2. CASE Asleep(monitor) # {}
      BY <1>1, <1>4, <2>1, <2>2 DEF Noticed, EnoughAwake
    <2>3. CASE Asleep(monitor) = {}
      <3>1. InLoop \subseteq Resuming(monitor)
        <4> SUFFICES ASSUME NEW s \in InLoop PROVE s \in Resuming(monitor)
          OBVIOUS
        <4>1. s \in Threads /\ monitor.at[s] # "running"
          BY <1>1, SemaphoreAssumption DEF InLoop, LoopWaits
        <4>2. DOMAIN monitor.at = Threads /\ monitor.at[s] \in Places
          BY <4>1 DEF WaitSetOK, WaitSets
        <4> QED BY <2>3, <4>1, <4>2 DEF Asleep, Resuming, AtPlace, Places
      <3> HIDE DEF InLoop, Resuming
      <3>2. Cardinality(InLoop) <= Cardinality(Resuming(monitor)) /\ Cardinality(InLoop) \in Nat
        BY <1>2, <3>1, FS_Subset, FS_CardinalityType
      <3>3. prava_ <= Cardinality(Resuming(monitor))
        <4>1. prava_ <= 0 \/ prava_ <= Cardinality(InLoop)
          BY <1>1, <1>4, <3>2 DEF MayPass, QueueCounted
        <4> QED BY <1>1, <1>2, <3>2, <4>1
      <3>4. prava_ > 0 => Alert(monitor)
        BY <1>1, <1>2, <3>3
      <3> QED BY <1>1, <1>4, <2>1, <3>3, <3>4 DEF Noticed, EnoughAwake
    <2> QED BY <2>2, <2>3
  <1> QED BY <1>3, <1>4 DEF Enter

LEMMA ParkWake ==
  ASSUME Finite, Inv, WakeInv, NEW t \in Threads, Park(t)
  PROVE  WakeInv'
  <1>1. /\ parking = t /\ parking' = NoThread /\ t # NoThread
        /\ monitor' = Zhdi(monitor, t) /\ UNCHANGED <<prava_, phase, unsync>>
    BY SemaphoreAssumption DEF Park, bulkVars
  <1>2. WaitSetOK(monitor, Threads) /\ monitor.at[t] = "running"
    BY <1>1 DEF Inv, TypeOK, Located
  <1>3. /\ WaitSetOK(monitor', Threads) /\ monitor'.os = monitor.os
        /\ monitor'.at[t] \in {"gap", "blocked"}
        /\ \A s \in Threads : s # t => monitor'.at[s] = monitor.at[s]
    BY <1>1, <1>2, ZhdiOK
  <1>4. monitor'.event = monitor.event
    BY <1>1, <1>2 DEF Zhdi, WaitSetOK, WaitSets
  <1>5. Resuming(monitor') = Resuming(monitor)
    BY <1>2, <1>3 DEF Resuming, AtPlace, WaitSetOK, WaitSets
  <1>6. Alert(monitor) => Alert(monitor')
    BY <1>2, <1>3, <1>4, <1>5 DEF Alert, AtPlace, WaitSetOK, WaitSets
  <1>7. LoopWaits' /\ Late'
    BY <1>1, <1>3 DEF WakeInv, LoopWaits, Late
  <1>8. Holders' = Holders
    BY <1>1 DEF Holders
  <1>9. Noticed'
    <2> HIDE DEF Resuming, Alert, Holders, Asleep
    <2> QED BY <1>1, <1>3, <1>5, <1>6, <1>8 DEF WakeInv, Noticed, EnoughAwake
  <1> QED BY <1>7, <1>9 DEF WakeInv

\* A thread leaves жди.
LEMMA ResumeWaits ==
  ASSUME Inv, LoopWaits, NEW t \in Threads,
         \A s \in Threads : s # t => /\ phase'[s] = phase[s]
                                     /\ monitor'.at[s] = "running" => monitor.at[s] = "running",
         phase'[t] \in {"acquire", "attempt"} => parking' = t,
         parking = NoThread
  PROVE  LoopWaits'
  BY SemaphoreAssumption DEF LoopWaits

LEMMA RetryWake ==
  ASSUME Finite, Inv, Inv', WakeInv, NEW t \in Threads, NEW call \in {"acquire", "attempt"},
         Retry(t, call)
  PROVE  WakeInv'
  <1> USE DEF Inv, TypeOK, WakeInv, bulkVars
  <1>1. /\ parking = NoThread /\ phase[t] = call /\ monitor.at[t] = "awake"
        /\ monitor' = Resume(monitor, t) /\ UNCHANGED unsync /\ prava_ \in Int
        /\ phase \in [Threads -> Phases]
    BY DEF Retry, Returning
  <1>2. /\ WaitSetOK(monitor', Threads) /\ monitor'.at[t] = "running"
        /\ monitor'.os = monitor.os /\ Asleep(monitor') \subseteq Asleep(monitor)
        /\ \A s \in Threads : s # t => monitor'.at[s] = monitor.at[s]
    BY SMTT(30), <1>1, ResumeOK
  <1>3. CASE prava_' = prava_ - 1 /\ Goto(t, "held") /\ UNCHANGED parking
    <2>1. t \in Holders'
      BY <1>1, <1>3 DEF Goto, Holders
    <2>2. /\ Cardinality(Resuming(monitor)) \in Nat /\ Cardinality(Resuming(monitor')) \in Nat
          /\ Cardinality(Resuming(monitor')) + 1 = Cardinality(Resuming(monitor))
      BY <1>1, <1>2, ResumingMoves DEF Finite, One
    <2> HIDE DEF Resuming, Asleep
    <2>3. Noticed'
      BY <1>1, <1>2, <1>3, <2>1, <2>2 DEF Noticed, EnoughAwake
    <2> QED BY <1>1, <1>2, <1>3, <2>3, ResumeWaits DEF Goto, Late
  <1>4. CASE prava_ <= 0 /\ parking' = t /\ UNCHANGED <<prava_, phase>>
    <2>1. Noticed'
      BY <1>4, NothingToTake
    <2> QED BY <1>1, <1>2, <1>4, <2>1, ResumeWaits DEF Late
  <1> QED BY <1>3, <1>4 DEF Retry

LEMMA GiveUpWake ==
  ASSUME Finite, Inv, Inv', WakeInv, NEW t \in Threads, GiveUp(t)
  PROVE  WakeInv'
  <1>1. Noticed'
    BY NothingToTake DEF GiveUp
  <1>2. /\ \A s \in Threads : s # t => monitor'.at[s] = monitor.at[s]
        /\ phase \in [Threads -> Phases]
    BY ResumeOK DEF Inv, TypeOK, GiveUp
  <1> QED
    BY <1>1, <1>2, ResumeWaits DEF WakeInv, GiveUp, Returning, Goto, Late, bulkVars

\* A notification by a thread that is not waiting itself.
LEMMA NotifyWake ==
  ASSUME Finite, Inv, WakeInv, NEW w, WaitSetOK(w, Threads),
         w.os = monitor.os, Asleep(w) \subseteq Asleep(monitor), monitor' \in Uvedomi(w),
         parking' = NoThread, unsync' = unsync, prava_' \in Int,
         prava_' - Cardinality(Resuming(w)) - 1 <= prava_ - Cardinality(Resuming(monitor))
  PROVE  Noticed'
  <1> SUFFICES ASSUME unsync = "none", Asleep(monitor') # {}
               PROVE  IF monitor'.os = "linux" THEN EnoughAwake' ELSE Alert(monitor)'
    BY DEF Noticed
  <1>1. WaitSetOK(monitor', Threads)
        /\ \A s \in Threads : \/ monitor'.at[s] = w.at[s]
                              \/ w.at[s] = "blocked" /\ monitor'.at[s] = "awake"
    BY UvedomiOK
  <1>2. Asleep(monitor') \subseteq Asleep(w)
    BY <1>1 DEF Asleep, AtPlace, WaitSetOK, WaitSets
  <1>3. Asleep(w) \subseteq Waiting(w)
    BY DEF Asleep, Waiting, AtPlace
  <1>4. Alert(monitor)'
    <2>1. Alert(monitor')
      BY <1>2, <1>3, UvedomiAlerts
    <2> QED BY <2>1 DEF Alert
  <1>5. ASSUME monitor'.os = "linux" PROVE EnoughAwake'
    <2>1. /\ monitor.os = "linux"
          /\ Cardinality(Resuming(monitor')) = Cardinality(Resuming(w)) + 1
      BY <1>5, UvedomiWakes DEF Finite
    <2>2. EnoughAwake
      BY <1>2, <2>1 DEF WakeInv, Noticed
    <2>3. /\ Cardinality(Resuming(monitor)) \in Nat /\ Cardinality(Resuming(w)) \in Nat
          /\ prava_ \in Int
      BY ResumingCounted DEF Inv, TypeOK
    <2>4. prava_' <= Cardinality(Resuming(monitor'))
      <3> HIDE DEF Resuming
      <3> QED BY <2>1, <2>2, <2>3 DEF EnoughAwake
    <2> QED BY <2>4 DEF EnoughAwake, Resuming
  <1> QED BY <1>4, <1>5

LEMMA WaitFailedWake ==
  ASSUME Finite, Inv, WakeInv, NEW t \in Threads, WaitFailed(t)
  PROVE  WakeInv'
  <1> DEFINE w == Resume(monitor, t)
  <1>1. /\ parking = NoThread /\ parking' = NoThread /\ monitor.at[t] = "failed"
        /\ monitor' \in Uvedomi(w) /\ Goto(t, "idle") /\ UNCHANGED <<prava_, unsync>>
    BY DEF WaitFailed, bulkVars
  <1>2. WaitSetOK(monitor, Threads) /\ phase \in [Threads -> Phases] /\ prava_ \in Int
    BY DEF Inv, TypeOK
  <1>3. /\ WaitSetOK(w, Threads) /\ w.at[t] = "running"
        /\ w.os = monitor.os /\ Asleep(w) \subseteq Asleep(monitor)
        /\ \A s \in Threads : s # t => w.at[s] = monitor.at[s]
    BY <1>2, ResumeOK
  <1> HIDE DEF w
  <1>4. \A s \in Threads : \/ monitor'.at[s] = w.at[s]
                           \/ w.at[s] = "blocked" /\ monitor'.at[s] = "awake"
    BY <1>1, <1>3, UvedomiOK
  <1>5. LoopWaits' /\ Late'
    BY <1>1, <1>2, <1>3, <1>4, ResumeWaits DEF WakeInv, Late, Goto
  <1>6. /\ Cardinality(Resuming(monitor)) \in Nat /\ Cardinality(Resuming(w)) \in Nat
        /\ Cardinality(Resuming(w)) + 1 = Cardinality(Resuming(monitor))
    BY <1>1, <1>2, <1>3, ResumingMoves DEF Finite, One
  <1>7. Noticed'
    <2>1. prava_' - Cardinality(Resuming(w)) - 1 <= prava_ - Cardinality(Resuming(monitor))
      BY <1>1, <1>2, <1>6
    <2> QED BY <1>1, <1>2, <1>3, <2>1, NotifyWake
  <1> QED BY <1>5, <1>7 DEF WakeInv

LEMMA ReleaseWake ==
  ASSUME Finite, Inv, WakeInv, NEW t \in Threads, Release(t)
  PROVE  WakeInv'
  <1>1. /\ parking = NoThread /\ parking' = NoThread /\ phase[t] = "held"
        /\ monitor' \in Uvedomi(monitor) /\ Goto(t, "idle") /\ prava_' = prava_ + 1
        /\ UNCHANGED unsync
    BY DEF Release, bulkVars
  <1>2. WaitSetOK(monitor, Threads) /\ phase \in [Threads -> Phases] /\ prava_ \in Int
    BY DEF Inv, TypeOK
  <1>3. \A s \in Threads : \/ monitor'.at[s] = monitor.at[s]
                           \/ monitor.at[s] = "blocked" /\ monitor'.at[s] = "awake"
    BY <1>1, <1>2, UvedomiOK
  <1>4. LoopWaits' /\ Late'
    BY <1>1, <1>2, <1>3, ResumeWaits DEF WakeInv, Late, Goto
  <1>5. Noticed'
    <2>1. Cardinality(Resuming(monitor)) \in Nat
      BY <1>2, ResumingCounted
    <2>2. prava_' - Cardinality(Resuming(monitor)) - 1 <= prava_ - Cardinality(Resuming(monitor))
      BY <1>1, <1>2, <2>1
    <2> QED BY <1>1, <1>2, <2>2, NotifyWake
  <1> QED BY <1>4, <1>5 DEF WakeInv

LEMMA ReleaseNWake ==
  ASSUME Finite, Inv, WakeInv, NEW t \in Threads, NEW n \in Nat \ {0}, ReleaseN(t, n)
  PROVE  WakeInv'
  <1>1. /\ parking = NoThread /\ UNCHANGED <<parking, phase, unsync>>
        /\ monitor' \in UvedomiN(monitor, n) /\ prava_' = prava_ + n
    BY DEF ReleaseN, Entering
  <1>2. WaitSetOK(monitor, Threads) /\ prava_ \in Int /\ monitor.os \in Platforms
    BY DEF Inv, TypeOK, WaitSetOK, WaitSets
  <1>3. /\ WaitSetOK(monitor', Threads)
        /\ \A s \in Threads : \/ monitor'.at[s] = monitor.at[s]
                              \/ monitor.at[s] = "blocked" /\ monitor'.at[s] = "awake"
    BY <1>1, <1>2, UvedomiNOK DEF Finite
  <1>4. LoopWaits' /\ Late'
    BY <1>1, <1>3 DEF WakeInv, LoopWaits, Late
  <1>5. /\ monitor'.os = monitor.os
        /\ Waiting(monitor) # {} => Alert(monitor')
        /\ Cardinality(Resuming(monitor)) \in Nat /\ Cardinality(Resuming(monitor')) \in Nat
        /\ monitor.os = "linux" =>
             \/ Asleep(monitor') = {}
             \/ Cardinality(Resuming(monitor')) = Cardinality(Resuming(monitor)) + n
    BY <1>1, <1>2, UvedomiNWakes DEF Finite
  <1>6. Asleep(monitor') \subseteq Asleep(monitor) /\ Asleep(monitor) \subseteq Waiting(monitor)
    BY <1>2, <1>3 DEF Asleep, Waiting, AtPlace, WaitSetOK, WaitSets
  <1>7. Noticed'
    <2> HIDE DEF Resuming, Asleep, Alert, Waiting
    <2> QED BY <1>1, <1>2, <1>5, <1>6 DEF WakeInv, Noticed, EnoughAwake
  <1> QED BY <1>4, <1>7 DEF WakeInv

LEMMA UnsyncWake ==
  ASSUME Finite, Inv, WakeInv, NEW t \in Threads,
         (\E n \in Nat \ {0} : UnsyncRead(t, n)) \/ UnsyncWrite(t) \/ UnsyncNotify(t)
  PROVE  WakeInv'
  <1>0. phase \in [Threads -> Phases] /\ WaitSetOK(monitor, Threads)
    BY DEF Inv, TypeOK
  <1>1. CASE \E n \in Nat \ {0} : UnsyncRead(t, n)
    <2>1. /\ phase[t] = "idle" /\ Goto(t, "add")
          /\ UNCHANGED <<prava_, monitor, parking, unsync>>
      BY <1>1 DEF UnsyncRead
    <2>2. Holders' = Holders
      BY <1>0, <2>1 DEF Goto, Holders
    <2>3. LoopWaits' /\ Late'
      BY <1>0, <2>1 DEF WakeInv, LoopWaits, Late, Goto
    <2> QED BY <2>1, <2>2, <2>3 DEF WakeInv, Noticed, EnoughAwake
  <1>2. CASE UnsyncWrite(t)
    BY <1>0, <1>2 DEF UnsyncWrite, Goto, WakeInv, LoopWaits, Late, Noticed
  <1>3. CASE UnsyncNotify(t)
    <2>1. unsync # "none" /\ UNCHANGED <<unsync, parking>>
      BY <1>3 DEF UnsyncNotify, WakeInv, Late
    <2>2. \A s \in Threads : monitor'.at[s] = "running" => monitor.at[s] = "running"
      BY <1>0, <1>3, UvedomiOK DEF UnsyncNotify
    <2>3. \A s \in Threads : phase'[s] = phase[s] \/ phase'[s] = "idle"
      BY <1>0, <1>3 DEF UnsyncNotify, Goto
    <2> QED BY <2>1, <2>2, <2>3 DEF WakeInv, LoopWaits, Late, Noticed
  <1> QED BY <1>1, <1>2, <1>3

LEMMA KernelWake ==
  ASSUME Finite, Inv, WakeInv, NEW t \in Threads, KernelStep(t)
  PROVE  WakeInv'
  <1>1. /\ monitor' \in KernelSteps(monitor, t, phase[t] = "attempt")
        /\ UNCHANGED <<prava_, parking, phase, unsync>>
    BY DEF KernelStep, bulkVars
  <1>2. WaitSetOK(monitor, Threads) /\ prava_ \in Int
    BY DEF Inv, TypeOK
  <1>3. /\ WaitSetOK(monitor', Threads) /\ Waiting(monitor') = Waiting(monitor)
        /\ Alert(monitor) => Alert(monitor')
        /\ \A s \in Threads : s # t => monitor'.at[s] = monitor.at[s]
        /\ monitor'.os = monitor.os /\ Asleep(monitor') \subseteq Asleep(monitor)
    BY <1>1, <1>2, KernelStepOK
  <1>4. monitor.at[t] \in {"gap", "blocked"} /\ monitor'.at[t] \in {"blocked", "awake", "failed"}
    BY <1>1, <1>2, KernelStepMoves
  <1>5. /\ Cardinality(Resuming(monitor)) \in Nat /\ Cardinality(Resuming(monitor')) \in Nat
        /\ Cardinality(Resuming(monitor')) >= Cardinality(Resuming(monitor))
    BY <1>2, <1>3, <1>4, ResumingMoves DEF Finite, One
  <1>6. LoopWaits' /\ Late' /\ Holders' = Holders
    BY <1>1, <1>3, <1>4 DEF WakeInv, LoopWaits, Late, Holders
  <1>7. Noticed'
    <2> HIDE DEF Resuming, Asleep, Alert, Holders
    <2> QED BY <1>1, <1>2, <1>3, <1>5, <1>6 DEF WakeInv, Noticed, EnoughAwake
  <1> QED BY <1>6, <1>7 DEF WakeInv

LEMMA NextWake == Finite /\ Inv /\ Inv' /\ WakeInv /\ [Next]_vars => WakeInv'
  <1> SUFFICES ASSUME Finite, Inv, Inv', WakeInv, [Next]_vars PROVE WakeInv'
    OBVIOUS
  <1>1. ASSUME NEW t \in Threads, Acquire(t) PROVE WakeInv'
    BY <1>1, EnterWake, RetryWake DEF Acquire
  <1>2. ASSUME NEW t \in Threads, Attempt(t) PROVE WakeInv'
    BY <1>2, EnterWake, RetryWake, GiveUpWake DEF Attempt
  <1>3. ASSUME NEW t \in Threads, Donate(t) PROVE WakeInv'
    <2>1. PICK n \in 1..(MaxIssued - issued - Pending) : ReleaseN(t, n) \/ UnsyncRead(t, n)
      BY <1>3 DEF Donate
    <2>2. n \in Nat \ {0}
      OBVIOUS
    <2> QED BY <2>1, <2>2, ReleaseNWake, UnsyncWake
  <1>4. CASE UNCHANGED vars
    BY <1>4 DEF vars, WakeInv, LoopWaits, Late, Noticed, EnoughAwake, Holders
  <1> QED
    BY <1>1, <1>2, <1>3, <1>4, ParkWake, WaitFailedWake, ReleaseWake, UnsyncWake, KernelWake
       DEF Next

(* No wakeup is lost: on linux enough threads are on their way back for all *)
(* the permits that are available while anybody sleeps, and on Windows,     *)
(* where an event holds one notification, somebody is on its way or holds a *)
(* permit whose отпусти will notify again.  An отпусти(n) of Семафор that   *)
(* has written права_ and not yet called уведоми is excepted.               *)
THEOREM NoneLost == ASSUME Finite PROVE Spec => []NoLostWakeup
  <1>1. WakeInv => NoLostWakeup
    BY DEF WakeInv, Noticed, NoLostWakeup
  <1> QED BY <1>1, Invariance, InitWake, NextWake, PTL DEF Spec

------------------------------------------------------------------------------
\* What Contract calls the phase of a thread.
Called(p) == IF p \in {"add", "notify"} THEN "idle" ELSE p

LEMMA CalledGoto ==
  ASSUME phase \in [Threads -> Phases], NEW t \in Threads, NEW p, Goto(t, p)
  PROVE  [s \in Threads |-> Called(phase'[s])]
           = [[s \in Threads |-> Called(phase[s])] EXCEPT ![t] = Called(p)]
  BY DEF Goto, Called

LEMMA StepKeepsContract ==
  Inv /\ [Next]_vars => unsync' = "raced" \/ Contract!Next \/ UNCHANGED Contract!vars
  <1> SUFFICES ASSUME Inv, [Next]_vars, unsync' # "raced"
               PROVE  Contract!Next \/ UNCHANGED Contract!vars
    OBVIOUS
  <1> DEFINE called == [s \in Threads |-> Called(phase[s])]
             passed == issued - prava_
             OK == Contract!Next \/ UNCHANGED Contract!vars
  <1> USE DEF Inv, TypeOK, Phases, bulkVars
  <1>1. ASSUME UNCHANGED phase, issued' - prava_' = issued - prava_, prava_' \in Int,
               issued' \in Int, issued' >= issued
        PROVE  OK
    <2>1. called' = called /\ passed' = passed
      BY <1>1 DEF Called
    <2>2. issued' = issued => UNCHANGED Contract!vars
      BY <2>1 DEF Contract!vars, called, passed, Called
    <2>3. issued' > issued => Contract!Donate
      BY <1>1, <2>1 DEF Contract!Donate, called, passed, Called
    <2> QED BY <1>1, <2>2, <2>3 DEF Contract!Next
  <1>2. ASSUME NEW t \in Threads, Goto(t, "held"), UNCHANGED issued,
               phase[t] \in {"idle", "acquire", "attempt"},
               prava_ > 0, prava_' = prava_ - 1
        PROVE  OK
    <2>1. called' = [called EXCEPT ![t] = "held"]
          /\ called[t] \in {"idle", "acquire", "attempt"}
      BY <1>2, CalledGoto DEF Called
    <2>2. passed' = passed + 1 /\ passed < issued
      BY <1>2
    <2>3. Contract!Pass(t)
      BY <1>2, <2>1, <2>2 DEF Contract!Pass, Contract!Goto, called, passed, Called
    <2> QED BY <2>3 DEF Contract!Next
  <1>3. ASSUME NEW t \in Threads, NEW call \in {"acquire", "attempt"}, Goto(t, call),
               UNCHANGED <<issued, prava_>>, phase[t] = "idle"
        PROVE  OK
    <2>1. called' = [called EXCEPT ![t] = call] /\ called[t] = "idle"
      BY <1>3, CalledGoto DEF Called
    <2>2. Contract!Call(t)
      BY <1>3, <2>1 DEF Contract!Call, Contract!Goto, called, Called
    <2> QED BY <2>2 DEF Contract!Next
  <1>4. ASSUME NEW t \in Threads, Goto(t, "idle"), UNCHANGED <<issued, prava_>>,
               phase[t] \in {"acquire", "attempt"}
        PROVE  OK
    <2>1. called' = [called EXCEPT ![t] = "idle"] /\ called[t] \in {"acquire", "attempt"}
      BY <1>4, CalledGoto DEF Called
    <2>2. Contract!Fail(t)
      BY <1>4, <2>1 DEF Contract!Fail, Contract!Goto, called, Called
    <2> QED BY <2>2 DEF Contract!Next
  <1>5. ASSUME NEW t \in Threads, Release(t)
        PROVE  OK
    <2>1. called' = [called EXCEPT ![t] = "idle"] /\ called[t] = "held"
      BY <1>5, CalledGoto DEF Called, Release
    <2>2. passed' = passed - 1
      BY <1>5 DEF Release
    <2>3. Contract!Release(t)
      BY <1>5, <2>1, <2>2 DEF Release, Contract!Release, Contract!Goto, called, passed, Called
    <2> QED BY <2>3 DEF Contract!Next
  <1>6. ASSUME NEW t \in Threads, NEW p \in {"idle", "add", "notify"}, Goto(t, p),
               phase[t] \in {"idle", "add", "notify"},
               issued' - prava_' = issued - prava_, prava_' \in Int,
               issued' \in Int, issued' >= issued
        PROVE  OK
    <2>1. called' = [called EXCEPT ![t] = "idle"] /\ called[t] = "idle"
      BY <1>6, CalledGoto DEF Called
    <2>2. called' = called /\ passed' = passed
      <3>1. called' = called
        BY <2>1 DEF Called
      <3>2. passed' = passed
        BY <1>6
      <3> QED BY <3>1, <3>2
    <2>3. issued' = issued => UNCHANGED Contract!vars
      BY <2>2 DEF Contract!vars, called, passed, Called
    <2>4. issued' > issued => Contract!Donate
      BY <1>6, <2>2 DEF Contract!Donate, called, passed, Called
    <2> QED BY <1>6, <2>3, <2>4 DEF Contract!Next
  <1> HIDE DEF OK, called, passed
  <1>7. ASSUME NEW t \in Threads, NEW call \in {"acquire", "attempt"}, Enter(t, call)
        PROVE  OK
    BY <1>7, <1>2, <1>3 DEF Enter, Entering, MayPass
  <1>8. ASSUME NEW t \in Threads, NEW call \in {"acquire", "attempt"}, Retry(t, call)
        PROVE  OK
    BY <1>8, <1>1, <1>2 DEF Retry, Returning
  <1>9. ASSUME NEW t \in Threads, GiveUp(t)
        PROVE  OK
    BY <1>9, <1>4 DEF GiveUp, Returning
  <1>10. ASSUME NEW t \in Threads, WaitFailed(t)
         PROVE  OK
    BY <1>10, <1>4 DEF WaitFailed, Located
  <1>11. ASSUME NEW t \in Threads, Park(t) \/ KernelStep(t)
         PROVE  OK
    BY <1>11, <1>1 DEF Park, KernelStep
  <1>12. ASSUME NEW t \in Threads, Donate(t)
         PROVE  OK
    <2>1. PICK n \in 1..(MaxIssued - issued - Pending) : ReleaseN(t, n) \/ UnsyncRead(t, n)
      BY <1>12 DEF Donate
    <2>2. n \in Nat
      OBVIOUS
    <2>3. ReleaseN(t, n) => OK
      BY <2>2, <1>1 DEF ReleaseN
    <2>4. UnsyncRead(t, n) => OK
      BY <1>6 DEF UnsyncRead
    <2> QED BY <2>1, <2>3, <2>4
  <1>13. ASSUME NEW t \in Threads, UnsyncWrite(t)
         PROVE  OK
    <2>1. prava_' = prava_ + left[t] /\ left[t] \in Nat
      BY <1>13 DEF UnsyncWrite
    <2> QED BY <1>13, <2>1, <1>6 DEF UnsyncWrite
  <1>14. ASSUME NEW t \in Threads, UnsyncNotify(t)
         PROVE  OK
    BY <1>14, <1>1, <1>6 DEF UnsyncNotify
  <1>15. ASSUME UNCHANGED vars PROVE OK
    BY <1>15, <1>1 DEF vars
  <1>16. ASSUME NEW t \in Threads, Acquire(t) \/ Attempt(t)
         PROVE  OK
    BY <1>16, <1>7, <1>8, <1>9 DEF Acquire, Attempt
  <1>17. OK
    <2>1. ASSUME Next PROVE OK
      <3>1. PICK t \in Threads :
              \/ Acquire(t) \/ Attempt(t) \/ Park(t) \/ WaitFailed(t)
              \/ Release(t) \/ Donate(t) \/ UnsyncWrite(t) \/ UnsyncNotify(t)
              \/ KernelStep(t)
        BY <2>1 DEF Next
      <3> QED
        BY <3>1, <1>5, <1>10, <1>11, <1>12, <1>13, <1>14, <1>16
    <2> QED BY <1>15, <2>1
  <1> QED BY <1>17 DEF OK

(* Both classes do only what the interface allows, until an unsynchronized  *)
(* отпусти(n) has raced: no thread passes without a permit of its own.      *)
THEOREM ContractKept == ASSUME Finite PROVE Spec => KeepsContract
  <1>1. Inv /\ [Next]_vars
          => [unsync' = "raced" \/ Contract!Next \/ UNCHANGED Contract!vars]_vars
    BY StepKeepsContract
  <1> QED BY <1>1, Invariance, PTL DEF Spec, KeepsContract

------------------------------------------------------------------------------
\* The contract by itself, with variables of its own.
VARIABLES callOf, entered, allowed

Sync ==
  INSTANCE SyncContract WITH phase <- callOf, passed <- entered, permits <- allowed

Stages == {"idle", "acquire", "attempt", "held"}

Inside == {t \in Threads : callOf[t] = "held"}

Counted ==
  /\ callOf \in [Threads -> Stages]
  /\ entered \in Nat /\ allowed \in Int
  /\ entered = 0 \/ entered <= allowed
  /\ entered = Cardinality(Inside)

LEMMA InsideFinite == Finite => IsFiniteSet(Inside)
  BY FS_Subset DEF Inside, Finite

LEMMA CountedStep == Finite /\ Counted /\ [Sync!Next]_Sync!vars => Counted'
  <1> SUFFICES ASSUME Finite, Counted, [Sync!Next]_Sync!vars PROVE Counted'
    OBVIOUS
  <1> USE DEF Stages, Sync!Goto, Finite
  <1>1. ASSUME NEW t \in Threads, Sync!Call(t) \/ Sync!Fail(t) PROVE Counted'
    <2>1. Inside' = Inside
      BY <1>1 DEF Counted, Inside, Sync!Call, Sync!Fail
    <2> QED
      BY <1>1, <2>1 DEF Counted, Sync!Call, Sync!Fail
  <1>2. ASSUME NEW t \in Threads, Sync!Pass(t) PROVE Counted'
    <2>1. Inside' = Inside \cup {t} /\ t \notin Inside
      BY <1>2 DEF Counted, Inside, Sync!Pass
    <2>2. Cardinality(Inside') = Cardinality(Inside) + 1
      BY <2>1, InsideFinite, FS_AddElement
    <2> QED
      BY <1>2, <2>2 DEF Counted, Sync!Pass
  <1>3. ASSUME NEW t \in Threads, Sync!Release(t) PROVE Counted'
    <2>1. Inside' = Inside \ {t} /\ t \in Inside
      BY <1>3 DEF Counted, Inside, Sync!Release
    <2>2. Cardinality(Inside') = Cardinality(Inside) - 1
      BY <2>1, InsideFinite, FS_RemoveElement
    <2>3. Cardinality(Inside') \in Nat
      BY <2>1, InsideFinite, FS_RemoveElement, FS_CardinalityType
    <2> QED
      BY <1>3, <2>2, <2>3 DEF Counted, Sync!Release
  <1>4. CASE Sync!Donate
    <2>1. Inside' = Inside
      BY <1>4 DEF Inside, Sync!Donate
    <2> QED
      BY <1>4, <2>1 DEF Counted, Sync!Donate
  <1>5. CASE UNCHANGED Sync!vars
    BY <1>5 DEF Counted, Inside, Sync!vars
  <1> QED
    BY <1>1, <1>2, <1>3, <1>4, <1>5 DEF Sync!Next

(* The counter of the contract counts: a class shown to implement it has as *)
(* many threads past обрети as the contract counts, and never more than its *)
(* permits.                                                                 *)
THEOREM CountIsExact == ASSUME Finite PROVE Sync!Spec => []Counted
  <1>1. Sync!Init => Counted
    <2> SUFFICES ASSUME Sync!Init PROVE Counted
      OBVIOUS
    <2>1. Inside = {}
      BY DEF Sync!Init, Inside
    <2> QED
      BY <2>1, FS_EmptySet DEF Sync!Init, Counted, Stages, Finite
  <1>2. Counted /\ [Sync!Next]_Sync!vars => Counted'
    BY CountedStep
  <1> QED
    BY <1>1, <1>2, PTL DEF Sync!Spec
==============================================================================
