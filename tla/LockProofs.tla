----------------------------- MODULE LockProofs -----------------------------
(***************************************************************************)
(* The locks of mutex.d and reentrantlock.d and those of the runtime.      *)
(*                                                                         *)
(* Mutex, for any threads, either class and either platform: mutual        *)
(* exclusion, no lost wakeup, and the steps SyncContract allows.  The three*)
(* parts of the inductive invariant MutexInv,                              *)
(*   TypeOK           with the well-formed wait set of the platform;       *)
(*   MutualExclusion  the owner, its holds and the holders agree;          *)
(*   Parked           who waits is in a call, and who holds does not wait, *)
(* are what NoLostWakeup needs: a lock in use has a holder, so only        *)
(* Release frees it, and Release notifies.                                 *)
(*                                                                         *)
(* RuntimeLocks, for any threads, locks and depth and each of the four ways*)
(* of making one.  The inductive invariant RuntimeInv has, besides the     *)
(* types,                                                                  *)
(*   Aimed       where a thread is, its target is, or is not, published;   *)
(*   NotStarted  what is true until the global lock has been made;         *)
(*   CreateSafe  on the way "create" every published lock is initialised,  *)
(*               so that nothing undefined can happen;                     *)
(*   Blocks      the monitors a thread has allocated ahead;                *)
(*   Entered     an owned mutex has been entered;                          *)
(*   Orderly     as long as nothing undefined has happened: the global lock*)
(*               protects what is between TakeGlobal and LeaveGlobal, a    *)
(*               mutex is free until it is ready, and its owner is inside. *)
(* Listed, proved on top of it, says the same of the list of sections.     *)
(***************************************************************************)
EXTENDS Mutex, RuntimeLocks, CommonTheorems

Parked ==
  \A t \in Threads :
    monitor.at[t] # "running" => phase[t] \in {"acquire", "attempt"}

MutexInv == TypeOK /\ MutualExclusion /\ Parked /\ NoLostWakeup

LEMMA MutexInitInv == Init => MutexInv
  <1> SUFFICES ASSUME Init PROVE MutexInv
    OBVIOUS
  <1>1. PICK os \in Systems : monitor = NewWaitSet(os, Threads)
    BY DEF Init
  <1>2. WaitSetOK(monitor, Threads) /\ Waiting(monitor) = {}
    BY <1>1, NewWaitSetOK, SystemsAssumption
  <1>3. \A t \in Threads : monitor.at[t] = "running"
    BY <1>1 DEF NewWaitSet
  <1> QED
    BY <1>2, <1>3, ClassesAssumption, ThreadsAssumption
       DEF Init, MutexInv, TypeOK, Phases, MutualExclusion, Holders, Parked, NoLostWakeup, inuse_

LEMMA TakeInv ==
  ASSUME MutexInv, NEW t \in Threads, phase[t] # "held", Take(t)
  PROVE  MutexInv'
  <1>1. WaitSetOK(monitor', Threads)
        /\ (\A s \in Threads : s # t => monitor'.at[s] = monitor.at[s])
        /\ monitor'.at[t] = "running"
    BY ResumeOK DEF MutexInv, TypeOK, Take
  <1>2. TypeOK' /\ MutualExclusion' /\ Parked'
    BY <1>1, ClassesAssumption, ThreadsAssumption
       DEF MutexInv, TypeOK, MutualExclusion, Holders, Parked, Take, Goto, Phases, inuse_
  <1>3. NoLostWakeup'
    BY ClassesAssumption, ThreadsAssumption DEF NoLostWakeup, Take, inuse_
  <1> QED BY <1>2, <1>3 DEF MutexInv

LEMMA WaitInv ==
  ASSUME MutexInv, NEW t \in Threads, phase[t] # "held",
         NEW call \in {"acquire", "attempt"}, Wait(t, call)
  PROVE  MutexInv'
  <1>1. WaitSetOK(monitor', Threads)
        /\ (\A s \in Threads : s # t => monitor'.at[s] = monitor.at[s])
    BY SMTT(30), ZhdiOK DEF MutexInv, TypeOK, Wait
  <1>2. TypeOK' /\ MutualExclusion' /\ Parked'
    BY <1>1 DEF MutexInv, TypeOK, MutualExclusion, Holders, Parked, Wait, Goto, Phases,
       inuse_, lock
  <1>3. NoLostWakeup'
    BY DEF NoLostWakeup, Wait, inuse_, lock
  <1> QED BY <1>2, <1>3 DEF MutexInv

LEMMA GiveUpInv ==
  ASSUME MutexInv, NEW t \in Threads, phase[t] # "held", GiveUp(t)
  PROVE  MutexInv'
  <1>1. WaitSetOK(monitor', Threads)
        /\ (\A s \in Threads : s # t => monitor'.at[s] = monitor.at[s])
        /\ monitor'.at[t] = "running"
    BY ResumeOK DEF MutexInv, TypeOK, GiveUp
  <1>2. TypeOK' /\ MutualExclusion' /\ Parked'
    BY <1>1 DEF MutexInv, TypeOK, MutualExclusion, Holders, Parked, GiveUp, Goto, Phases,
       inuse_, lock
  <1>3. NoLostWakeup'
    BY DEF NoLostWakeup, GiveUp, inuse_, lock
  <1> QED BY <1>2, <1>3 DEF MutexInv

\* A notification keeps every part of the invariant that speaks of the wait
\* set, whatever the lock's status becomes.
LEMMA NotifyKeeps ==
  ASSUME NEW w, WaitSetOK(w, Threads), NEW x \in Uvedomi(w)
  PROVE  /\ WaitSetOK(x, Threads)
         /\ \A s \in Threads : x.at[s] # "running" => w.at[s] # "running"
         /\ Waiting(x) # {} => Alert(x)
  <1>1. WaitSetOK(x, Threads)
        /\ \A s \in Threads : \/ x.at[s] = w.at[s]
                              \/ w.at[s] = "blocked" /\ x.at[s] = "awake"
    BY UvedomiOK
  <1>2. Waiting(x) # {} => Waiting(w) # {}
    BY <1>1 DEF Waiting, AtPlace, WaitSetOK, WaitSets, Places
  <1> QED BY <1>1, <1>2, UvedomiAlerts

LEMMA WaitFailedInv ==
  ASSUME MutexInv, NEW t \in Threads, WaitFailed(t)
  PROVE  MutexInv'
  <1> DEFINE w == Resume(monitor, t)
  <1>1. WaitSetOK(w, Threads)
        /\ (\A s \in Threads : s # t => w.at[s] = monitor.at[s])
        /\ w.at[t] = "running"
    BY ResumeOK DEF MutexInv, TypeOK
  <1>2. monitor' \in Uvedomi(w)
    BY DEF WaitFailed
  <1> HIDE DEF w
  <1>3. WaitSetOK(monitor', Threads)
        /\ (\A s \in Threads : monitor'.at[s] # "running" => w.at[s] # "running")
        /\ (Waiting(monitor') # {} => Alert(monitor'))
    BY <1>1, <1>2, NotifyKeeps
  <1>4. phase[t] \in {"acquire", "attempt"}
    BY DEF MutexInv, Parked, WaitFailed
  <1>5. TypeOK' /\ MutualExclusion' /\ Parked'
    BY <1>1, <1>3, <1>4 DEF MutexInv, TypeOK, MutualExclusion, Holders, Parked,
       WaitFailed, Goto, Phases, inuse_, lock
  <1>6. NoLostWakeup'
    BY <1>3 DEF NoLostWakeup
  <1> QED BY <1>5, <1>6 DEF MutexInv

\* Only the owner's holds change.
LEMMA HoldsInv ==
  ASSUME MutexInv, inuse_, soderzhit_' \in Nat, soderzhit_' > 0,
         UNCHANGED <<vladelec_, monitor, phase, cls>>
  PROVE  MutexInv'
  BY DEF MutexInv, TypeOK, MutualExclusion, Holders, Parked, NoLostWakeup, inuse_

LEMMA FreeInv ==
  ASSUME MutexInv, NEW t \in Threads, phase[t] = "held", soderzhit_' = 0, Free(t),
         UNCHANGED cls
  PROVE  MutexInv'
  <1>1. WaitSetOK(monitor', Threads)
        /\ (\A s \in Threads : monitor'.at[s] # "running" => monitor.at[s] # "running")
        /\ (Waiting(monitor') # {} => Alert(monitor'))
    BY NotifyKeeps DEF MutexInv, TypeOK, Free
  <1>2. monitor.at[t] = "running"
    BY DEF MutexInv, Parked
  <1>3. TypeOK' /\ Parked'
    BY <1>1, <1>2 DEF MutexInv, TypeOK, Parked, Free, Goto, Phases
  <1>4. Holders' = Holders \ {t}
    BY DEF MutexInv, TypeOK, Holders, Free, Goto
  <1>5. Holders = {t}
    BY DEF MutexInv, MutualExclusion, Holders
  <1>6. MutualExclusion'
    BY <1>4, <1>5 DEF MutualExclusion, Free, inuse_
  <1>7. NoLostWakeup'
    BY <1>1 DEF NoLostWakeup
  <1> QED BY <1>3, <1>6, <1>7 DEF MutexInv

LEMMA ReleaseInv ==
  ASSUME MutexInv, NEW t \in Threads, NEW n \in 1..soderzhit_, Release(t, n)
  PROVE  MutexInv'
  <1>1. CASE n = soderzhit_ /\ Free(t)
    BY <1>1, FreeInv DEF Release, MutexInv, TypeOK
  <1>2. CASE n # soderzhit_ /\ UNCHANGED <<vladelec_, monitor, phase>>
    <2>1. soderzhit_' \in Nat /\ soderzhit_' > 0 /\ inuse_
      BY <1>2 DEF Release, MutexInv, TypeOK, MutualExclusion
    <2> QED
      BY <1>2, <2>1, HoldsInv DEF Release
  <1> QED BY <1>1, <1>2 DEF Release

LEMMA AcquireAgainInv ==
  ASSUME MutexInv, NEW t \in Threads, AcquireAgain(t)
  PROVE  MutexInv'
  <1>1. soderzhit_' \in Nat /\ soderzhit_' > 0 /\ inuse_
    BY ClassesAssumption, ThreadsAssumption DEF AcquireAgain, MutexInv, TypeOK, inuse_
  <1> QED BY <1>1, HoldsInv DEF AcquireAgain

LEMMA KernelInv ==
  ASSUME MutexInv, NEW t \in Threads, KernelStep(t)
  PROVE  MutexInv'
  <1>1. monitor' \in KernelSteps(monitor, t, phase[t] = "attempt")
        /\ UNCHANGED <<vladelec_, soderzhit_, cls, phase>>
    BY DEF KernelStep, lock
  <1>2. WaitSetOK(monitor', Threads)
        /\ Waiting(monitor') = Waiting(monitor)
        /\ (Alert(monitor) => Alert(monitor'))
        /\ (\A s \in Threads : s # t => monitor'.at[s] = monitor.at[s])
        /\ t \in Waiting(monitor)
    BY <1>1, KernelStepOK DEF MutexInv, TypeOK
  <1>3. TypeOK' /\ MutualExclusion' /\ NoLostWakeup'
    BY <1>1, <1>2 DEF MutexInv, TypeOK, MutualExclusion, Holders, NoLostWakeup, Phases, inuse_
  <1>4. monitor.at[t] # "running"
    BY <1>2 DEF Waiting, AtPlace
  <1>5. Parked'
    BY <1>1, <1>2, <1>4 DEF MutexInv, Parked
  <1> QED BY <1>3, <1>5 DEF MutexInv

\* No caller is the holder: the lock is not re-entrant, and a thread that holds
\* it does not call again.
LEMMA CallerHoldsNot ==
  ASSUME NEW t, NEW call \in {"acquire", "attempt"}, Running(t, call)
  PROVE  phase[t] # "held"
  BY DEF Running

LEMMA NextInv == MutexInv /\ [Next]_vars => MutexInv'
  <1> SUFFICES ASSUME MutexInv, [Next]_vars PROVE MutexInv'
    OBVIOUS
  <1>1. ASSUME NEW t \in Threads, Acquire(t) PROVE MutexInv'
    BY <1>1, CallerHoldsNot, TakeInv, WaitInv DEF Acquire
  <1>2. ASSUME NEW t \in Threads, Attempt(t) PROVE MutexInv'
    BY <1>2, CallerHoldsNot, TakeInv, WaitInv, GiveUpInv DEF Attempt
  <1>3. CASE UNCHANGED vars
    BY <1>3 DEF MutexInv, vars, TypeOK, MutualExclusion, Holders, Parked, NoLostWakeup, inuse_
  <1> QED
    BY <1>1, <1>2, <1>3, AcquireAgainInv, WaitFailedInv, ReleaseInv, KernelInv DEF Next

(* Everything below holds of every reachable state.                         *)
THEOREM MutexInvariance == Spec => []MutexInv
  BY MutexInitInv, NextInv, PTL DEF Spec

(* Type correctness: the wait set is one the platform can be in.            *)
THEOREM TypeCorrectness == Spec => []TypeOK
  BY MutexInvariance, PTL DEF MutexInv

(* At most one thread is past обрети, the owner, and exactly then it has     *)
(* holds to give back.                                                      *)
THEOREM OneOwner == Spec => []MutualExclusion
  BY MutexInvariance, PTL DEF MutexInv

(* A free lock with waiters always has one on its way, on both platforms:   *)
(* the single уведоми of отпусти is enough for a lock, whatever the Windows *)
(* event does between the monitor's release and the kernel wait.            *)
THEOREM WakeupsSurvive == Spec => []NoLostWakeup
  BY MutexInvariance, PTL DEF MutexInv

LEMMA StepKeepsContract == MutexInv /\ [Next]_vars => [Contract!Next]_(Contract!vars)
  <1> SUFFICES ASSUME MutexInv, [Next]_vars PROVE Contract!Next \/ UNCHANGED Contract!vars
    OBVIOUS
  <1> USE DEF Goto, Contract!Goto, Contract!vars
  <1>1. ASSUME NEW t \in Threads, phase[t] # "held", Take(t)
        PROVE  Contract!Pass(t)
    BY <1>1, ClassesAssumption, ThreadsAssumption
       DEF MutexInv, TypeOK, Phases, Take, Contract!Pass, inuse_
  <1>2. ASSUME NEW t \in Threads, NEW call \in {"acquire", "attempt"},
               Running(t, call), Wait(t, call)
        PROVE  Contract!Call(t) \/ UNCHANGED Contract!vars
    BY <1>2 DEF MutexInv, TypeOK, Running, Wait, Contract!Call, inuse_, lock
  <1>3. ASSUME NEW t \in Threads, Running(t, "attempt"), GiveUp(t)
        PROVE  Contract!Fail(t) \/ UNCHANGED Contract!vars
    BY <1>3 DEF MutexInv, TypeOK, Running, GiveUp, Contract!Fail, inuse_, lock
  <1>4. ASSUME NEW t \in Threads, Acquire(t)
        PROVE  Contract!Next \/ UNCHANGED Contract!vars
    BY <1>1, <1>2, <1>4, CallerHoldsNot DEF Acquire, Contract!Next
  <1>5. ASSUME NEW t \in Threads, Attempt(t)
        PROVE  Contract!Next \/ UNCHANGED Contract!vars
    BY <1>1, <1>2, <1>3, <1>5, CallerHoldsNot DEF Attempt, Contract!Next
  <1>6. ASSUME NEW t \in Threads, WaitFailed(t) PROVE Contract!Next
    BY <1>6 DEF MutexInv, Parked, WaitFailed, Contract!Next, Contract!Fail, inuse_, lock
  <1>7. ASSUME NEW t \in Threads, NEW n \in 1..soderzhit_, Release(t, n)
        PROVE  Contract!Next \/ UNCHANGED Contract!vars
    <2>1. CASE Free(t)
      <3>1. inuse_
        BY <1>7 DEF MutexInv, TypeOK, MutualExclusion
      <3>2. Contract!Release(t)
        BY <1>7, <2>1, <3>1 DEF Release, Free, Contract!Release, inuse_
      <3> QED
        BY <3>2 DEF Contract!Next
    <2>2. CASE UNCHANGED <<vladelec_, monitor, phase>>
      BY <2>2 DEF inuse_
    <2> QED
      BY <1>7, <2>1, <2>2 DEF Release
  <1>8. ASSUME NEW t \in Threads, KernelStep(t) PROVE UNCHANGED Contract!vars
    BY <1>8 DEF KernelStep, inuse_, lock
  <1>9. CASE UNCHANGED vars
    BY <1>9 DEF vars, inuse_
  <1>10. ASSUME NEW t \in Threads, AcquireAgain(t) PROVE UNCHANGED Contract!vars
    BY <1>10 DEF AcquireAgain, inuse_
  <1> QED
    BY <1>4, <1>5, <1>6, <1>7, <1>8, <1>9, <1>10 DEF Next

(* Мютекс implements the interface with one permit: no call returns while   *)
(* another thread holds, and a failed or refused call holds nothing.        *)
THEOREM Refinement == Spec => KeepsContract
  <1>1. Init => Contract!Init
    BY DEF Init, Contract!Init, inuse_
  <1> QED
    BY <1>1, MutexInvariance, StepKeepsContract, PTL DEF Spec, KeepsContract, Contract!Spec
------------------------------------------------------------------------------
Aimed ==
  \A t \in Threads :
    /\ phase[t] # "idle" => target[t] \in Locks
    /\ phase[t] \in {"published", "leaving", "lock", "held", "hung"}
         => target[t] \in published
    /\ phase[t] = "published" => path # "create"
    /\ phase[t] = "starting" => path = "lazy"

NotStarted ==
  /\ ~started => \A t \in Threads : phase[t] \in {"idle", "starting"}
  /\ ~started /\ ~ended => path = "lazy"
  /\ ended => Critical /\ ~started /\ \A t \in Threads : phase[t] = "idle"

CreateSafe == path = "create" => ~race /\ published \subseteq ready

Blocks ==
  \A t \in Threads :
    /\ path = "enter" /\ phase[t] \in {"want", "inside"} => blocks[t] >= 1
    /\ phase[t] \in {"idle", "lock", "held", "starting"} => blocks[t] = 0

Entered == \A l \in Locks : owner[l] # NoThread => depth[l] >= 1

Guarded == \A t \in Threads :
  phase[t] \in {"inside", "published", "leaving"} => global = t

Unready == \A t \in Threads : phase[t] = "published" => target[t] \notin ready

FreeUntilReady == \A l \in Locks : l \notin ready => owner[l] = NoThread

OwnersInside == \A l \in Locks :
  owner[l] # NoThread => phase[owner[l]] = "held" /\ target[owner[l]] = l

InsideOwns == \A t \in Threads : phase[t] = "held" => owner[target[t]] = t

Orderly == ~race =>
  Guarded /\ Unready /\ FreeUntilReady /\ OwnersInside /\ InsideOwns

RuntimeInv ==
  /\ RuntimeTypeOK /\ ready \subseteq published
  /\ Aimed /\ NotStarted /\ CreateSafe /\ Blocks /\ Entered /\ Orderly

FlagsOK == path \in Paths /\ {started, race, ended} \subseteq BOOLEAN

DataOK ==
  /\ global \in Threads \cup {NoThread}
  /\ published \subseteq Locks /\ ready \subseteq Locks
  /\ owner \in [Locks -> Threads \cup {NoThread}] /\ depth \in [Locks -> Nat]
  /\ list \in Seq(Locks)
  /\ blocks \in [Threads -> Nat]
  /\ phase \in [Threads -> RuntimePhases]
  /\ target \in [Threads -> Locks \cup {NoLock}]

\* The provers take the two apart: Booleans do not go with arithmetic.
LEMMA TypeParts == RuntimeTypeOK <=> FlagsOK /\ DataOK
  BY DEF RuntimeTypeOK, FlagsOK, DataOK

LEMMA RuntimeInitInv == RuntimeInit => RuntimeInv
  <1> SUFFICES ASSUME RuntimeInit PROVE RuntimeInv
    OBVIOUS
  <1>1. RuntimeTypeOK
    <2>1. FlagsOK
      BY DEF RuntimeInit, FlagsOK
    <2>2. DataOK
      BY DEF RuntimeInit, DataOK, RuntimePhases
    <2> QED BY <2>1, <2>2, TypeParts
  <1>2. ready \subseteq published /\ Aimed /\ CreateSafe /\ Blocks /\ Entered /\ Orderly
    BY DEF RuntimeInit, Aimed, CreateSafe, Blocks, Entered, Orderly, Guarded, Unready,
           FreeUntilReady, OwnersInside, InsideOwns
  <1>3. NotStarted
    BY DEF RuntimeInit, NotStarted
  <1> QED BY <1>1, <1>2, <1>3 DEF RuntimeInv

\* Every step keeps RuntimeInv: the part a step disturbs is Orderly, nearly always.
LEMMA StepInv ==
  ASSUME RuntimeInv, RuntimeNext
  PROVE  RuntimeInv'
  <1> USE RuntimeAssumption, ThreadsAssumption
          DEF RuntimeInv, Goto, RuntimePhases, mutexVars, listVars, Critical
  <1>1. ASSUME NEW t \in Threads, NEW l \in Locks, FindNothingStarted(t, l) PROVE RuntimeInv'
    <2> USE <1>1 DEF FindNothingStarted
    <2>1. RuntimeTypeOK'
      <3>1. FlagsOK'
        BY TypeParts DEF FlagsOK
      <3>2. DataOK'
        BY TypeParts DEF DataOK, Aimed, Entered, Blocks
      <3> QED BY <3>1, <3>2 DEF RuntimeTypeOK, FlagsOK, DataOK
    <2>2. Aimed' /\ NotStarted' /\ CreateSafe'
      BY DEF RuntimeTypeOK, Aimed, NotStarted, CreateSafe
    <2>3. Blocks' /\ Entered'
      BY DEF RuntimeTypeOK, Blocks, Entered
    <2>4. Orderly'
      BY DEF RuntimeTypeOK, Orderly, Guarded, Unready, FreeUntilReady, OwnersInside, InsideOwns
    <2> QED BY <2>1, <2>2, <2>3, <2>4
  <1>2. ASSUME NEW t \in Threads, NEW l \in Locks, Look(t, l) PROVE RuntimeInv'
    <2> USE <1>2 DEF Look
    <2>1. RuntimeTypeOK'
      <3>1. FlagsOK'
        BY TypeParts DEF FlagsOK
      <3>2. DataOK'
        BY TypeParts DEF DataOK, Aimed, Entered, Blocks
      <3> QED BY <3>1, <3>2 DEF RuntimeTypeOK, FlagsOK, DataOK
    <2>2. Aimed' /\ NotStarted' /\ CreateSafe'
      BY DEF RuntimeTypeOK, Aimed, NotStarted, CreateSafe
    <2>3. Blocks' /\ Entered'
      BY DEF RuntimeTypeOK, Blocks, Entered
    <2>4. Orderly'
      BY DEF RuntimeTypeOK, Orderly, Guarded, Unready, FreeUntilReady, OwnersInside, InsideOwns
    <2> QED BY <2>1, <2>2, <2>3, <2>4
  <1>3. ASSUME NEW t \in Threads, MakeGlobal(t) PROVE RuntimeInv'
    <2> USE <1>3 DEF MakeGlobal
    <2>1. RuntimeTypeOK'
      <3>1. FlagsOK'
        BY TypeParts DEF FlagsOK
      <3>2. DataOK'
        BY TypeParts DEF DataOK, Aimed, Entered, Blocks
      <3> QED BY <3>1, <3>2 DEF RuntimeTypeOK, FlagsOK, DataOK
    <2>2. Aimed' /\ NotStarted' /\ CreateSafe'
      BY DEF RuntimeTypeOK, Aimed, NotStarted, CreateSafe
    <2>3. Blocks' /\ Entered'
      <3>1. path = "lazy" /\ blocks[t] = 0
        BY DEF Aimed, Blocks
      <3> QED BY <3>1 DEF RuntimeTypeOK, Blocks, Entered
    <2>4. Orderly'
      <3> SUFFICES ASSUME ~race' PROVE Orderly'
        BY DEF Orderly
      <3>1. ~race /\ \A u \in Threads : phase[u] \in {"idle", "starting"}
        BY DEF NotStarted
      <3>2. \A u \in Threads : phase'[u] \in {"idle", "starting", "lock", "want"}
        BY <3>1 DEF RuntimeTypeOK
      <3>3. ASSUME NEW l \in Locks, owner[l] # NoThread PROVE FALSE
        <4>1. owner[l] \in Threads /\ phase[owner[l]] = "held"
          BY <3>1, <3>3 DEF RuntimeTypeOK, Orderly, OwnersInside
        <4> QED BY <3>1, <4>1
      <3> QED BY <3>2, <3>3 DEF Orderly, Guarded, Unready, FreeUntilReady,
                                OwnersInside, InsideOwns
    <2> QED BY <2>1, <2>2, <2>3, <2>4
  <1>4. ASSUME NEW t \in Threads, TakeGlobal(t) PROVE RuntimeInv'
    <2> USE <1>4 DEF TakeGlobal
    <2>1. RuntimeTypeOK'
      <3>1. FlagsOK'
        BY TypeParts DEF FlagsOK
      <3>2. DataOK'
        BY TypeParts DEF DataOK, Aimed, Entered, Blocks
      <3> QED BY <3>1, <3>2 DEF RuntimeTypeOK, FlagsOK, DataOK
    <2>2. Aimed' /\ NotStarted' /\ CreateSafe'
      BY DEF RuntimeTypeOK, Aimed, NotStarted, CreateSafe
    <2>3. Blocks' /\ Entered'
      BY DEF RuntimeTypeOK, Blocks, Entered
    <2>4. Orderly'
      BY DEF RuntimeTypeOK, Orderly, Guarded, Unready, FreeUntilReady, OwnersInside, InsideOwns
    <2> QED BY <2>1, <2>2, <2>3, <2>4
  <1>5. ASSUME NEW t \in Threads, FindPublished(t) PROVE RuntimeInv'
    <2> USE <1>5 DEF FindPublished
    <2>1. RuntimeTypeOK'
      <3>1. FlagsOK'
        BY TypeParts DEF FlagsOK
      <3>2. DataOK'
        BY TypeParts DEF DataOK, Aimed, Entered, Blocks
      <3> QED BY <3>1, <3>2 DEF RuntimeTypeOK, FlagsOK, DataOK
    <2>2. Aimed' /\ NotStarted' /\ CreateSafe'
      BY DEF RuntimeTypeOK, Aimed, NotStarted, CreateSafe
    <2>3. Blocks' /\ Entered'
      BY DEF RuntimeTypeOK, Blocks, Entered
    <2>4. Orderly'
      BY DEF RuntimeTypeOK, Orderly, Guarded, Unready, FreeUntilReady, OwnersInside, InsideOwns
    <2> QED BY <2>1, <2>2, <2>3, <2>4
  <1>6. ASSUME NEW t \in Threads, Create(t) PROVE RuntimeInv'
    <2> USE <1>6 DEF Create
    <2>1. RuntimeTypeOK'
      <3>1. FlagsOK'
        BY TypeParts DEF FlagsOK
      <3>2. DataOK'
        BY TypeParts DEF DataOK, Aimed, Entered, Blocks
      <3> QED BY <3>1, <3>2 DEF RuntimeTypeOK, FlagsOK, DataOK
    <2>2. Aimed' /\ NotStarted' /\ CreateSafe'
      BY DEF RuntimeTypeOK, Aimed, NotStarted, CreateSafe
    <2>3. Blocks' /\ Entered'
      BY DEF RuntimeTypeOK, Blocks, Entered
    <2>4. Orderly'
      BY DEF RuntimeTypeOK, Orderly, Guarded, Unready, FreeUntilReady, OwnersInside, InsideOwns
    <2> QED BY <2>1, <2>2, <2>3, <2>4
  <1>7. ASSUME NEW t \in Threads, Publish(t) PROVE RuntimeInv'
    <2> USE <1>7 DEF Publish
    <2>1. RuntimeTypeOK'
      <3>1. FlagsOK'
        BY TypeParts DEF FlagsOK
      <3>2. DataOK'
        BY TypeParts DEF DataOK, Aimed, Entered, Blocks
      <3> QED BY <3>1, <3>2 DEF RuntimeTypeOK, FlagsOK, DataOK
    <2>2. Aimed' /\ NotStarted' /\ CreateSafe'
      BY DEF RuntimeTypeOK, Aimed, NotStarted, CreateSafe
    <2>3. Blocks' /\ Entered'
      BY DEF RuntimeTypeOK, Blocks, Entered
    <2>4. Orderly'
      BY DEF RuntimeTypeOK, Orderly, Guarded, Unready, FreeUntilReady, OwnersInside, InsideOwns
    <2> QED BY <2>1, <2>2, <2>3, <2>4
  <1>8. ASSUME NEW t \in Threads, Initialise(t) PROVE RuntimeInv'
    <2> USE <1>8 DEF Initialise
    <2>1. RuntimeTypeOK'
      <3>1. FlagsOK'
        BY TypeParts DEF FlagsOK
      <3>2. DataOK'
        BY TypeParts DEF DataOK, Aimed, Entered, Blocks
      <3> QED BY <3>1, <3>2 DEF RuntimeTypeOK, FlagsOK, DataOK
    <2>2. Aimed' /\ NotStarted' /\ CreateSafe'
      BY DEF RuntimeTypeOK, Aimed, NotStarted, CreateSafe
    <2>3. Blocks' /\ Entered'
      BY DEF RuntimeTypeOK, Blocks, Entered
    <2>4. Orderly'
      BY DEF RuntimeTypeOK, Orderly, Guarded, Unready, FreeUntilReady, OwnersInside, InsideOwns
    <2> QED BY <2>1, <2>2, <2>3, <2>4 DEF Aimed
  <1>9. ASSUME NEW t \in Threads, LeaveGlobal(t) PROVE RuntimeInv'
    <2> USE <1>9 DEF LeaveGlobal
    <2>1. RuntimeTypeOK'
      <3>1. FlagsOK'
        BY TypeParts DEF FlagsOK
      <3>2. DataOK'
        BY TypeParts DEF DataOK, Aimed, Entered, Blocks
      <3> QED BY <3>1, <3>2 DEF RuntimeTypeOK, FlagsOK, DataOK
    <2>2. Aimed' /\ NotStarted' /\ CreateSafe'
      BY DEF RuntimeTypeOK, Aimed, NotStarted, CreateSafe
    <2>3. Blocks' /\ Entered'
      BY DEF RuntimeTypeOK, Blocks, Entered
    <2>4. Orderly'
      BY DEF RuntimeTypeOK, Orderly, Guarded, Unready, FreeUntilReady, OwnersInside, InsideOwns
    <2> QED BY <2>1, <2>2, <2>3, <2>4
  <1>10. ASSUME NEW t \in Threads, LockMutex(t) PROVE RuntimeInv'
    <2> USE <1>10 DEF LockMutex
    <2>1. RuntimeTypeOK'
      <3>1. FlagsOK'
        BY TypeParts DEF FlagsOK
      <3>2. DataOK'
        BY TypeParts DEF DataOK, Aimed, Entered, Blocks
      <3> QED BY <3>1, <3>2 DEF RuntimeTypeOK, FlagsOK, DataOK
    <2>2. Aimed' /\ NotStarted' /\ CreateSafe'
      BY DEF RuntimeTypeOK, Aimed, NotStarted, CreateSafe
    <2>3. Blocks' /\ Entered'
      BY DEF RuntimeTypeOK, Blocks, Entered
    <2>4. Orderly'
      BY DEF RuntimeTypeOK, Orderly, Guarded, Unready, FreeUntilReady, OwnersInside, InsideOwns
    <2> QED BY <2>1, <2>2, <2>3, <2>4
  <1>11. ASSUME NEW t \in Threads, LockRawMemory(t) PROVE RuntimeInv'
    <2> USE <1>11
    <2>0. target[t] \in Locks /\ path # "create"
      BY DEF Aimed, LockRawMemory, CreateSafe
    <2>1. FlagsOK'
      BY TypeParts DEF FlagsOK, LockRawMemory
    <2>2. DataOK' /\ Entered'
      <3>1. CASE phase' = [phase EXCEPT ![t] = "hung"] /\ UNCHANGED mutexVars
        BY <3>1, TypeParts DEF DataOK, LockRawMemory, Entered
      <3>2. CASE /\ owner' = [owner EXCEPT ![target[t]] = t]
                 /\ depth' = [depth EXCEPT ![target[t]] = @ + 1]
                 /\ phase' = [phase EXCEPT ![t] = "held"]
        <4>1. depth' \in [Locks -> Nat] /\ owner' \in [Locks -> Threads \cup {NoThread}]
          BY <2>0, <3>2, TypeParts DEF DataOK
        <4>2. phase' \in [Threads -> RuntimePhases]
          BY <3>2, TypeParts DEF DataOK
        <4>3. DataOK'
          BY <4>1, <4>2, TypeParts DEF DataOK, LockRawMemory
        <4>4. Entered'
          BY <2>0, <3>2, TypeParts DEF DataOK, Entered
        <4> QED BY <4>3, <4>4
      <3> QED BY <3>1, <3>2 DEF LockRawMemory
    <2>3. RuntimeTypeOK'
      BY <2>1, <2>2 DEF RuntimeTypeOK, FlagsOK, DataOK
    <2>4. /\ phase' \in [Threads -> RuntimePhases]
          /\ phase'[t] \in {"held", "hung"} /\ phase[t] = "lock"
          /\ \A u \in Threads \ {t} : phase'[u] = phase[u]
      BY ZenonT(60) DEF RuntimeTypeOK, LockRawMemory
    <2>5. Aimed' /\ NotStarted' /\ CreateSafe'
      BY <2>0, <2>4 DEF LockRawMemory, Aimed, NotStarted, CreateSafe
    <2>6. Blocks'
      BY <2>4 DEF LockRawMemory, Blocks
    <2>7. Orderly'
      BY DEF Orderly, LockRawMemory
    <2> QED BY <2>2, <2>3, <2>5, <2>6, <2>7 DEF LockRawMemory
  <1>12. ASSUME NEW t \in Threads, EnterAgain(t) PROVE RuntimeInv'
    <2> USE <1>12 DEF EnterAgain
    <2>1. RuntimeTypeOK'
      <3>1. FlagsOK'
        BY TypeParts DEF FlagsOK
      <3>2. DataOK'
        BY TypeParts DEF DataOK, Aimed, Entered, Blocks
      <3> QED BY <3>1, <3>2 DEF RuntimeTypeOK, FlagsOK, DataOK
    <2>2. Aimed' /\ NotStarted' /\ CreateSafe'
      BY DEF RuntimeTypeOK, Aimed, NotStarted, CreateSafe
    <2>3. Blocks' /\ Entered'
      BY DEF RuntimeTypeOK, Blocks, Entered
    <2>4. Orderly'
      BY DEF RuntimeTypeOK, Orderly, Guarded, Unready, FreeUntilReady, OwnersInside, InsideOwns
    <2> QED BY <2>1, <2>2, <2>3, <2>4
  <1>13. ASSUME NEW t \in Threads, Exit(t) PROVE RuntimeInv'
    <2> USE <1>13 DEF Exit
    <2>0. target[t] \in Locks /\ depth[target[t]] >= 1
      BY RuntimeAssumption, ThreadsAssumption DEF Aimed, Entered
    <2>1. RuntimeTypeOK'
      <3>1. FlagsOK'
        BY TypeParts DEF FlagsOK
      <3>2. owner' \in [Locks -> Threads \cup {NoThread}] /\ phase' \in [Threads -> RuntimePhases]
        <4>1. CASE depth[target[t]] = 1
          BY <2>0, <4>1, TypeParts DEF DataOK
        <4>2. CASE depth[target[t]] # 1
          BY <4>2, TypeParts DEF DataOK
        <4> QED BY <4>1, <4>2
      <3>3. target' \in [Threads -> Locks \cup {NoLock}]
        BY TypeParts DEF DataOK
      <3>4. depth' \in [Locks -> Nat]
        BY <2>0, TypeParts DEF DataOK
      <3>5. DataOK'
        BY <3>2, <3>3, <3>4, TypeParts DEF DataOK
      <3> QED BY <3>1, <3>5 DEF RuntimeTypeOK, FlagsOK, DataOK
    <2>2. Aimed' /\ NotStarted' /\ CreateSafe'
      BY DEF RuntimeTypeOK, Aimed, NotStarted, CreateSafe
    <2>3. Blocks' /\ Entered'
      BY DEF RuntimeTypeOK, Blocks, Entered
    <2>4. Orderly'
      <3>1. CASE depth[target[t]] = 1
        <4> DEFINE l == target[t]
        <4> SUFFICES ASSUME ~race PROVE Orderly'
          BY DEF Orderly
        <4>1. /\ owner' = [owner EXCEPT ![l] = NoThread]
              /\ phase' = [phase EXCEPT ![t] = "idle"]
              /\ target' = [target EXCEPT ![t] = NoLock]
          BY <3>1
        <4>2. /\ owner \in [Locks -> Threads \cup {NoThread}]
              /\ phase \in [Threads -> RuntimePhases]
              /\ target \in [Threads -> Locks \cup {NoLock}]
          BY DEF RuntimeTypeOK
        <4>3. Guarded' /\ Unready' /\ FreeUntilReady'
          BY <2>0, <4>1, <4>2 DEF Orderly, Guarded, Unready, FreeUntilReady
        <4>4. OwnersInside'
          <5> SUFFICES ASSUME NEW m \in Locks, owner'[m] # NoThread
                       PROVE  phase'[owner'[m]] = "held" /\ target'[owner'[m]] = m
            BY DEF OwnersInside
          <5>1. m # l /\ owner'[m] = owner[m]
            BY <2>0, <4>1, <4>2
          <5>2. /\ owner[m] \in Threads
                /\ phase[owner[m]] = "held" /\ target[owner[m]] = m
            BY <4>2, <5>1 DEF Orderly, OwnersInside
          <5>3. owner[m] # t
            BY <5>1, <5>2
          <5> QED BY <4>1, <4>2, <5>1, <5>2, <5>3
        <4>5. InsideOwns'
          <5> SUFFICES ASSUME NEW u \in Threads, phase'[u] = "held"
                       PROVE  owner'[target'[u]] = u
            BY DEF InsideOwns
          <5>1. u # t /\ phase[u] = "held" /\ target'[u] = target[u]
            BY <4>1, <4>2
          <5>2. owner[target[u]] = u /\ target[u] \in Locks
            BY <5>1 DEF Orderly, InsideOwns, Aimed
          <5>3. target[u] # l
            BY <5>1, <5>2
          <5> QED BY <4>1, <4>2, <5>1, <5>2, <5>3
        <4> QED BY <4>3, <4>4, <4>5 DEF Orderly
      <3>2. CASE depth[target[t]] # 1
        BY <2>0, <3>2 DEF RuntimeTypeOK, Orderly, Guarded, Unready, FreeUntilReady,
                          OwnersInside, InsideOwns
      <3> QED BY <3>1, <3>2
    <2> QED BY <2>1, <2>2, <2>3, <2>4
  <1>14. ASSUME NEW l \in Locks, Supply(l) \/ Destroy(l) PROVE RuntimeInv'
    <2> USE <1>14 DEF Supply, Destroy
    <2>1. RuntimeTypeOK'
      <3>1. FlagsOK'
        BY TypeParts DEF FlagsOK
      <3>2. DataOK'
        BY TypeParts DEF DataOK, Aimed, Entered, Blocks
      <3> QED BY <3>1, <3>2 DEF RuntimeTypeOK, FlagsOK, DataOK
    <2>2. Aimed' /\ NotStarted' /\ CreateSafe'
      BY DEF RuntimeTypeOK, Aimed, NotStarted, CreateSafe
    <2>3. Blocks' /\ Entered'
      BY DEF RuntimeTypeOK, Blocks, Entered
    <2>4. Orderly'
      BY DEF RuntimeTypeOK, Orderly, Guarded, Unready, FreeUntilReady, OwnersInside, InsideOwns
    <2> QED BY <2>1, <2>2, <2>3, <2>4
  <1>15. ASSUME Terminate PROVE RuntimeInv'
    <2> USE <1>15 DEF Terminate
    <2>1. RuntimeTypeOK'
      <3>1. FlagsOK'
        BY TypeParts DEF FlagsOK
      <3>2. DataOK'
        BY TypeParts DEF DataOK, Aimed, Entered, Blocks
      <3> QED BY <3>1, <3>2 DEF RuntimeTypeOK, FlagsOK, DataOK
    <2>2. Aimed' /\ NotStarted' /\ CreateSafe'
      BY DEF RuntimeTypeOK, Aimed, NotStarted, CreateSafe
    <2>3. Blocks' /\ Entered'
      BY DEF RuntimeTypeOK, Blocks, Entered
    <2>4. Orderly'
      BY DEF RuntimeTypeOK, Orderly, Guarded, Unready, FreeUntilReady, OwnersInside, InsideOwns
    <2> QED BY <2>1, <2>2, <2>3, <2>4
  <1> QED BY <1>1, <1>2, <1>3, <1>4, <1>5, <1>6, <1>7, <1>8, <1>9, <1>10,
             <1>11, <1>12, <1>13, <1>14, <1>15 DEF RuntimeNext

LEMMA StutterInv == RuntimeInv /\ UNCHANGED runtimeVars => RuntimeInv'
  <1> SUFFICES ASSUME RuntimeInv, UNCHANGED runtimeVars PROVE RuntimeInv'
    OBVIOUS
  <1> USE DEF RuntimeInv, runtimeVars
  <1>1. RuntimeTypeOK'
    BY DEF RuntimeTypeOK
  <1>2. (ready \subseteq published)' /\ Aimed' /\ NotStarted' /\ CreateSafe'
    BY DEF Aimed, NotStarted, CreateSafe, Critical
  <1>3. Blocks' /\ Entered'
    BY DEF Blocks, Entered
  <1>4. Orderly'
    BY DEF Orderly, Guarded, Unready, FreeUntilReady, OwnersInside, InsideOwns
  <1> QED BY <1>1, <1>2, <1>3, <1>4

LEMMA RuntimeInvariance == RuntimeSpec => []RuntimeInv
  <1>1. RuntimeInv /\ [RuntimeNext]_runtimeVars => RuntimeInv'
    BY StepInv, StutterInv
  <1> QED BY RuntimeInitInv, <1>1, PTL DEF RuntimeSpec

(* In every build of monitor.c and critical.c the locks, their owners and   *)
(* the blocks of _monitorenter have their types: a monitor freed by the     *)
(* thread that lost the race is never freed twice.                          *)
THEOREM RuntimeTypes == RuntimeSpec => []RuntimeTypeOK
  <1>1. RuntimeInv => RuntimeTypeOK
    BY DEF RuntimeInv
  <1> QED BY RuntimeInvariance, <1>1, PTL

(* `synchronized` admits one thread, with no condition on the way through   *)
(* _d_monitor_create, and on the other three ways until a thread comes      *)
(* between the publication of a lock and its initialisation.                *)
THEOREM OneInside == RuntimeSpec => []Exclusion
  <1>1. RuntimeInv => Exclusion
    <2> SUFFICES ASSUME RuntimeInv PROVE Exclusion
      OBVIOUS
    <2>1. race => path # "create"
      BY DEF RuntimeInv, CreateSafe
    <2>2. ASSUME ~race, NEW l \in Locks, NEW s \in HoldersOf(l), NEW t \in HoldersOf(l)
          PROVE  s = t /\ owner[l] = t
      BY <2>2 DEF RuntimeInv, Orderly, InsideOwns, HoldersOf
    <2> QED BY <2>1, <2>2 DEF Exclusion
  <1> QED BY RuntimeInvariance, <1>1, PTL

\* The sections and the list, with what holds until the list has been begun.
Listed ==
  /\ NothingLost
  /\ Critical /\ ~race =>
       \A t \in Threads : phase[t] = "published" => Contains(list, target[t])
  /\ Critical /\ ~started /\ ~ended => published = {}

LEMMA StepListed ==
  ASSUME RuntimeInv, Listed, RuntimeNext, RuntimeInv'
  PROVE  Listed'
  <1> DEFINE Pending(l) == \E t \in Threads : phase[t] = "published" /\ target[t] = l
             Blank == \A t \in Threads :
                        phase[t] \in {"idle", "lock", "held"} => blocks[t] = 0
             OnList == Critical /\ ~race =>
                         /\ \A l \in Locks : l \in ready => Contains(list, l)
                         /\ \A l \in Range(list) : l \in ready \/ Pending(l)
                         /\ ended => ready = {}
             Added == Critical /\ ~race => \A t \in Threads :
                        phase[t] = "published" => Contains(list, target[t])
  <1>1. NothingLost <=> Blank /\ OnList
    BY DEF NothingLost
  <1>2. Blank'
    BY DEF RuntimeInv, Blocks
  <1>3. (Critical /\ ~started /\ ~ended => published = {})'
    BY ZenonT(60) DEF Listed, RuntimeInv, NotStarted, RuntimeNext, Critical, Goto,
           listVars, mutexVars, FindNothingStarted, MakeGlobal, Look, TakeGlobal, FindPublished,
           Create, Publish, Initialise, LeaveGlobal, LockMutex, LockRawMemory,
           EnterAgain, Exit, Supply, Destroy, Terminate
  <1>4. OnList' /\ Added'
    <2> SUFFICES ASSUME Critical', ~race' PROVE OnList' /\ Added'
      OBVIOUS
    <2>0. Critical /\ ~race /\ OnList /\ Added /\ phase \in [Threads -> RuntimePhases]
          /\ target \in [Threads -> Locks \cup {NoLock}] /\ list \in Seq(Locks)
      BY ZenonT(60), <1>1 DEF Listed, RuntimeInv, RuntimeTypeOK, RuntimeNext, Critical, Goto,
           listVars, mutexVars, FindNothingStarted, MakeGlobal, Look, TakeGlobal, FindPublished,
           Create, Publish, Initialise, LeaveGlobal, LockMutex, LockRawMemory,
           EnterAgain, Exit, Supply, Destroy, Terminate
    <2>1. ASSUME UNCHANGED <<list, ready, ended>>,
                 \A u \in Threads : phase[u] = "published" =>
                   phase'[u] = "published" /\ target'[u] = target[u],
                 \A u \in Threads : phase'[u] = "published" => phase[u] = "published"
          PROVE  OnList' /\ Added'
      BY <2>0, <2>1 DEF Contains, Range
    <2>2. ASSUME NEW t \in Threads, NEW l \in Locks,
                 FindNothingStarted(t, l) \/ Look(t, l)
          PROVE  OnList' /\ Added'
      BY <2>0, <2>1, <2>2 DEF FindNothingStarted, Look, Goto, listVars
    <2>3. ASSUME NEW t \in Threads,
                 \/ TakeGlobal(t) \/ FindPublished(t) \/ LeaveGlobal(t)
                 \/ LockMutex(t) \/ EnterAgain(t)
          PROVE  OnList' /\ Added'
      BY <2>0, <2>1, <2>3 DEF TakeGlobal, FindPublished, LeaveGlobal, LockMutex,
                              EnterAgain, Goto, listVars
    <2>4. ASSUME NEW t \in Threads, Exit(t) PROVE OnList' /\ Added'
      <3>1. \A u \in Threads : phase[u] = "published" =>
                   phase'[u] = "published" /\ target'[u] = target[u]
        BY <2>0, <2>4 DEF Exit, Goto
      <3>2. \A u \in Threads : phase'[u] = "published" => phase[u] = "published"
        BY <2>0, <2>4 DEF Exit, Goto
      <3> QED BY <2>1, <2>4, <3>1, <3>2 DEF Exit, listVars
    <2>5. ASSUME NEW t \in Threads, MakeGlobal(t) PROVE OnList' /\ Added'
      <3>1. ~started /\ ~ended
        BY <2>5 DEF MakeGlobal, RuntimeInv, NotStarted
      <3>2. ready' = {} /\ list' = <<>>
        BY <2>0, <2>5, <3>1 DEF MakeGlobal, Listed, RuntimeInv
      <3>3. \A u \in Threads : phase'[u] # "published"
        BY <2>0, <2>5, <3>1 DEF MakeGlobal, Goto, RuntimeInv, NotStarted
      <3> QED BY <3>2, <3>3 DEF Contains, Range
    <2>6. ASSUME NEW t \in Threads, Publish(t) PROVE OnList' /\ Added'
      <3> DEFINE l == target[t]
      <3>1. /\ list' = <<l>> \o list /\ l \in Locks /\ UNCHANGED <<ready, ended, target>>
            /\ phase' = [phase EXCEPT ![t] = "published"]
        BY <2>0, <2>6 DEF Publish, Goto, RuntimeInv, Aimed
      <3>2. /\ Len(list') = Len(list) + 1 /\ list'[1] = l
            /\ DOMAIN list' = 1 .. (Len(list) + 1)
            /\ \A i \in 1 .. Len(list) : list'[i + 1] = list[i]
        BY <2>0, <3>1
      <3>3. ASSUME NEW m \in Locks, m \in ready' PROVE Contains(list, m)' 
        <4>1. PICK i \in 1 .. Len(list) : list[i] = m
          BY <2>0, <3>1, <3>3 DEF Contains
        <4> QED BY <2>0, <3>2, <4>1 DEF Contains
      <3>4. ASSUME NEW i \in DOMAIN list' PROVE (list[i] \in ready \/ Pending(list[i]))'
        <4>1. CASE i = 1
          <5>1. phase'[t] = "published" /\ target'[t] = list'[1]
            BY <2>0, <3>1, <3>2
          <5> QED BY <4>1, <5>1
        <4>2. CASE i # 1
          <5>1. i - 1 \in 1 .. Len(list) /\ list'[i] = list[i - 1]
            BY <2>0, <3>2, <4>2
          <5>2. list[i - 1] \in ready \/ Pending(list[i - 1])
            BY <2>0, <5>1 DEF Range
          <5>3. CASE Pending(list[i - 1])
            <6>1. PICK u \in Threads : phase[u] = "published" /\ target[u] = list[i - 1]
              BY <5>3
            <6>2. phase'[u] = "published" /\ target'[u] = list'[i]
              BY <2>0, <3>1, <5>1, <6>1
            <6> QED BY <6>2
          <5> QED BY <3>1, <5>1, <5>2, <5>3
        <4> QED BY <4>1, <4>2
      <3>5. Added'
        <4>1. ASSUME NEW u \in Threads, phase'[u] = "published"
              PROVE  Contains(list, target[u])'
          <5>1. CASE u = t
            BY <3>1, <3>2, <5>1, 1 \in 1 .. Len(list') DEF Contains
          <5>2. CASE u # t
            <6>1. Contains(list, target[u])
              BY <2>0, <3>1, <4>1, <5>2
            <6>2. PICK i \in 1 .. Len(list) : list[i] = target[u]
              BY <6>1 DEF Contains
            <6>3. i + 1 \in 1 .. Len(list') /\ list'[i + 1] = target'[u]
              BY <2>0, <3>1, <3>2, <6>2
            <6> QED BY <6>3 DEF Contains
          <5> QED BY <5>1, <5>2
        <4> QED BY <4>1
      <3> QED BY <2>0, <3>1, <3>3, <3>4, <3>5 DEF Range
    <2>7. ASSUME NEW t \in Threads, Initialise(t) PROVE OnList' /\ Added'
      <3>1. /\ ready' = ready \cup {target[t]} /\ UNCHANGED <<list, target, ended>>
            /\ phase' = [phase EXCEPT ![t] = "leaving"] /\ phase[t] = "published"
        BY <2>7 DEF Initialise, Goto, listVars
      <3>2. target[t] \in published /\ ~ended
        BY <2>7, <3>1 DEF RuntimeInv, Aimed, NotStarted
      <3>3. Contains(list, target[t])
        BY <2>0, <3>1
      <3> QED BY <2>0, <3>1, <3>2, <3>3 DEF Contains, Range
    <2>8. ASSUME Terminate PROVE OnList' /\ Added'
      <3>1. /\ ready' = ready \ {list[i] : i \in DOMAIN list} /\ list' = <<>>
        BY <2>8 DEF Terminate
      <3>2. ready' = {}
        <4>1. ASSUME NEW l \in ready PROVE l \in {list[i] : i \in DOMAIN list}
          <5>1. l \in Locks
            BY <4>1 DEF RuntimeInv, RuntimeTypeOK
          <5>2. PICK i \in 1 .. Len(list) : list[i] = l
            BY <2>0, <4>1, <5>1 DEF Contains
          <5> QED BY <2>0, <5>2
        <4> QED BY <3>1, <4>1
      <3>3. \A u \in Threads : phase'[u] # "published"
        BY <2>8 DEF Terminate
      <3> QED BY <3>1, <3>2, <3>3 DEF Contains, Range
    <2>9. ~ \E t \in Threads : Create(t) \/ LockRawMemory(t)
      BY <2>0 DEF Create, LockRawMemory, Critical
    <2>10. ~ \E l \in Locks : Supply(l) \/ Destroy(l)
      BY <2>0 DEF Supply, Destroy, Critical
    <2> QED BY <2>2, <2>3, <2>4, <2>5, <2>6, <2>7, <2>8, <2>9, <2>10 DEF RuntimeNext
  <1>5. NothingLost'
    BY <1>2, <1>4 DEF NothingLost
  <1> QED BY <1>3, <1>4, <1>5 DEF Listed

(* Nothing is lost between the threads that race to make a lock, and the    *)
(* static destructor destroys every section that was initialised, for any   *)
(* number of threads and sections.                                          *)
THEOREM NoneLeaked == RuntimeSpec => []NothingLost
  <1>1. RuntimeInit => Listed
    BY DEF RuntimeInit, Listed, NothingLost, Critical, Range, Contains
  <1>2. RuntimeInv /\ Listed /\ RuntimeInv' /\ [RuntimeNext]_runtimeVars => Listed'
    <2>1. RuntimeInv /\ Listed /\ UNCHANGED runtimeVars => Listed'
      BY DEF Listed, NothingLost, runtimeVars, Critical, Range, Contains
    <2> QED BY StepListed, <2>1
  <1>3. Listed => NothingLost
    BY DEF Listed
  <1> QED BY RuntimeInvariance, <1>1, <1>2, <1>3, PTL DEF RuntimeSpec
==============================================================================
