-------------------------------- MODULE Mutex --------------------------------
(***************************************************************************)
(* mutex.d and reentrantlock.d: Мютекс, and ВозобновляемыйЗамок, which its *)
(* owner may acquire again and must release as often.  Every method is     *)
(* synchronized, so a method, or the part of it between two waits, is one  *)
(* action; the waits are those of WaitNotify.  A thread releases only what *)
(* it has acquired: the re-entrant class asserts it, Мютекс does not.      *)
(***************************************************************************)
EXTENDS Locking, WaitNotify

CONSTANTS Systems,   (* the platforms the program may have been built for  *)
          Classes,   (* subset of {"mutex", "reentrant"}                   *)
          MaxHolds   (* bound: holds of one thread                         *)

ASSUME SystemsAssumption == Systems \subseteq Platforms

ASSUME ClassesAssumption ==
  /\ Classes \subseteq {"mutex", "reentrant"}
  /\ MaxHolds \in Nat

VARIABLES vladelec_,  (* владелец_, or пусто; for inuse_ the thread that   *)
                      (* has set it                                        *)
          soderzhit_, (* содержит_: its holds; 1 for inuse_                *)
          monitor,    (* the wait set of the object's monitor              *)
          cls         (* the class of the object; never changes            *)

vars == <<vladelec_, soderzhit_, monitor, phase, cls>>

inuse_ == vladelec_ # NoThread

Phases == {"idle", "acquire", "attempt", "held"}

TypeOK ==
  /\ vladelec_ \in Threads \cup {NoThread}
  /\ soderzhit_ \in Nat
  /\ cls \in Classes
  /\ WaitSetOK(monitor, Threads)
  /\ phase \in [Threads -> Phases]

lock == <<vladelec_, soderzhit_, cls>>

\* t runs the body of a call: it enters it, or it has come back from жди.
Running(t, call) ==
  \/ phase[t] = "idle"
  \/ phase[t] = call /\ monitor.at[t] = "awake"

\* The condition of the waiting loops holds: the lock is taken.
Take(t) ==
  /\ ~inuse_
  /\ vladelec_' = t /\ soderzhit_' = 1
  /\ monitor' = Resume(monitor, t)
  /\ Goto(t, "held")
  /\ UNCHANGED cls

Wait(t, call) ==
  /\ inuse_
  /\ monitor' = Zhdi(monitor, t)
  /\ Goto(t, call)
  /\ UNCHANGED lock

\* обрети with `if` for `while`: a woken thread does not look again.
Acquire_If(t) ==
  \/ phase[t] = "idle" /\ (Take(t) \/ Wait(t, "acquire"))
  \/ /\ phase[t] = "acquire" /\ monitor.at[t] = "awake"
     /\ vladelec_' = t /\ soderzhit_' = 1
     /\ monitor' = Resume(monitor, t)
     /\ Goto(t, "held")
     /\ UNCHANGED cls

\* обрети
Acquire(t) == Running(t, "acquire") /\ (Take(t) \/ Wait(t, "acquire"))

\* A timed wait that reports its timeout without looking at the lock again.
GiveUp_Unchecked(t) ==
  /\ monitor' = Resume(monitor, t)
  /\ Goto(t, "idle")
  /\ UNCHANGED lock

\* пытайся returns false: no time was given, or none is left.
GiveUp(t) ==
  /\ inuse_
  /\ monitor' = Resume(monitor, t)
  /\ Goto(t, "idle")
  /\ UNCHANGED lock

\* пытайся
Attempt(t) ==
  Running(t, "attempt") /\ (Take(t) \/ Wait(t, "attempt") \/ GiveUp(t))

\* The owner of a re-entrant lock calls обрети or пытайся again.
AcquireAgain(t) ==
  /\ cls = "reentrant" /\ vladelec_ = t
  /\ soderzhit_ < MaxHolds
  /\ soderzhit_' = soderzhit_ + 1
  /\ UNCHANGED <<vladelec_, monitor, phase, cls>>

\* A catch clause that also frees the lock.
WaitFailed_Frees(t) ==
  /\ monitor.at[t] = "failed"
  /\ vladelec_' = NoThread /\ soderzhit_' = 0
  /\ monitor' \in Uvedomi(Resume(monitor, t))
  /\ Goto(t, "idle")
  /\ UNCHANGED cls

\* The catch clause of both: another waiter is notified, and the call fails.
WaitFailed(t) ==
  /\ monitor.at[t] = "failed"
  /\ monitor' \in Uvedomi(Resume(monitor, t))
  /\ Goto(t, "idle")
  /\ UNCHANGED lock

\* The lock is free again, and nobody is told.
Free_Silent(t) ==
  /\ vladelec_' = NoThread
  /\ Goto(t, "idle")
  /\ UNCHANGED monitor

\* The last hold is given back.
Free(t) ==
  /\ vladelec_' = NoThread
  /\ monitor' \in Uvedomi(monitor)
  /\ Goto(t, "idle")

\* отпусти, and отпусти(n) of a re-entrant lock with no more than it holds.
Release(t, n) ==
  /\ phase[t] = "held" /\ n \in 1..soderzhit_
  /\ soderzhit_' = soderzhit_ - n
  /\ \/ n = soderzhit_ /\ Free(t)
     \/ n # soderzhit_ /\ UNCHANGED <<vladelec_, monitor, phase>>
  /\ UNCHANGED cls

\* What happens to t inside жди.
KernelStep(t) ==
  /\ monitor' \in KernelSteps(monitor, t, phase[t] = "attempt")
  /\ UNCHANGED phase /\ UNCHANGED lock

Init ==
  /\ vladelec_ = NoThread /\ soderzhit_ = 0
  /\ cls \in Classes
  /\ monitor \in {NewWaitSet(os, Threads) : os \in Systems}
  /\ phase = [t \in Threads |-> "idle"]

Next ==
  \E t \in Threads :
    \/ Acquire(t) \/ AcquireAgain(t) \/ Attempt(t) \/ WaitFailed(t)
    \/ \E n \in 1..soderzhit_ : Release(t, n)
    \/ KernelStep(t)

\* A thread that waits is scheduled, and a holder releases.  Nobody is obliged
\* to call, and no wait is obliged to time out or to fail.
Resumption(t) ==
  monitor.at[t] # "running" /\ (Acquire(t) \/ Attempt(t) \/ WaitFailed(t))

Fairness ==
  \A t \in Threads :
    /\ WF_vars(Release(t, soderzhit_))
    /\ WF_vars(Resumption(t))
    /\ WF_vars(MayEnterKernelWait(monitor, t) /\ KernelStep(t))

Spec == Init /\ [][Next]_vars

FairSpec == Spec /\ Fairness
------------------------------------------------------------------------------
Holders == {t \in Threads : phase[t] = "held"}

(* The lock is in use exactly when one thread is past обрети or пытайся and *)
(* has not yet released all its holds; then that thread is the owner.  A    *)
(* failed or refused call leaves nothing.                                   *)
MutualExclusion ==
  /\ Holders = {vladelec_} \ {NoThread}
  /\ inuse_ <=> soderzhit_ > 0

(* A free lock with somebody in жди is never forgotten: a thread is on its  *)
(* way back to the monitor, or the event will let the next sleeper through. *)
(* It needs отпусти to notify after every release, every woken thread to    *)
(* look at the lock again, and a timed wait to do so before it gives up.    *)
NoLostWakeup ==
  ~inuse_ /\ Waiting(monitor) # {} => Alert(monitor)

(* While threads wait, the lock keeps being handed on: it is taken again,   *)
(* unless every waiter's call has failed or has run out of time.            *)
HandedOn ==
  (~inuse_ /\ Waiting(monitor) # {}) ~> (inuse_ \/ Waiting(monitor) = {})

Contract ==
  INSTANCE SyncContract WITH permits <- 1, passed <- IF inuse_ THEN 1 ELSE 0

(* Every step of the class is one that the interface allows.                *)
KeepsContract == Contract!Spec
=============================================================================
