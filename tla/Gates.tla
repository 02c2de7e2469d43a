-------------------------------- MODULE Gates --------------------------------
(***************************************************************************)
(* latch.d and countdown.d: Щеколда opens at the first отпусти and         *)
(* ОбратныйОтсчёт at the last of a number of them; both then stay open.    *)
(* Their waiters are woken all together, by the уведомиВсех of WaitNotify, *)
(* and neither class has a catch clause: a failed wait ends the call.      *)
(***************************************************************************)
EXTENDS Gathering

CONSTANTS Classes,      (* subset of {"latch", "countdown"}                *)
          Counts,       (* arguments of ОбратныйОтсчёт's constructor       *)
          MaxReleases   (* bound: calls of отпусти                         *)

ASSUME GatesAssumption ==
  /\ Classes \subseteq {"latch", "countdown"}
  /\ Counts \subseteq Int
  /\ MaxReleases \in Nat

VARIABLES
  latched_,     (* защёлкнут_ of a Щеколда                                 *)
  initial_,     (* начальнСчёт_ of an ОбратныйОтсчёт; never changes        *)
  released,     (* history: calls of отпусти                               *)
  cls           (* the class of the object; never changes                  *)

gateVars == <<latched_, initial_, schyot_, monitor, phase, released, cls>>

gate == <<latched_, initial_, schyot_, released, cls>>

\* past: the thread has passed the gate.
Phases == {"idle", "acquire", "attempt", "past"}

TypeOK ==
  /\ latched_ \in BOOLEAN /\ initial_ \in Int /\ schyot_ \in Int
  /\ WaitSetOK(monitor, Threads)
  /\ phase \in [Threads -> Phases]
  /\ released \in 0..MaxReleases /\ cls \in Classes

\* ОбратныйОтсчёт is open at zero only, not beyond.
Open_Zero == IF cls = "latch" THEN latched_ ELSE schyot_ = 0

Open == IF cls = "latch" THEN latched_ ELSE schyot_ <= 0

\* Both test the gate when a call begins and after each wait.
Running(t, call) ==
  \/ phase[t] \in {"idle", "past"}
  \/ phase[t] = call /\ monitor.at[t] = "awake"

\* A wait that is taken for a passage.
Pass_If(t) ==
  /\ Open \/ monitor.at[t] = "awake"
  /\ monitor' = Resume(monitor, t)
  /\ Goto(t, "past")
  /\ UNCHANGED gate

Pass(t) ==
  /\ Open
  /\ monitor' = Resume(monitor, t)
  /\ Goto(t, "past")
  /\ UNCHANGED gate

Wait(t, call) ==
  /\ ~Open
  /\ monitor' = Zhdi(monitor, t)
  /\ Goto(t, call)
  /\ UNCHANGED gate

\* пытайся returns false: no time was given, or none is left.
GiveUp(t) ==
  /\ ~Open
  /\ monitor' = Resume(monitor, t)
  /\ Goto(t, "idle")
  /\ UNCHANGED gate

\* обрети
Acquire(t) == Running(t, "acquire") /\ (Pass(t) \/ Wait(t, "acquire"))

\* пытайся
Attempt(t) ==
  Running(t, "attempt") /\ (Pass(t) \/ Wait(t, "attempt") \/ GiveUp(t))

\* ИсклОжидания leaves the method.
GateWaitFailed(t) ==
  /\ monitor.at[t] = "failed"
  /\ monitor' = Resume(monitor, t)
  /\ Goto(t, "idle")
  /\ UNCHANGED gate

\* отпусти that wakes one waiter.
Release_One(t) ==
  /\ phase[t] \in {"idle", "past"}
  /\ released < MaxReleases
  /\ released' = released + 1
  /\ latched_' = (cls = "latch" \/ latched_)
  /\ schyot_' = IF cls = "latch" THEN schyot_ ELSE schyot_ - 1
  /\ IF cls = "latch" \/ schyot_ = 1 THEN monitor' \in Uvedomi(monitor)
                                     ELSE UNCHANGED monitor
  /\ UNCHANGED <<initial_, phase, cls>>

\* отпусти with `счёт_-- == 0`.
Release_Late(t) ==
  /\ phase[t] \in {"idle", "past"}
  /\ released < MaxReleases
  /\ released' = released + 1
  /\ latched_' = (cls = "latch" \/ latched_)
  /\ schyot_' = IF cls = "latch" THEN schyot_ ELSE schyot_ - 1
  /\ monitor' = IF cls = "latch" \/ schyot_ = 0 THEN UvedomiVseh(monitor) ELSE monitor
  /\ UNCHANGED <<initial_, phase, cls>>

\* отпусти
Release(t) ==
  /\ phase[t] \in {"idle", "past"}
  /\ released < MaxReleases
  /\ released' = released + 1
  /\ latched_' = (cls = "latch" \/ latched_)
  /\ schyot_' = IF cls = "latch" THEN schyot_ ELSE schyot_ - 1
  /\ monitor' = IF cls = "latch" \/ schyot_ = 1 THEN UvedomiVseh(monitor) ELSE monitor
  /\ UNCHANGED <<initial_, phase, cls>>

GateKernelStep(t) ==
  /\ monitor' \in KernelSteps(monitor, t, phase[t] = "attempt")
  /\ UNCHANGED <<gate, phase>>

GateInit ==
  /\ cls \in Classes
  /\ latched_ = FALSE
  /\ initial_ \in Counts /\ schyot_ = initial_
  /\ monitor \in {NewWaitSet(os, Threads) : os \in Systems}
  /\ phase = [t \in Threads |-> "idle"]
  /\ released = 0

GateNext ==
  \E t \in Threads :
    Acquire(t) \/ Attempt(t) \/ GateWaitFailed(t) \/ Release(t) \/ GateKernelStep(t)

\* A thread whose wait has returned, or has not begun, is scheduled.
Resumption(t) ==
  monitor.at[t] # "running" /\ (Acquire(t) \/ Attempt(t) \/ GateWaitFailed(t))

GateFairness ==
  \A t \in Threads :
    /\ WF_gateVars(Resumption(t))
    /\ WF_gateVars(MayEnterKernelWait(monitor, t) /\ GateKernelStep(t))

GateSpec == GateInit /\ [][GateNext]_gateVars

GateFairSpec == GateSpec /\ GateFairness
------------------------------------------------------------------------------
(* Nobody passes before the отпусти that opens the gate, however the waits  *)
(* end.                                                                     *)
NoEarlyPassage ==
  (\E t \in Threads : phase[t] = "past")
    => released >= IF cls = "latch" THEN 1 ELSE initial_

(* Once open, never closed: nobody starts to wait or is refused any more,   *)
(* although отпусти may be called more often than the gate needs.           *)
StaysOpen ==
  [][(\E t \in Threads : phase[t] = "past")
       => Asleep(monitor') \subseteq Asleep(monitor)]_gateVars

(* On linux nobody is asleep behind an open gate: the one уведомиВсех comes *)
(* with the отпусти that opens it, neither before nor after, and reaches    *)
(* every waiter.                                                            *)
NobodyAsleep == Open /\ monitor.os = "linux" => Asleep(monitor) = {}

(* On linux an open gate lets every waiter out.                             *)
AllLeave ==
  (Open /\ monitor.os = "linux") ~> (Waiting(monitor) = {})

(* The same on every platform, as the comment on отпусти of Щеколда has it: *)
(* "enable all current and future acquires to pass".                        *)
AllPass == Open ~> (Waiting(monitor) = {})
==============================================================================
