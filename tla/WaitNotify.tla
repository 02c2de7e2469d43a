----------------------------- MODULE WaitNotify -----------------------------
(***************************************************************************)
(* waitnotify.d: the condition queue behind every class of DinrusConc that *)
(* mixes in ЖдиУведоми (one waiter is woken) or ЖдиУведомиВсех (all are).  *)
(*                                                                         *)
(* The classes call жди, уведоми and уведомиВсех inside `synchronized`, so *)
(* a component models what it does under one monitor as one action, and    *)
(* keeps here what the monitor does not cover: the time between releasing  *)
(* the monitor and being asleep in the kernel, and the time between being  *)
(* woken and owning the monitor again.                                     *)
(*                                                                         *)
(*   running  not in жди                                                   *)
(*   gap      monitor released, kernel wait not yet begun (Windows: the    *)
(*            two are separate calls, and SignalObjectAndWait is not       *)
(*            atomic either)                                               *)
(*   blocked  asleep: in WaitForSingleObject, or on the pthread condition  *)
(*   awake    the wait returned, by a notification, by its timeout, on a   *)
(*            stale event or, from pthread_cond_wait, for no reason: жди   *)
(*            does not tell its caller which                               *)
(*   failed   the wait returned an error: жди throws ИсклОжидания          *)
(*                                                                         *)
(* A wait set is a record, so that a component may own several (one per    *)
(* monitor, or one per queue node).  Its field os never changes.           *)
(***************************************************************************)

EXTENDS Naturals, FiniteSets, FiniteSetsExt

Platforms == {"windows", "linux"}

Places == {"running", "gap", "blocked", "awake", "failed"}

WaitSets(T) == [os : Platforms, at : [T -> Places], event : BOOLEAN]

\* иниц: the Windows event is created non-signalled.
NewWaitSet(os, T) ==
  [os |-> os, at |-> [t \in T |-> "running"], event |-> FALSE]

\* The threads of a wait set at one of these places.
AtPlace(w, P) == {t \in DOMAIN w.at : w.at[t] \in P}

Waiting(w)  == AtPlace(w, {"gap", "blocked", "awake", "failed"})
Asleep(w)   == AtPlace(w, {"gap", "blocked"})
Resuming(w) == AtPlace(w, {"awake", "failed"})

\* Some waiter is bound to look at the monitor's state again.
Alert(w) ==
  \/ Resuming(w) # {}
  \/ w.event /\ AtPlace(w, {"gap"}) # {}

\* A pthread condition stores no signal and has no gap; a Windows event is not
\* left signalled while somebody sleeps on it.
WaitSetOK(w, T) ==
  /\ w \in WaitSets(T)
  /\ w.os = "linux" => ~w.event /\ AtPlace(w, {"gap"}) = {}
  /\ w.event => AtPlace(w, {"blocked"}) = {}

\* жди, up to the release of the monitor.  pthread_cond_wait releases the
\* monitor and blocks in one step; ждиВин32Релиз does not.
Zhdi(w, t) ==
  [w EXCEPT !.at[t] = IF w.os = "windows" THEN "gap" ELSE "blocked"]

\* The kernel wait begins.  An auto-reset event that is still signalled lets
\* the thread through at once, and is reset.
EnterKernelWait(w, t) ==
  IF w.event THEN [w EXCEPT !.at[t] = "awake", !.event = FALSE]
             ELSE [w EXCEPT !.at[t] = "blocked"]

\* The thread owns the monitor again and leaves жди.
Resume(w, t) == [w EXCEPT !.at[t] = "running"]

ReturnUnnotified(w, t) == [w EXCEPT !.at[t] = "awake"]
WaitError(w, t) == [w EXCEPT !.at[t] = "failed"]

\* уведоми: any one sleeper, chosen by the kernel.  With nobody asleep SetEvent
\* leaves the event signalled (a second SetEvent adds nothing to the first),
\* and pthread_cond_signal has no effect.
Uvedomi(w) ==
  IF AtPlace(w, {"blocked"}) = {}
  THEN {[w EXCEPT !.event = (w.os = "windows")]}
  ELSE {[w EXCEPT !.at[t] = "awake"] : t \in AtPlace(w, {"blocked"})}

\* n calls of уведоми in a row, by one thread.
UvedomiN(w, n) ==
  LET sleepers == AtPlace(w, {"blocked"})
      k == IF n < Cardinality(sleepers) THEN n ELSE Cardinality(sleepers)
  IN  {[w EXCEPT !.at = [t \in DOMAIN w.at |-> IF t \in S THEN "awake" ELSE w.at[t]],
                 !.event = @ \/ (k < n /\ w.os = "windows")] : S \in kSubset(k, sleepers)}

\* уведомиВсех: PulseEvent and pthread_cond_broadcast wake who is asleep now;
\* the manual-reset event is never left signalled.
UvedomiVseh(w) ==
  [w EXCEPT !.at = [t \in DOMAIN w.at |->
                      IF w.at[t] = "blocked" THEN "awake" ELSE w.at[t]]]

\* What may happen to a waiter outside any monitor.  `timed` says that its
\* wait has a time limit; a wait on a pthread condition may also return although
\* nobody has notified.  WAIT_FAILED is the answer of a wait that never began.
MayEnterKernelWait(w, t) == w.at[t] = "gap"
MayReturnUnnotified(w, t, timed) ==
  w.at[t] = "blocked" /\ (timed \/ w.os = "linux")
MayFail(w, t) == w.at[t] = IF w.os = "windows" THEN "gap" ELSE "blocked"

\* What a wait set may become by one such event.
KernelSteps(w, t, timed) ==
  {x \in {EnterKernelWait(w, t)} : MayEnterKernelWait(w, t)}
    \cup {x \in {ReturnUnnotified(w, t)} : MayReturnUnnotified(w, t, timed)}
    \cup {x \in {WaitError(w, t)} : MayFail(w, t)}
=============================================================================
