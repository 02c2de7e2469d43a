---------------------------- MODULE ReadWriteLock ----------------------------
(***************************************************************************)
(* readwritelock.d and readwritelockutils.d: ЧЗЗамокПредпочтенияПисателя   *)
(* and the subclasses that prefer readers or are re-entrant.               *)
(*                                                                         *)
(* Three monitors take part: the controller's, around each small method    *)
(* that looks at or changes the counts, and one per lock object (for       *)
(* readers, for writers), around a whole acquiring method except its end.  *)
(* A lock object's monitor is held across several controller methods, and  *)
(* other threads run controller methods in between.  Where that can be     *)
(* seen the steps are apart: a timed call that gives up has first failed   *)
(* its test and then leaves the count (`busy` names who holds the monitor);*)
(* and a signal is chosen in the controller and sent later, with no monitor*)
(* held, by a thread that is Signalling.  A failed test and the жди after  *)
(* it are one action: nobody can notify in between, and the controller     *)
(* does not look at wait sets.                                             *)
(***************************************************************************)
EXTENDS Naturals, FiniteSets, WaitNotify

CONSTANTS Threads,    (* the threads that use the lock                     *)
          Systems,    (* platforms                                         *)
          Classes,    (* subset of {"writers", "readers", "reentrant"}     *)
          MaxHolds    (* bound: holds of each kind by one thread           *)

NoThread == "none"
Sides == {"read", "write"}
NoSide == "neither"

ASSUME ReadWriteAssumption ==
  /\ Systems \subseteq Platforms
  /\ Classes \subseteq {"writers", "readers", "reentrant"}
  /\ MaxHolds \in Nat
  /\ NoThread \notin Threads

VARIABLES
  aktivnyeChitateli_,  (* the active readers, counted with their re-entries*)
  aktivnyePisateli_,   (* the active writer                                *)
  zaderzhkiZapisi_,    (* re-entrant: the number of its write holds        *)
  zhdushchie_,         (* ждущиеЧитатели_ and ждущиеПисатели_, by side     *)
  monitors,            (* the wait set of each lock object                 *)
  busy,                (* who holds a lock object's monitor between steps  *)
  phase,               (* the call each thread is in                       *)
  signal,              (* the lock object whose ждутСигнала it calls next  *)
  held,                (* history: the holds of each thread, by side; for  *)
                       (* readers of the re-entrant class, its читатели_   *)
  cls                  (* the class of the lock; never changes             *)

vars == <<aktivnyeChitateli_, aktivnyePisateli_, zaderzhkiZapisi_, zhdushchie_,
          monitors, busy, phase, signal, held, cls>>

Idle == <<NoSide, "idle">>
Signalling == <<NoSide, "signal">>
Calls == {"acquire", "attempt", "quit"}

Goto(t, p) == phase' = [phase EXCEPT ![t] = p]

counts == <<aktivnyeChitateli_, aktivnyePisateli_, zaderzhkiZapisi_, held>>

Reentrant == cls = "reentrant"
Readers == {t \in Threads : held[t]["read"] > 0}

\* позволитьЧитателю, in the three classes.
AllowReader(t) ==
  \/ aktivnyePisateli_ = NoThread /\ (cls = "readers" \/ zhdushchie_["write"] = 0)
  \/ Reentrant /\ aktivnyePisateli_ = t

\* The condition of стартЧтения.
MayRead(t) == AllowReader(t) \/ (Reentrant /\ t \in Readers)

\* The condition of стартЗаписи.  A re-entrant reader may write when it is the
\* only one.
MayWrite(t) ==
  \/ Reentrant /\ aktivnyePisateli_ = t
  \/ Reentrant /\ zaderzhkiZapisi_ = 0 /\ Readers = {t}
  \/ aktivnyePisateli_ = NoThread /\ aktivnyeChitateli_ = 0

MayStart(t, s) == IF s = "read" THEN MayRead(t) ELSE MayWrite(t)

\* What стартЧтения and стартЗаписи do when they may.
Start(t, s) ==
  /\ held' = [held EXCEPT ![t][s] = @ + 1]
  /\ IF s = "read"
     THEN /\ aktivnyeChitateli_' = aktivnyeChitateli_ + 1
          /\ UNCHANGED <<aktivnyePisateli_, zaderzhkiZapisi_>>
     ELSE /\ aktivnyePisateli_' = t
          /\ zaderzhkiZapisi_' = IF Reentrant THEN zaderzhkiZapisi_ + 1 ELSE 0
          /\ UNCHANGED aktivnyeChitateli_

\* A caller of the classes that are not re-entrant holds nothing when it calls.
MayCall(t, s) ==
  /\ phase[t] = Idle
  /\ IF Reentrant THEN held[t][s] < MaxHolds ELSE \A x \in Sides : held[t][x] = 0

\* обрети, and пытайся with time: the newcomer's test, or the first жди.  (A
\* refused пытайся without time changes nothing and is left out.)
Enter(t, s, call) ==
  /\ MayCall(t, s) /\ busy[s] = NoThread
  /\ \/ /\ MayStart(t, s)
        /\ Start(t, s)
        /\ UNCHANGED <<zhdushchie_, monitors, phase>>
     \/ /\ ~MayStart(t, s)
        /\ zhdushchie_' = [zhdushchie_ EXCEPT ![s] = @ + 1]
        /\ monitors' = [monitors EXCEPT ![s] = Zhdi(@, t)]
        /\ Goto(t, <<s, call>>)
        /\ UNCHANGED counts
  /\ UNCHANGED <<busy, signal, cls>>

\* The thread owns its lock object's monitor again after жди.
Back(t, s, call) ==
  phase[t] = <<s, call>> /\ monitors[s].at[t] = "awake" /\ busy[s] = NoThread

\* A woken thread that takes its place without looking.
Retry_If(t, s, call) ==
  /\ Back(t, s, call)
  /\ Start(t, s)
  /\ zhdushchie_' = [zhdushchie_ EXCEPT ![s] = @ - 1]
  /\ monitors' = [monitors EXCEPT ![s] = Resume(@, t)]
  /\ Goto(t, Idle)
  /\ UNCHANGED <<busy, signal, cls>>

\* The test after жди: start, or wait again.
Retry(t, s, call) ==
  /\ Back(t, s, call)
  /\ \/ /\ MayStart(t, s)
        /\ Start(t, s)
        /\ zhdushchie_' = [zhdushchie_ EXCEPT ![s] = @ - 1]
        /\ monitors' = [monitors EXCEPT ![s] = Resume(@, t)]
        /\ Goto(t, Idle)
     \/ /\ ~MayStart(t, s)
        /\ monitors' = [monitors EXCEPT ![s] = Zhdi(@, t)]
        /\ UNCHANGED <<zhdushchie_, phase>> /\ UNCHANGED counts
  /\ UNCHANGED <<busy, signal, cls>>

\* A timed call whose test has failed and whose time is up.
RunsOut(t, s) ==
  /\ Back(t, s, "attempt")
  /\ ~MayStart(t, s)
  /\ monitors' = [monitors EXCEPT ![s] = Resume(@, t)]
  /\ busy' = [busy EXCEPT ![s] = t]
  /\ Goto(t, <<s, "quit">>)
  /\ UNCHANGED <<zhdushchie_, signal, cls>> /\ UNCHANGED counts

\* A writer passes on the notification it may have received; a reader, woken
\* with all the others, has none to pass on.
PassOn(w, s) == IF s = "write" THEN Uvedomi(w) ELSE {w}

OtherSide(s) == IF s = "read" THEN "write" ELSE "read"

\* A call that gives up without telling the other side.
Quit_Silent(t, s) ==
  /\ phase[t] = <<s, "quit">>
  /\ zhdushchie_' = [zhdushchie_ EXCEPT ![s] = @ - 1]
  /\ \E w \in PassOn(monitors[s], s) : monitors' = [monitors EXCEPT ![s] = w]
  /\ busy' = [busy EXCEPT ![s] = NoThread]
  /\ Goto(t, Idle)
  /\ UNCHANGED <<signal, cls>> /\ UNCHANGED counts

\* It is no longer waiting, which may let the other side go on.
Quit(t, s) ==
  /\ phase[t] = <<s, "quit">>
  /\ zhdushchie_' = [zhdushchie_ EXCEPT ![s] = @ - 1]
  /\ \E w \in PassOn(monitors[s], s) : monitors' = [monitors EXCEPT ![s] = w]
  /\ busy' = [busy EXCEPT ![s] = NoThread]
  /\ Goto(t, Signalling)
  /\ signal' = [signal EXCEPT ![t] = OtherSide(s)]
  /\ UNCHANGED cls /\ UNCHANGED counts

\* A catch clause that forgets отменённыйЖдущий...
WaitFailed_Counted(t, s) ==
  /\ monitors[s].at[t] = "failed" /\ busy[s] = NoThread
  /\ \E w \in PassOn(Resume(monitors[s], t), s) : monitors' = [monitors EXCEPT ![s] = w]
  /\ Goto(t, Signalling)
  /\ signal' = [signal EXCEPT ![t] = OtherSide(s)]
  /\ UNCHANGED <<zhdushchie_, busy, cls>> /\ UNCHANGED counts

\* The catch clauses.
WaitFailed(t, s) ==
  /\ monitors[s].at[t] = "failed" /\ busy[s] = NoThread
  /\ zhdushchie_' = [zhdushchie_ EXCEPT ![s] = @ - 1]
  /\ \E w \in PassOn(Resume(monitors[s], t), s) : monitors' = [monitors EXCEPT ![s] = w]
  /\ Goto(t, Signalling)
  /\ signal' = [signal EXCEPT ![t] = OtherSide(s)]
  /\ UNCHANGED <<busy, cls>> /\ UNCHANGED counts

\* The lock object to signal, or none, is in signal[t]; then the call is over.
Choose(t, s) ==
  /\ signal' = [signal EXCEPT ![t] = s]
  /\ Goto(t, IF s = NoSide THEN Idle ELSE Signalling)

\* отпусти of a reader, up to the choice of конецЧтения.
EndRead(t) ==
  /\ phase[t] = Idle /\ held[t]["read"] > 0
  /\ held' = [held EXCEPT ![t]["read"] = @ - 1]
  /\ aktivnyeChitateli_' = aktivnyeChitateli_ - 1
  /\ LET last == aktivnyeChitateli_ = 1 /\ zhdushchie_["write"] > 0
         mine == Reentrant /\ (held[t]["read"] > 1 \/ zaderzhkiZapisi_ > 0)
     IN  Choose(t, IF last /\ ~mine THEN "write" ELSE NoSide)
  /\ UNCHANGED <<aktivnyePisateli_, zaderzhkiZapisi_, zhdushchie_, monitors, busy, cls>>

\* отпусти of a writer, up to the choice of конецЗаписи.
EndWrite(t) ==
  LET last == ~Reentrant \/ zaderzhkiZapisi_ = 1
      readersFirst == /\ zhdushchie_["read"] > 0
                      /\ cls = "readers" \/ zhdushchie_["write"] = 0
  IN  /\ phase[t] = Idle /\ held[t]["write"] > 0
      /\ held' = [held EXCEPT ![t]["write"] = @ - 1]
      /\ aktivnyePisateli_' = IF last THEN NoThread ELSE aktivnyePisateli_
      /\ zaderzhkiZapisi_' = IF Reentrant THEN zaderzhkiZapisi_ - 1 ELSE 0
      /\ Choose(t, IF ~last THEN NoSide
                   ELSE IF readersFirst THEN "read"
                   ELSE IF zhdushchie_["write"] > 0 THEN "write"
                   ELSE NoSide)
      /\ UNCHANGED <<aktivnyeChitateli_, zhdushchie_, monitors, busy, cls>>

\* ждутСигнала, with only that lock object's monitor held.
Signal(t) ==
  /\ phase[t] = Signalling /\ busy[signal[t]] = NoThread
  /\ \E w \in IF signal[t] = "read" THEN {UvedomiVseh(monitors["read"])}
                                    ELSE Uvedomi(monitors["write"]) :
       monitors' = [monitors EXCEPT ![signal[t]] = w]
  /\ Choose(t, NoSide)
  /\ UNCHANGED <<zhdushchie_, busy, cls>> /\ UNCHANGED counts

KernelStep(t, s) ==
  /\ \E w \in KernelSteps(monitors[s], t, phase[t] = <<s, "attempt">>) :
       monitors' = [monitors EXCEPT ![s] = w]
  /\ UNCHANGED <<zhdushchie_, busy, phase, signal, cls>> /\ UNCHANGED counts

Init ==
  /\ aktivnyeChitateli_ = 0 /\ aktivnyePisateli_ = NoThread
  /\ zaderzhkiZapisi_ = 0
  /\ zhdushchie_ = [s \in Sides |-> 0]
  /\ \E os \in Systems : monitors = [s \in Sides |-> NewWaitSet(os, Threads)]
  /\ busy = [s \in Sides |-> NoThread]
  /\ phase = [t \in Threads |-> Idle]
  /\ signal = [t \in Threads |-> NoSide]
  /\ held = [t \in Threads |-> [s \in Sides |-> 0]]
  /\ cls \in Classes

Next ==
  \E t \in Threads :
    \/ \E s \in Sides :
         \/ \E call \in {"acquire", "attempt"} : Enter(t, s, call) \/ Retry(t, s, call)
         \/ RunsOut(t, s) \/ Quit(t, s) \/ WaitFailed(t, s) \/ KernelStep(t, s)
    \/ EndRead(t) \/ EndWrite(t) \/ Signal(t)

Spec == Init /\ [][Next]_vars
------------------------------------------------------------------------------
SumHolds(s) == FoldSet(LAMBDA t, sum : sum + held[t][s], 0, Threads)
Inside(s) == {t \in Threads : phase[t] \in {s} \X Calls}

(* A writer is alone, except for its own read holds, and the controller's   *)
(* counts are what the threads have acquired and not released.              *)
Exclusion ==
  /\ \A t, u \in Threads :
       held[t]["write"] > 0 /\ u # t => \A s \in Sides : held[u][s] = 0
  /\ \A t \in Threads : held[t]["write"] > 0 <=> aktivnyePisateli_ = t
  /\ Reentrant => zaderzhkiZapisi_ = SumHolds("write")
  /\ aktivnyeChitateli_ = SumHolds("read")

(* Each count of waiting threads is the number of threads in its waiting    *)
(* loop.  One too many waiting writers would bar every reader for ever.     *)
WaitersCounted == \A s \in Sides : zhdushchie_[s] = Cardinality(Inside(s))

(* On linux nobody is overlooked: when a sleeping thread could go on, some  *)
(* thread is awake, or about to signal, or about to give up and then signal.*)
(* The signals are sent late, when others may have overtaken, and may reach *)
(* a side where nobody waits any more; the signals of those who give up and *)
(* of the next release must make up for that.  A reader that waits to become*)
(* a writer is excepted.                                                    *)
SomebodyMoves ==
  \/ \E s \in Sides : Resuming(monitors[s]) # {}
  \/ \E t \in Threads : phase[t] \in {Signalling} \cup (Sides \X {"quit"})

NoLostWakeup ==
  \A s \in Sides : \A t \in Asleep(monitors[s]) :
    (monitors[s].os = "linux" /\ MayStart(t, s) /\ held[t]["read"] = 0)
      => SomebodyMoves
==============================================================================
