---------------------------- MODULE CyclicBarrier ----------------------------
(***************************************************************************)
(* cyclicbarrier.d: ЦиклическийБарьер, where a fixed number of threads     *)
(* meet, again and again.  A generation is a value of сбросы_: the threads *)
(* that wait with the same one belong together.  It ends with the arrival  *)
(* of the last party (a trip) or by рестарт, and is broken when one of its *)
(* threads leaves early.                                                   *)
(*                                                                         *)
(* барьер() waits with жди(0).  Windows takes 0 for INFINITE, but linux for*)
(* a time that has come: there the loop polls, and its wait may end at any *)
(* time.                                                                   *)
(***************************************************************************)
EXTENDS Gathering

CONSTANTS Parties,    (* участники_                                        *)
          Commands,   (* what командаБарьер_ may do when it is called      *)
          MaxResets,  (* bound: generations begun                          *)
          MaxRefused  (* bound: calls a broken barrier turns away          *)

ASSUME CyclicBarrierAssumption ==
  /\ Parties \in Nat \ {0}
  /\ Commands \subseteq {"none", "returns", "throws"}
  /\ MaxResets \in Nat /\ MaxRefused \in Nat

VARIABLES
  sbrosy_,    (* сбросы_: how many generations are over                    *)
  sorvan_,    (* сорван_: is the barrier broken?                           *)
  command,    (* командаБарьер_                                            *)
  index,      (* индекс of each thread in its call ...                     *)
  r,          (* ... and the generation it waits for                       *)
  results,    (* history: the ends of each generation's calls, less broken *)
  restarted   (* history: generations that рестарт has ended               *)

vars == <<schyot_, sbrosy_, sorvan_, command, monitor, phase, index, r,
          results, restarted>>

\* Here schyot_ is the number of parties still awaited, and a thread is "idle" or
\* in a "barrier" call or an "attempt".
barrier == <<schyot_, sbrosy_, sorvan_>>

\* t's call, which belongs to generation g, is over, and its locals are gone.
\* It ends with a result (индекс, or the command's), "passed"; at the end of the
\* function without one, "noValue"; by leaving early, after a timeout or a failed
\* wait, "left"; or turned away by somebody else's leaving, "broken".
End(t, g, how) ==
  /\ Goto(t, "idle")
  /\ index' = [index EXCEPT ![t] = 0] /\ r' = [r EXCEPT ![t] = 0]
  /\ results' = [results EXCEPT ![g] = @ \cup ({how} \ {"broken"})]

\* What a party breaks, it breaks for those who wait.
Break(w) == sorvan_' = TRUE /\ monitor' = UvedomiVseh(w)

\* --счёт_ on a broken barrier: the caller is turned away.
EnterBroken(t) ==
  /\ phase[t] = "idle" /\ sorvan_ /\ schyot_ > -MaxRefused
  /\ schyot_' = schyot_ - 1
  /\ End(t, sbrosy_, "broken")
  /\ UNCHANGED <<sbrosy_, sorvan_, command, monitor, restarted>>

\* The last party that forgets to set счёт_ again.
Trip_Once(t) ==
  /\ phase[t] = "idle" /\ ~sorvan_ /\ schyot_ = 1 /\ sbrosy_ < MaxResets
  /\ schyot_' = 0
  /\ sbrosy_' = sbrosy_ + 1
  /\ sorvan_' = (command = "throws")
  /\ monitor' = UvedomiVseh(monitor)
  /\ End(t, sbrosy_, IF command = "none" THEN "noValue" ELSE "passed")
  /\ UNCHANGED <<command, restarted>>

\* The last party that wakes nobody.
Trip_Silent(t) ==
  /\ phase[t] = "idle" /\ ~sorvan_ /\ schyot_ = 1 /\ sbrosy_ < MaxResets
  /\ schyot_' = Parties
  /\ sbrosy_' = sbrosy_ + 1
  /\ sorvan_' = (command = "throws")
  /\ End(t, sbrosy_, IF command = "none" THEN "noValue" ELSE "passed")
  /\ UNCHANGED <<command, monitor, restarted>>

\* The last party.  It runs the command, if there is one.
Trip(t) ==
  /\ phase[t] = "idle" /\ ~sorvan_ /\ schyot_ = 1 /\ sbrosy_ < MaxResets
  /\ schyot_' = Parties
  /\ sbrosy_' = sbrosy_ + 1
  /\ sorvan_' = (command = "throws")
  /\ monitor' = UvedomiVseh(monitor)
  /\ End(t, sbrosy_, IF command = "none" THEN "noValue" ELSE "passed")
  /\ UNCHANGED <<command, restarted>>

\* пробуйБарьер that is given no time.
EnterTimeless(t) ==
  /\ phase[t] = "idle" /\ ~sorvan_ /\ schyot_ # 1
  /\ schyot_' = schyot_ - 1
  /\ Break(monitor)
  /\ End(t, sbrosy_, "left")
  /\ UNCHANGED <<sbrosy_, command, restarted>>

\* A party that has to wait.
EnterWait(t, call) ==
  /\ phase[t] = "idle" /\ ~sorvan_ /\ schyot_ # 1
  /\ schyot_' = schyot_ - 1
  /\ index' = [index EXCEPT ![t] = schyot_ - 1]
  /\ r' = [r EXCEPT ![t] = sbrosy_]
  /\ monitor' = Zhdi(monitor, t)
  /\ Goto(t, call)
  /\ UNCHANGED <<sbrosy_, sorvan_, command, results, restarted>>

\* t looks at the barrier after a wait; an error counts only until the reset.
Looking(t) ==
  \/ monitor.at[t] = "awake"
  \/ monitor.at[t] = "failed" /\ sbrosy_ # r[t]

LeaveBroken(t) ==
  /\ Looking(t) /\ sorvan_
  /\ monitor' = Resume(monitor, t)
  /\ End(t, r[t], "broken")
  /\ UNCHANGED <<barrier, command, restarted>>

LeavePassed(t) ==
  /\ Looking(t) /\ ~sorvan_ /\ sbrosy_ # r[t]
  /\ monitor' = Resume(monitor, t)
  /\ End(t, r[t], "passed")
  /\ UNCHANGED <<barrier, command, restarted>>

\* A timed wait that gives up as soon as it wakes too late.
TimesOut_First(t) ==
  /\ phase[t] = "attempt" /\ Looking(t) /\ ~sorvan_
  /\ Break(Resume(monitor, t))
  /\ End(t, r[t], "left")
  /\ UNCHANGED <<schyot_, sbrosy_, command, restarted>>

\* пробуйБарьер runs out of time.
TimesOut(t) ==
  /\ phase[t] = "attempt" /\ Looking(t) /\ ~sorvan_ /\ sbrosy_ = r[t]
  /\ Break(Resume(monitor, t))
  /\ End(t, r[t], "left")
  /\ UNCHANGED <<schyot_, sbrosy_, command, restarted>>

WaitAgain(t) ==
  /\ Looking(t) /\ ~sorvan_ /\ sbrosy_ = r[t]
  /\ monitor' = Zhdi(monitor, t)
  /\ UNCHANGED <<barrier, command, phase, index, r, results, restarted>>

\* A failed wait before the reset breaks the barrier.
WaitFailed(t) ==
  /\ monitor.at[t] = "failed" /\ sbrosy_ = r[t]
  /\ Break(Resume(monitor, t))
  /\ End(t, r[t], "left")
  /\ UNCHANGED <<schyot_, sbrosy_, command, restarted>>

\* рестарт that keeps the count of those who have arrived.
Restart_Counting(t) ==
  /\ phase[t] = "idle" /\ sbrosy_ < MaxResets
  /\ sorvan_' = FALSE
  /\ sbrosy_' = sbrosy_ + 1
  /\ monitor' = UvedomiVseh(monitor)
  /\ restarted' = restarted \cup {sbrosy_}
  /\ UNCHANGED <<schyot_, command, phase, index, r, results>>

\* рестарт
Restart(t) ==
  /\ phase[t] = "idle" /\ sbrosy_ < MaxResets
  /\ sorvan_' = FALSE
  /\ sbrosy_' = sbrosy_ + 1
  /\ schyot_' = Parties
  /\ monitor' = UvedomiVseh(monitor)
  /\ restarted' = restarted \cup {sbrosy_}
  /\ UNCHANGED <<command, phase, index, r, results>>

\* установиКомандуБарьера
SetCommand(t) ==
  /\ phase[t] = "idle"
  /\ command' \in Commands \ {command}
  /\ UNCHANGED <<barrier, monitor, phase, index, r, results, restarted>>

KernelStep(t) ==
  /\ monitor' \in KernelSteps(monitor, t, phase[t] = "attempt" \/ monitor.os = "linux")
  /\ UNCHANGED <<barrier, command, phase, index, r, results, restarted>>

Init ==
  /\ schyot_ = Parties /\ sbrosy_ = 0 /\ sorvan_ = FALSE
  /\ command \in Commands
  /\ monitor \in {NewWaitSet(os, Threads) : os \in Systems}
  /\ phase = [t \in Threads |-> "idle"]
  /\ index = [t \in Threads |-> 0] /\ r = [t \in Threads |-> 0]
  /\ results = [g \in 0..MaxResets |-> {}]
  /\ restarted = {}

\* делайБарьер, from its call and from each return of жди.
DoBarrier(t) ==
  \/ EnterBroken(t) \/ Trip(t) \/ EnterTimeless(t)
  \/ EnterWait(t, "barrier") \/ EnterWait(t, "attempt")

Look(t) ==
  \/ LeaveBroken(t) \/ LeavePassed(t) \/ TimesOut(t) \/ WaitAgain(t) \/ WaitFailed(t)

Next ==
  \E t \in Threads :
    DoBarrier(t) \/ Look(t) \/ Restart(t) \/ SetCommand(t) \/ KernelStep(t)

\* A thread whose wait has returned, or has not begun, is scheduled.
Fairness ==
  \A t \in Threads :
    /\ WF_vars(Look(t))
    /\ WF_vars(MayEnterKernelWait(monitor, t) /\ KernelStep(t))

Spec == Init /\ [][Next]_vars

FairSpec == Spec /\ Fairness
------------------------------------------------------------------------------
Members(g) == {t \in Threads : phase[t] # "idle" /\ r[t] = g}

(* An unbroken barrier awaits exactly the parties that are missing: all who *)
(* have arrived are still waiting, and none of an earlier generation is     *)
(* counted, although some may not have left yet.                            *)
CountsMembers ==
  ~sorvan_ => schyot_ = Parties - Cardinality(Members(sbrosy_)) /\ schyot_ >= 1

(* The arrival indexes of a generation are distinct, and those of a broken  *)
(* barrier are never taken for one: nobody waits with 0 or less.            *)
IndexesUnique ==
  \A s, t \in Threads :
    phase[s] # "idle" /\ phase[t] # "idle" /\ r[s] = r[t] =>
      /\ index[s] \in 1..(Parties - 1)
      /\ s # t => index[s] # index[t]

(* All or none: when a thread leaves a generation by its timeout or a       *)
(* failed wait, no thread of the generation passes, unless рестарт lets it. *)
AllOrNone ==
  \A g \in (0..MaxResets) \ restarted :
    "left" \in results[g] => results[g] = {"left"}

(* On linux a generation that is over or broken is left by everyone in it.  *)
Over(t) == phase[t] # "idle" /\ (sorvan_ \/ sbrosy_ # r[t])

EveryoneLeaves ==
  \A t \in Threads : (Over(t) /\ monitor.os = "linux") ~> (phase[t] = "idle")
==============================================================================
