------------------------------ MODULE Rendezvous ------------------------------
(***************************************************************************)
(* rendezvous.d: Рандеву, where the threads of a party meet, each with an  *)
(* item, and each leaves with one.  The gate ворота_, an ЯсныйСемафор with *)
(* as many permits as the party has members, keeps the next party out until*)
(* the last of this one has left; it is taken here as what SyncContract    *)
(* says of it, a count of permits.  A call passes the gate, and then runs  *)
(* under the monitor of the rendezvous except where it waits.              *)
(***************************************************************************)
EXTENDS Meetings

CONSTANTS Parties,    (* numbers of members                                *)
          Functions,  (* subset of {"none", "rotates", "throws"}           *)
          MaxCalls    (* bound: calls that pass the gate                   *)

Empty == 0

ASSUME RendezvousAssumption ==
  /\ Parties \subseteq Nat \ {0}
  /\ Functions \subseteq {"none", "rotates", "throws"}
  /\ MaxCalls \in Nat

VARIABLES
  uchastniki_,   (* участники_: the members of a party; never changes      *)
  funkciya_,     (* функцРандеву_: none, the default, or one that throws   *)
  vorota_,       (* permits at the gate                                    *)
  sorvan_,       (* broken                                                 *)
  vhozhdeniya_,  (* вхождения_: the threads that have entered              *)
  otpravleny_,   (* отправлены_: those that may yet depart, perhaps < 0    *)
  sloty_,        (* the items, by arrival from 0                           *)
  monitor,       (* the wait set of the rendezvous                         *)
  phase,         (* "entering" has passed the gate, "meet" waits, "attempt"*)
                 (* waits for some time only                               *)
  index,         (* индекс of a thread that waits                          *)
  mine,          (* the item it has brought; calls bring 1, 2, 3, ...      *)
  calls,         (* history: calls that have passed the gate               *)
  met,           (* history: the items of each unbroken meeting            *)
  got,           (* history: <<brought, received>> of each normal return   *)
  intruded       (* history: a thread has entered while a broken meeting   *)
                 (* was still being left                                   *)

rendezvousVars ==
  <<uchastniki_, funkciya_, vorota_, sorvan_, vhozhdeniya_, otpravleny_, sloty_,
    monitor, phase, index, mine, calls, met, got, intruded>>

Indexes == 0..(uchastniki_ - 1)
NoItems == [i \in Indexes |-> Empty]

Inside == {t \in Threads : phase[t] \in {"meet", "attempt"}}

frame == <<uchastniki_, calls>>

\* The first item is overwritten before it is moved to the last slot.
Rotated_Loses(s) ==
  [i \in Indexes |-> s[IF i = uchastniki_ - 1 THEN (IF i > 0 THEN 1 ELSE 0) ELSE i + 1]]

\* The default function: each slot gets the item of the next one.
Rotated(s) == [i \in Indexes |-> s[(i + 1) % uchastniki_]]

\* обрети or пытайся of the gate succeeds.  (A refused пытайся ends the call
\* and changes nothing.)
PassGate(t) ==
  /\ phase[t] = "idle" /\ vorota_ > 0 /\ calls < MaxCalls
  /\ vorota_' = vorota_ - 1
  /\ calls' = calls + 1
  /\ mine' = [mine EXCEPT ![t] = calls + 1]
  /\ phase' = [phase EXCEPT ![t] = "entering"]
  /\ UNCHANGED <<uchastniki_, funkciya_, sorvan_, vhozhdeniya_, otpravleny_,
                 sloty_, monitor, index, met, got, intruded>>

\* The last one opens the gate for a full party, however many have entered.
Depart_Full(t, i, sent, slots, entered, how) ==
  /\ IF sent - 1 <= 0
     THEN /\ sloty_' = NoItems
          /\ vorota_' = vorota_ + uchastniki_
          /\ vhozhdeniya_' = 0
     ELSE sloty_' = slots /\ vhozhdeniya_' = entered /\ UNCHANGED vorota_
  /\ otpravleny_' = sent - 1
  /\ got' = IF how = "passed" THEN got \cup {<<mine[t], slots[i]>>} ELSE got
  /\ phase' = [phase EXCEPT ![t] = "idle"]
  /\ index' = [index EXCEPT ![t] = 0] /\ mine' = [mine EXCEPT ![t] = Empty]

\* The `finally` clause and what follows it, for a thread with this index that
\* finds these values: the last one out cleans up and opens the gate.
Depart(t, i, sent, slots, entered, how) ==
  /\ IF sent - 1 <= 0
     THEN /\ sloty_' = NoItems
          /\ vorota_' = vorota_ + entered
          /\ vhozhdeniya_' = 0
     ELSE sloty_' = slots /\ vhozhdeniya_' = entered /\ UNCHANGED vorota_
  /\ otpravleny_' = sent - 1
  /\ got' = IF how = "passed" THEN got \cup {<<mine[t], slots[i]>>} ELSE got
  /\ phase' = [phase EXCEPT ![t] = "idle"]
  /\ index' = [index EXCEPT ![t] = 0] /\ mine' = [mine EXCEPT ![t] = Empty]

\* A thread that has passed the gate gets the monitor.
Entered == vhozhdeniya_ + 1
Slots(t) == [sloty_ EXCEPT ![vhozhdeniya_] = mine[t]]

Enters(t) ==
  /\ phase[t] = "entering"
  /\ intruded' = (intruded \/ (sorvan_ /\ Inside # {}))
  /\ UNCHANGED frame /\ UNCHANGED funkciya_

\* The last one runs the function and lets the others depart.
Complete(t) ==
  /\ Enters(t) /\ Entered = uchastniki_
  /\ monitor' = UvedomiVseh(monitor)
  /\ LET runs == ~sorvan_ /\ funkciya_ # "none"
         after == IF runs /\ funkciya_ = "rotates" THEN Rotated(Slots(t)) ELSE Slots(t)
     IN  /\ sorvan_' = (sorvan_ \/ (runs /\ funkciya_ = "throws"))
         /\ met' = IF sorvan_' THEN met ELSE met \cup {{after[i] : i \in Indexes}}
         /\ Depart(t, vhozhdeniya_, Entered, after, Entered,
                   IF sorvan_' THEN "broken" ELSE "passed")

\* The loop of the others is over, or is not begun.
Over == sorvan_ \/ otpravleny_ >= 1

Outcome == IF sorvan_ THEN "broken" ELSE "passed"

EnterOver(t) ==
  /\ Enters(t) /\ Entered # uchastniki_ /\ Over
  /\ Depart(t, vhozhdeniya_, otpravleny_, Slots(t), Entered, Outcome)
  /\ UNCHANGED <<sorvan_, monitor, met>>

EnterWait(t, call) ==
  /\ Enters(t) /\ Entered # uchastniki_ /\ ~Over
  /\ vhozhdeniya_' = Entered
  /\ sloty_' = Slots(t)
  /\ index' = [index EXCEPT ![t] = vhozhdeniya_]
  /\ monitor' = Zhdi(monitor, t)
  /\ phase' = [phase EXCEPT ![t] = call]
  /\ UNCHANGED <<vorota_, sorvan_, otpravleny_, mine, met, got>>

\* A thread breaks the rendezvous: all that have entered may depart, it first.
Break(w, t, i, slots, entered) ==
  /\ sorvan_' = TRUE
  /\ monitor' = UvedomiVseh(w)
  /\ Depart(t, i, entered, slots, entered, "failed")
  /\ UNCHANGED met

\* пробуйРандеву has used up its time at the gate.
EnterTimeless(t) ==
  /\ Enters(t) /\ Entered # uchastniki_ /\ ~Over
  /\ Break(monitor, t, vhozhdeniya_, Slots(t), Entered)

\* The thread has the monitor again after жди.
Back(t) == monitor.at[t] \in {"awake", "failed"}

\* A failed wait counts only if the loop would have gone on.
LeaveOver(t) ==
  /\ Back(t) /\ Over
  /\ monitor' = Resume(monitor, t)
  /\ Depart(t, index[t], otpravleny_, sloty_, vhozhdeniya_, Outcome)
  /\ UNCHANGED <<funkciya_, sorvan_, met, intruded>> /\ UNCHANGED frame

\* A timed call that does not look whether the others have met.
TimesOut_First(t) ==
  /\ monitor.at[t] = "awake" /\ phase[t] = "attempt"
  /\ Break(Resume(monitor, t), t, index[t], sloty_, vhozhdeniya_)
  /\ UNCHANGED <<funkciya_, intruded>> /\ UNCHANGED frame

TimesOut(t) ==
  /\ monitor.at[t] = "awake" /\ phase[t] = "attempt" /\ ~Over
  /\ Break(Resume(monitor, t), t, index[t], sloty_, vhozhdeniya_)
  /\ UNCHANGED <<funkciya_, intruded>> /\ UNCHANGED frame

WaitFails(t) ==
  /\ monitor.at[t] = "failed" /\ ~Over
  /\ Break(Resume(monitor, t), t, index[t], sloty_, vhozhdeniya_)
  /\ UNCHANGED <<funkciya_, intruded>> /\ UNCHANGED frame

rendezvous == <<vorota_, vhozhdeniya_, otpravleny_, sloty_>>
threadVars == <<phase, index, mine>>

WaitAgain(t) ==
  /\ monitor.at[t] = "awake" /\ ~Over
  /\ monitor' = Zhdi(monitor, t)
  /\ UNCHANGED <<funkciya_, sorvan_, met, got, intruded>>
  /\ UNCHANGED rendezvous /\ UNCHANGED threadVars /\ UNCHANGED frame

\* One turn of the loop of рестарт: as long as somebody has entered, everybody
\* is woken; then the rendezvous is whole again.
Restart(t) ==
  /\ phase[t] = "idle"
  /\ \/ /\ vhozhdeniya_ # 0
        /\ monitor' = UvedomiVseh(monitor)
        /\ UNCHANGED sorvan_
     \/ /\ vhozhdeniya_ = 0
        /\ sorvan_' = FALSE
        /\ UNCHANGED monitor
  /\ UNCHANGED <<funkciya_, met, got, intruded>>
  /\ UNCHANGED rendezvous /\ UNCHANGED threadVars /\ UNCHANGED frame

\* установиФункцРандеву.
SetFunction(t) ==
  /\ phase[t] = "idle"
  /\ funkciya_' \in Functions
  /\ UNCHANGED <<sorvan_, monitor, met, got, intruded>>
  /\ UNCHANGED rendezvous /\ UNCHANGED threadVars /\ UNCHANGED frame

\* жди(0) of an untimed call is without limit on Windows and over at once on
\* linux.
RendezvousKernelStep(t) ==
  /\ monitor' \in KernelSteps(monitor, t, phase[t] = "attempt" \/ monitor.os = "linux")
  /\ UNCHANGED <<funkciya_, sorvan_, met, got, intruded>>
  /\ UNCHANGED rendezvous /\ UNCHANGED threadVars /\ UNCHANGED frame

RendezvousInit ==
  /\ uchastniki_ \in Parties
  /\ funkciya_ \in Functions
  /\ vorota_ = uchastniki_
  /\ sorvan_ = FALSE /\ vhozhdeniya_ = 0 /\ otpravleny_ = 0
  /\ sloty_ = NoItems
  /\ monitor \in {NewWaitSet(os, Threads) : os \in Systems}
  /\ phase = [t \in Threads |-> "idle"]
  /\ index = [t \in Threads |-> 0] /\ mine = [t \in Threads |-> Empty]
  /\ calls = 0 /\ met = {} /\ got = {} /\ intruded = FALSE

RendezvousNext ==
  \E t \in Threads :
    \/ PassGate(t) \/ Complete(t) \/ EnterOver(t)
    \/ EnterWait(t, "meet") \/ EnterWait(t, "attempt") \/ EnterTimeless(t)
    \/ LeaveOver(t) \/ TimesOut(t) \/ WaitFails(t) \/ WaitAgain(t)
    \/ Restart(t) \/ SetFunction(t) \/ RendezvousKernelStep(t)

RendezvousSpec == RendezvousInit /\ [][RendezvousNext]_rendezvousVars
------------------------------------------------------------------------------
Entering == {t \in Threads : phase[t] = "entering"}

(* The permits at the gate, the threads on their way in and the entries that*)
(* have not been cleaned up are the party, through timeouts, restarts and   *)
(* broken meetings that are cleaned up twice: so an arrival always finds a  *)
(* slot, and whoever has passed the gate is one of the party.               *)
GateBalanced ==
  vorota_ + Cardinality(Entering) + vhozhdeniya_ = uchastniki_

(* Whoever returns normally receives an item of a meeting it was in, and no *)
(* item is received twice, as long as nobody has entered a broken meeting   *)
(* that was still being left.                                               *)
Exchanged ==
  ~intruded =>
    /\ \A p \in got : \E m \in met : p[1] \in m /\ p[2] \in m
    /\ \A p, q \in got : p[2] = q[2] => p = q

(* The last one out cleans up: when nobody is inside, no entry and no item  *)
(* of an earlier meeting is left, and the next party finds the gate open.   *)
(* The exception is again a thread that comes through the gate while a      *)
(* broken meeting is being left: it takes part in a count that is not for   *)
(* it, and may set the count anew when it happens to complete the party.    *)
LastOutCleansUp ==
  ~intruded /\ Inside = {} => vhozhdeniya_ = 0 /\ sloty_ = NoItems
==============================================================================
