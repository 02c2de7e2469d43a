------------------------ MODULE QueuedSemaphoreProofs ------------------------
(***************************************************************************)
(* СемафорВОчереди, for any threads, nodes, seeds and bound, and the lock  *)
(* ЧЗЗамокПВПВ that uses one.                                              *)
(*                                                                         *)
(* A newcomer is admitted by the count alone, a queued thread by a handed- *)
(* over permit alone; that the first never overtakes the second is the     *)
(* invariant NoOvertaking, inductive together with the types it rests on.  *)
(*                                                                         *)
(* The nodes need more.  NodesInv has, besides the types,                  *)
(*   References  who refers to a node: its maker, and the queue or one     *)
(*               signaller, never two of them;                             *)
(*   Fresh       a node that is not yet queued is known to nobody else;    *)
(*   Findable    a node that is still waiting is in one of those places;   *)
(*   Inside      its maker is inside жди from then on;                     *)
(*   Wakes       a node whose flag is down has its wakeup.                 *)
(*                                                                         *)
(* The permits are a sum over the threads, which a step changes in one     *)
(* place (Balance, from CountMoves and TotalUpdate).  For the sum to come  *)
(* out, a node that отпусти can still reach must have its thread (Owned).  *)
(*                                                                         *)
(* With all that the lock has one permit in one hand (OneHand), and what   *)
(* is behind the entry follows: the holder's copy of читатели stays true   *)
(* (Placed), and the two counters tell, modulo Wrap, how many readers are  *)
(* inside (ReadersCounted).                                                *)
(***************************************************************************)
EXTENDS FIFOReadWriteLock, CommonTheorems

Refs == Nodes \cup {NoNode}

QueueTypeOK ==
  /\ prava_ \in Int
  /\ wq_ \in Seq(Refs)
  /\ mine \in [Threads -> Refs]

Inv == QueueTypeOK /\ NoOvertaking

LEMMA InitInv == Init => Inv
  BY QueuedSemaphoreAssumption DEF Init, Inv, QueueTypeOK, NoOvertaking, Refs

LEMMA PreCheckInv ==
  ASSUME Inv, NEW t \in Threads, NEW call, PreCheck(t, call)
  PROVE  Inv'
  <1> USE DEF Inv, QueueTypeOK, NoOvertaking, Refs, PreCheck
  <1>1. CASE prava_ > 0 /\ prava_' = prava_ - 1 /\ UNCHANGED mine
    BY <1>1
  <1>2. CASE prava_ <= 0 /\ Unreferenced # {}
             /\ mine' = [mine EXCEPT ![t] = CHOOSE x \in Unreferenced : TRUE]
             /\ UNCHANGED prava_
    <2>1. (CHOOSE x \in Unreferenced : TRUE) \in Nodes
      BY <1>2 DEF Unreferenced
    <2> QED BY <1>2, <2>1
  <1> QED BY <1>1, <1>2

LEMMA RecheckInv ==
  ASSUME Inv, NEW t \in Threads, NEW call, Recheck(t, call)
  PROVE  Inv'
  <1> USE DEF Inv, QueueTypeOK, NoOvertaking, Refs
  <1>1. CASE prava_ > 0 /\ prava_' = prava_ - 1 /\ UNCHANGED wq_
             /\ mine' = [mine EXCEPT ![t] = NoNode]
    BY <1>1
  <1>2. CASE prava_ <= 0 /\ wq_' = Append(wq_, mine[t]) /\ UNCHANGED <<prava_, mine>>
    BY <1>2
  <1> QED BY <1>1, <1>2 DEF Recheck

\* A permit is counted only when nobody is left to hand it to.
LEMMA GetSignallerInv ==
  ASSUME Inv, NEW t \in Threads, GetSignaller(t)
  PROVE  Inv'
  <1> USE DEF Inv, QueueTypeOK, NoOvertaking, Refs
  <1>1. UNCHANGED mine
    BY DEF GetSignaller
  <1>2. CASE wq_ = <<>> /\ prava_' = prava_ + 1 /\ UNCHANGED wq_
    BY <1>1, <1>2
  <1>3. CASE wq_ # <<>> /\ wq_' = Tail(wq_) /\ UNCHANGED prava_
    BY <1>1, <1>3
  <1> QED BY <1>2, <1>3 DEF GetSignaller

LEMMA ForgetMineInv ==
  ASSUME Inv, NEW t \in Threads, UNCHANGED semaphore,
         mine' = [mine EXCEPT ![t] = NoNode] \/ UNCHANGED mine
  PROVE  Inv'
  BY DEF Inv, QueueTypeOK, NoOvertaking, Refs, semaphore

LEMMA NextInv == Inv /\ [Next]_vars => Inv'
  <1> SUFFICES ASSUME Inv, [Next]_vars PROVE Inv'
    OBVIOUS
  <1>1. ASSUME NEW t \in Threads, NEW call \in {"acquire", "attempt"},
               Passes(t, call) \/ WaitAgain(t, call)
        PROVE  Inv'
    BY <1>1, ForgetMineInv DEF Passes, WaitAgain
  <1>2. ASSUME NEW t \in Threads, GiveUp(t) \/ WaitFailed(t)
        PROVE  Inv'
    BY <1>2, ForgetMineInv DEF GiveUp, WaitFailed, Withdraw
  <1>3. ASSUME NEW t \in Threads, Release(t) \/ Signal(t) \/ KernelStep(t)
        PROVE  Inv'
    BY <1>3, ForgetMineInv DEF Release, Signal, KernelStep
  <1>4. ASSUME NEW t \in Threads, NEW n, ReleaseN(t, n)
        PROVE  Inv'
    BY <1>4, ForgetMineInv DEF ReleaseN
  <1>5. ASSUME NEW t \in Threads, Acquire(t) \/ Attempt(t)
        PROVE  Inv'
    BY <1>5, <1>1, <1>2, PreCheckInv, RecheckInv DEF Acquire, Attempt
  <1>6. CASE UNCHANGED vars
    BY <1>6 DEF Inv, QueueTypeOK, NoOvertaking, vars
  <1> QED
    BY <1>2, <1>3, <1>4, <1>5, <1>6, GetSignallerInv DEF Next

(* Nobody overtakes the queue: as long as a thread is queued no permit is   *)
(* counted as available, so neither предпроверь nor перепроверь can succeed *)
(* and every newcomer is put behind it.                                     *)
THEOREM NoneOvertakes == Spec => []NoOvertaking
  <1>1. Inv => NoOvertaking
    BY DEF Inv
  <1> QED
    BY <1>1, InitInv, NextInv, PTL DEF Spec

------------------------------------------------------------------------------
Waits == {"acquireWait", "attemptWait"}
Calls == {"acquire", "attempt"}

\* Who refers to a node: its maker, and the queue or one signaller.
References ==
  /\ \A t, u \in Threads : mine[t] = mine[u] /\ mine[t] # NoNode => t = u
  /\ \A t, u \in Threads : hand[t] = hand[u] /\ hand[t] # NoNode => t = u
  /\ \A t \in Threads : mine[t] # NoNode <=> phase[t] \in Calls \cup Waits
  /\ \A t \in Threads : hand[t] # NoNode <=> phase[t] = "signal"
  /\ \A t \in Threads : hand[t] \notin ToSet(wq_)
  /\ \A t \in Threads : phase[t] \in {"release", "signal"} => left[t] >= 1

Fresh == \A t \in Threads : phase[t] \in Calls =>
  /\ waiting[mine[t]] = TRUE /\ wait[mine[t]].at[mine[t]] = "running"
  /\ mine[t] \notin ToSet(wq_) /\ \A s \in Threads : hand[s] # mine[t]

Findable == \A t \in Threads : phase[t] \in Waits /\ waiting[mine[t]] = TRUE =>
  mine[t] \in ToSet(wq_) \/ \E s \in Threads : hand[s] = mine[t]

Inside == \A t \in Threads :
  phase[t] \in Waits => wait[mine[t]].at[mine[t]] # "running"

Wakes == \A t \in Threads : phase[t] \in Waits /\ waiting[mine[t]] = FALSE =>
  \/ wait[mine[t]].at[mine[t]] \in {"awake", "failed"}
  \/ wait[mine[t]].at[mine[t]] = "gap" /\ wait[mine[t]].event = TRUE

FlagsOK == waiting \in [Nodes -> BOOLEAN]
NumbersOK == prava_ \in Int /\ left \in [Threads -> Nat] /\ issued \in Int /\ lost \in Nat
PlacesOK ==
  /\ wq_ \in Seq(Nodes) /\ IsInjective(wq_)
  /\ \A n \in Nodes : WaitSetOK(wait[n], {n})
  /\ phase \in [Threads -> Phases]
  /\ mine \in [Threads -> Nodes \cup {NoNode}]
  /\ hand \in [Threads -> Nodes \cup {NoNode}]
  /\ DOMAIN wait = Nodes

LEMMA TypeParts == FlagsOK /\ NumbersOK /\ PlacesOK => TypeOK
  BY DEF TypeOK, FlagsOK, NumbersOK, PlacesOK

NodesInv == /\ FlagsOK /\ NumbersOK /\ PlacesOK
            /\ References /\ Fresh /\ Findable /\ Inside /\ Wakes

LEMMA NodesInit == Init => NodesInv
  <1> SUFFICES ASSUME Init PROVE NodesInv
    OBVIOUS
  <1>1. FlagsOK /\ NumbersOK
    BY QueuedSemaphoreAssumption DEF Init, FlagsOK, NumbersOK
  <1>2. PICK os \in Systems : wait = [n \in Nodes |-> NewWaitSet(os, {n})]
    BY DEF Init
  <1>3. DOMAIN wait = Nodes /\ \A n \in Nodes : WaitSetOK(wait[n], {n})
    BY <1>2, NewWaitSetOK, QueuedSemaphoreAssumption
  <1>4. wq_ \in Seq(Nodes) /\ IsInjective(wq_) /\ ToSet(wq_) = {}
    BY DEF Init, IsInjective, ToSet
  <1>5. PlacesOK
    BY <1>3, <1>4 DEF Init, PlacesOK, Phases
  <1>6. References /\ Fresh /\ Findable /\ Inside /\ Wakes
    BY <1>4 DEF Init, References, Fresh, Findable, Inside, Wakes, Waits, Calls
  <1> QED BY <1>1, <1>5, <1>6 DEF NodesInv

LEMMA PreCheckNodes ==
  ASSUME NodesInv, NEW t \in Threads, NEW call \in Calls, PreCheck(t, call)
  PROVE  NodesInv'
  <1> USE QueuedSemaphoreAssumption DEF NodesInv, Phases, Waits, Calls, Goto
  <1>1. CASE /\ prava_ > 0 /\ prava_' = prava_ - 1 /\ Goto(t, "held")
             /\ UNCHANGED <<mine, nodes>>
    <2> USE <1>1 DEF PreCheck, nodes, releasing, history
    <2>1. FlagsOK' /\ NumbersOK'
      BY DEF FlagsOK, NumbersOK
    <2>2. PlacesOK'
      BY DEF PlacesOK
    <2>3. References' /\ Fresh' /\ Findable' /\ Inside' /\ Wakes'
      BY DEF PlacesOK, References, Fresh, Findable, Inside, Wakes
    <2> QED BY <2>1, <2>2, <2>3
  <1>2. ASSUME NEW n \in Unreferenced,
               mine' = [mine EXCEPT ![t] = n],
               waiting' = [waiting EXCEPT ![n] = TRUE],
               wait' = [wait EXCEPT ![n] = NewWaitSet(OS(n), {n})],
               Goto(t, call), UNCHANGED prava_
        PROVE  NodesInv'
    <2> USE <1>2 DEF releasing, history
    <2>0. /\ phase[t] = "idle" /\ UNCHANGED <<wq_, releasing, history>>
          /\ n \in Nodes /\ n \notin ToSet(wq_)
          /\ \A s \in Threads : mine[s] # n /\ hand[s] # n
      BY DEF PreCheck, Unreferenced
    <2>1. WaitSetOK(wait'[n], {n}) /\ wait'[n].at[n] = "running"
      <3>1. OS(n) \in Platforms
        BY <2>0 DEF PlacesOK, OS, WaitSetOK, WaitSets
      <3> QED BY <2>0, <3>1, NewWaitSetOK DEF PlacesOK, NewWaitSet
    <2>2. FlagsOK' /\ NumbersOK'
      BY <2>0 DEF FlagsOK, NumbersOK
    <2>3. PlacesOK'
      BY <2>0, <2>1 DEF PlacesOK
    <2>4. References'
      BY <2>0 DEF PlacesOK, References
    <2>5. Fresh'
      BY <2>0, <2>1 DEF PlacesOK, FlagsOK, References, Fresh
    <2>6. Findable' /\ Inside' /\ Wakes'
      BY <2>0 DEF PlacesOK, FlagsOK, References, Findable, Inside, Wakes
    <2> QED BY <2>2, <2>3, <2>4, <2>5, <2>6
  <1> QED BY <1>1, <1>2 DEF PreCheck

LEMMA RecheckNodes ==
  ASSUME NodesInv, NEW t \in Threads, NEW call \in Calls, Recheck(t, call)
  PROVE  NodesInv'
  <1> USE QueuedSemaphoreAssumption DEF NodesInv, Phases, Waits, Calls, Goto, releasing, history
  <1> DEFINE n == mine[t]
  <1>1. /\ phase[t] = call /\ n \in Nodes /\ UNCHANGED <<waiting, hand, left, issued, lost>>
    BY DEF Recheck, References, PlacesOK
  <1>2. CASE /\ prava_ > 0 /\ prava_' = prava_ - 1 /\ Goto(t, "held")
             /\ mine' = [mine EXCEPT ![t] = NoNode] /\ UNCHANGED <<wq_, wait>>
    <2> USE <1>1, <1>2
    <2>1. FlagsOK' /\ NumbersOK'
      BY DEF FlagsOK, NumbersOK
    <2>2. PlacesOK'
      BY DEF PlacesOK
    <2>3. References' /\ Fresh' /\ Findable' /\ Inside' /\ Wakes'
      BY DEF PlacesOK, References, Fresh, Findable, Inside, Wakes
    <2> QED BY <2>1, <2>2, <2>3
  <1>3. CASE /\ wq_' = Append(wq_, n) /\ wait' = [wait EXCEPT ![n] = Zhdi(@, n)]
             /\ phase' \in {[phase EXCEPT ![t] = p] : p \in Waits}
             /\ UNCHANGED <<prava_, mine>>
    <2> USE <1>1, <1>3
    <2>0. /\ n \notin ToSet(wq_) /\ \A s \in Threads : hand[s] # n
          /\ waiting[n] = TRUE
      BY DEF Fresh
    <2>1. /\ wq_' \in Seq(Nodes) /\ IsInjective(wq_') /\ ToSet(wq_') = ToSet(wq_) \cup {n}
      BY <2>0, AppendSet DEF PlacesOK
    <2>2. WaitSetOK(wait'[n], {n}) /\ wait'[n].at[n] # "running"
      <3>1. wait'[n] = Zhdi(wait[n], n) /\ WaitSetOK(wait[n], {n})
        BY DEF PlacesOK
      <3> HIDE DEF n
      <3> QED BY ONLY <3>1, ZhdiOK
    <2>3. FlagsOK' /\ NumbersOK'
      BY DEF FlagsOK, NumbersOK
    <2>4. PlacesOK'
      BY <2>1, <2>2 DEF PlacesOK
    <2>5. References'
      BY <2>0, <2>1 DEF PlacesOK, References
    <2>6. Fresh'
      BY <2>0, <2>1 DEF PlacesOK, References, Fresh
    <2>7. Findable'
      BY <2>0, <2>1 DEF PlacesOK, References, Findable
    <2>8. Inside' /\ Wakes'
      BY <2>0, <2>2 DEF PlacesOK, References, Inside, Wakes
    <2> QED BY <2>3, <2>4, <2>5, <2>6, <2>7, <2>8
  <1>4. WaitOf(call) \in Waits
    BY DEF WaitOf
  <1> QED BY <1>2, <1>3, <1>4 DEF Recheck

\* A thread leaves жди for good, with the permit or without.
LEMMA ForgetNode ==
  ASSUME NodesInv, NEW t \in Threads, phase[t] \in Waits,
         UNCHANGED waiting \/ waiting' = [waiting EXCEPT ![mine[t]] = FALSE],
         wait' = [wait EXCEPT ![mine[t]] = Resume(@, mine[t])],
         mine' = [mine EXCEPT ![t] = NoNode],
         NEW p \in {"idle", "held"}, Goto(t, p),
         UNCHANGED <<prava_, wq_, hand, left, issued>>, lost' \in Nat
  PROVE  NodesInv'
  <1> USE QueuedSemaphoreAssumption DEF NodesInv, Phases, Waits, Calls, Goto
  <1> DEFINE n == mine[t]
  <1>1. n \in Nodes /\ \A s \in Threads : s # t => mine[s] # n
    BY DEF References, PlacesOK
  <1>2. WaitSetOK(wait'[n], {n})
    <2>1. wait'[n] = Resume(wait[n], n) /\ WaitSetOK(wait[n], {n})
      BY <1>1 DEF PlacesOK
    <2> HIDE DEF n
    <2> QED BY ONLY <2>1, ResumeOK
  <1>3. FlagsOK'
    BY <1>1 DEF FlagsOK
  <1>4. NumbersOK'
    BY DEF NumbersOK
  <1>5. PlacesOK'
    BY <1>1, <1>2 DEF PlacesOK
  <1>6. References'
    BY <1>1 DEF PlacesOK, References
  <1>7. \A x \in Nodes : x # n => waiting'[x] = waiting[x] /\ wait'[x] = wait[x]
    BY <1>1 DEF PlacesOK, FlagsOK
  <1>8. \A s \in Threads : phase[s] \in Calls \cup Waits => mine[s] \in Nodes
    BY DEF PlacesOK, References
  <1>9. /\ phase'[t] \notin Calls \cup Waits
        /\ \A s \in Threads : s # t => phase'[s] = phase[s] /\ mine'[s] = mine[s]
    BY DEF PlacesOK
  <1>10. wq_' = wq_ /\ hand' = hand
    OBVIOUS
  <1>11. ASSUME NEW s \in Threads, phase'[s] \in Calls \cup Waits
         PROVE  /\ phase'[s] = phase[s] /\ mine'[s] = mine[s]
                /\ waiting'[mine[s]] = waiting[mine[s]]
                /\ wait'[mine[s]] = wait[mine[s]]
    <2> HIDE DEF n, NodesInv, Calls, Waits, Goto
    <2> QED BY ONLY <1>1, <1>7, <1>8, <1>9, <1>11
  <1>12. Fresh /\ Findable /\ Inside /\ Wakes
    OBVIOUS
  <1> HIDE DEF n, NodesInv, Calls, Waits, Goto
  <1>13. Fresh' /\ Findable'
    BY ONLY <1>10, <1>11, <1>12 DEF Fresh, Findable
  <1>14. Inside' /\ Wakes'
    BY ONLY <1>11, <1>12 DEF Inside, Wakes
  <1> QED BY <1>3, <1>4, <1>5, <1>6, <1>13, <1>14 DEF NodesInv

LEMMA PassesNodes ==
  ASSUME NodesInv, NEW t \in Threads, NEW call \in Calls, Passes(t, call)
  PROVE  NodesInv'
  BY ForgetNode DEF Passes, WaitOf, Waits, Calls, semaphore, releasing, history,
     NodesInv, NumbersOK

LEMMA GiveUpNodes ==
  ASSUME NodesInv, NEW t \in Threads, GiveUp(t)
  PROVE  NodesInv'
  BY ForgetNode DEF GiveUp, Withdraw, Waits, semaphore, releasing, history,
     NodesInv, NumbersOK

LEMMA WaitFailedNodes ==
  ASSUME NodesInv, NEW t \in Threads, WaitFailed(t)
  PROVE  NodesInv'
  <1>1. /\ phase[t] \in Waits /\ UNCHANGED <<prava_, wq_, hand, left, issued>>
        /\ wait' = [wait EXCEPT ![mine[t]] = Resume(@, mine[t])]
        /\ mine' = [mine EXCEPT ![t] = NoNode]
        /\ UNCHANGED waiting \/ waiting' = [waiting EXCEPT ![mine[t]] = FALSE]
    BY DEF WaitFailed, Withdraw, Waits, semaphore, releasing
  <1>2. Goto(t, "idle") \/ Goto(t, "held")
    BY DEF WaitFailed, Withdraw, Goto
  <1>3. lost' \in Nat
    BY DEF WaitFailed, NodesInv, NumbersOK
  <1> QED BY <1>1, <1>2, <1>3, ForgetNode

\* A step inside жди, of a thread that stays in it.
LEMMA StayNode ==
  ASSUME NodesInv, NEW t \in Threads, mine[t] # NoNode, NEW w,
         wait' = [wait EXCEPT ![mine[t]] = w],
         WaitSetOK(w, {mine[t]}),
         w.at[mine[t]] = "running" <=> wait[mine[t]].at[mine[t]] = "running",
         waiting[mine[t]] = FALSE /\ phase[t] \in Waits =>
           w.at[mine[t]] \in {"awake", "failed"}
             \/ (w.at[mine[t]] = "gap" /\ w.event = TRUE),
         UNCHANGED <<waiting, phase, mine, prava_, wq_, hand, left, issued, lost>>
  PROVE  NodesInv'
  <1> USE DEF NodesInv
  <1>1. mine[t] \in Nodes /\ \A s \in Threads : s # t => mine[s] # mine[t]
    BY DEF References, PlacesOK
  <1>2. FlagsOK' /\ NumbersOK'
    BY DEF FlagsOK, NumbersOK
  <1>3. PlacesOK'
    BY <1>1 DEF PlacesOK
  <1>4. References' /\ Findable'
    BY DEF References, Findable
  <1>5. Fresh'
    BY <1>1 DEF PlacesOK, References, Fresh
  <1>6. Inside'
    BY <1>1 DEF PlacesOK, Inside
  <1>7. Wakes'
    BY <1>1 DEF PlacesOK, Wakes
  <1> QED BY <1>2, <1>3, <1>4, <1>5, <1>6, <1>7

LEMMA WaitAgainNodes ==
  ASSUME NodesInv, NEW t \in Threads, NEW call \in Calls, WaitAgain(t, call)
  PROVE  NodesInv'
  <1> DEFINE n == mine[t]
  <1>1. /\ phase[t] \in Waits /\ waiting[n] /\ wait[n].at[n] = "awake"
        /\ wait' = [wait EXCEPT ![n] = Zhdi(wait[n], n)]
        /\ UNCHANGED <<waiting, phase, mine, prava_, wq_, hand, left, issued, lost>>
    BY DEF WaitAgain, WaitOf, Waits, Calls, semaphore, releasing, history
  <1>2. n \in Nodes /\ n # NoNode /\ WaitSetOK(wait[n], {n})
    BY <1>1, QueuedSemaphoreAssumption DEF NodesInv, References, PlacesOK
  <1>3. WaitSetOK(Zhdi(wait[n], n), {n}) /\ Zhdi(wait[n], n).at[n] # "running"
    <2> HIDE DEF n
    <2> QED BY <1>2, ZhdiOK
  <1> QED BY <1>1, <1>2, <1>3, StayNode

LEMMA KernelStepNodes ==
  ASSUME NodesInv, NEW t \in Threads, KernelStep(t)
  PROVE  NodesInv'
  <1> DEFINE n == mine[t]
  <1>1. /\ n # NoNode
        /\ UNCHANGED <<waiting, phase, mine, prava_, wq_, hand, left, issued, lost>>
    BY DEF KernelStep, semaphore, releasing, history
  <1>2. PICK w \in KernelSteps(wait[n], n, phase[t] = "attemptWait") :
          wait' = [wait EXCEPT ![n] = w]
    BY DEF KernelStep
  <1>3. n \in Nodes /\ WaitSetOK(wait[n], {n})
    BY <1>1 DEF NodesInv, PlacesOK
  <1>4. /\ WaitSetOK(w, {n}) /\ w.at[n] # "running" /\ wait[n].at[n] # "running"
        /\ wait[n].at[n] = "gap" /\ wait[n].event = TRUE => w.at[n] \in {"awake", "failed"}
        /\ wait[n].at[n] \notin {"awake", "failed"}
    <2>1. WaitSetOK(w, {n})
      BY <1>2, <1>3, KernelStepOK
    <2> HIDE DEF n
    <2>2. CASE w = EnterKernelWait(wait[n], n) /\ MayEnterKernelWait(wait[n], n)
      BY <2>1, <2>2, <1>3 DEF EnterKernelWait, MayEnterKernelWait, WaitSetOK, WaitSets
    <2>3. CASE w = ReturnUnnotified(wait[n], n) /\ MayReturnUnnotified(wait[n], n, phase[t] = "attemptWait")
      BY <2>1, <2>3, <1>3 DEF ReturnUnnotified, MayReturnUnnotified, WaitSetOK, WaitSets
    <2>4. CASE w = WaitError(wait[n], n) /\ MayFail(wait[n], n)
      BY <2>1, <2>4, <1>3 DEF WaitError, MayFail, WaitSetOK, WaitSets
    <2> QED BY <1>2, <2>2, <2>3, <2>4 DEF KernelSteps
  <1>5. phase[t] \in Waits /\ waiting[n] = FALSE => w.at[n] \in {"awake", "failed"}
    BY <1>4 DEF NodesInv, Wakes
  <1> QED BY <1>1, <1>2, <1>4, <1>5, StayNode

LEMMA ReleaseNodes ==
  ASSUME NodesInv, NEW t \in Threads,
         Release(t) \/ \E n \in 1..(MaxIssued - issued) : ReleaseN(t, n)
  PROVE  NodesInv'
  <1> USE QueuedSemaphoreAssumption DEF NodesInv, Phases, Waits, Calls, Goto
  <1>1. /\ phase[t] \in {"idle", "held"} /\ Goto(t, "release")
        /\ UNCHANGED <<prava_, wq_, waiting, wait, mine, hand, lost>>
    BY DEF Release, ReleaseN, semaphore, nodes, history
  <1>2. \E n \in Nat \ {0} : left' = [left EXCEPT ![t] = n] /\ issued' \in Int
    BY DEF Release, ReleaseN, history, NumbersOK
  <1>3. FlagsOK'
    BY <1>1 DEF FlagsOK
  <1>4. NumbersOK'
    BY <1>1, <1>2 DEF NumbersOK
  <1>5. PlacesOK'
    BY <1>1 DEF PlacesOK
  <1>6. References'
    BY <1>1, <1>2 DEF PlacesOK, NumbersOK, References
  <1>7. Fresh' /\ Findable' /\ Inside' /\ Wakes'
    BY <1>1 DEF PlacesOK, Fresh, Findable, Inside, Wakes
  <1> QED BY <1>3, <1>4, <1>5, <1>6, <1>7

\* Done leaves the types of left and phase, and no thread with nothing to do in
\* "release".
LEMMA DoneOK ==
  ASSUME NodesInv, NEW t \in Threads, phase[t] \in {"release", "signal"}, Done(t)
  PROVE  /\ left' \in [Threads -> Nat]
         /\ \E p \in {"idle", "release"} : Goto(t, p)
         /\ phase'[t] = "release" => left'[t] >= 1
         /\ \A s \in Threads : s # t => left'[s] = left[s] /\ phase'[s] = phase[s]
  <1>1. left' = [left EXCEPT ![t] = @ - 1] /\ left[t] \in Nat \ {0}
    BY DEF NodesInv, NumbersOK, References, Done
  <1>2. left' \in [Threads -> Nat] /\ left'[t] = left[t] - 1
        /\ \A s \in Threads : s # t => left'[s] = left[s]
    BY <1>1 DEF NodesInv, NumbersOK
  <1>3. Goto(t, IF left[t] = 1 THEN "idle" ELSE "release")
    BY DEF Done
  <1>4. phase'[t] = (IF left[t] = 1 THEN "idle" ELSE "release")
        /\ \A s \in Threads : s # t => phase'[s] = phase[s]
    BY <1>3 DEF NodesInv, PlacesOK, Goto
  <1>5. left'[t] = 0 => phase'[t] = "idle"
    BY <1>1, <1>2, <1>4
  <1> QED BY <1>1, <1>2, <1>3, <1>4, <1>5

LEMMA GetSignallerNodes ==
  ASSUME NodesInv, NEW t \in Threads, GetSignaller(t)
  PROVE  NodesInv'
  <1> USE QueuedSemaphoreAssumption DEF NodesInv, Phases, Waits, Calls, Goto
  <1>1. /\ phase[t] = "release" /\ UNCHANGED <<waiting, wait, mine, issued, lost>>
    BY DEF GetSignaller, nodes, history
  <1>2. CASE prava_' = prava_ + 1 /\ Done(t) /\ UNCHANGED <<wq_, hand>>
    <2>1. /\ left' \in [Threads -> Nat] /\ \E p \in {"idle", "release"} : Goto(t, p)
          /\ phase'[t] = "release" => left'[t] >= 1
          /\ \A s \in Threads : s # t => left'[s] = left[s] /\ phase'[s] = phase[s]
      BY <1>1, <1>2, DoneOK
    <2>2. FlagsOK' /\ NumbersOK'
      BY <1>1, <1>2, <2>1 DEF FlagsOK, NumbersOK
    <2>3. PlacesOK'
      BY <1>1, <1>2, <2>1 DEF PlacesOK
    <2>4. References'
      BY <1>1, <1>2, <2>1 DEF PlacesOK, NumbersOK, References
    <2>5. Fresh' /\ Findable' /\ Inside' /\ Wakes'
      BY <1>1, <1>2, <2>1 DEF PlacesOK, Fresh, Findable, Inside, Wakes
    <2> QED BY <2>2, <2>3, <2>4, <2>5
  <1>3. CASE /\ wq_ # <<>> /\ wq_' = Tail(wq_)
             /\ hand' = [hand EXCEPT ![t] = Head(wq_)] /\ Goto(t, "signal")
             /\ UNCHANGED <<prava_, left>>
    <2>1. /\ wq_' \in Seq(Nodes) /\ IsInjective(wq_') /\ Head(wq_) \in Nodes
          /\ Head(wq_) \in ToSet(wq_) /\ ToSet(wq_') = ToSet(wq_) \ {Head(wq_)}
      BY <1>3, TailSet DEF PlacesOK
    <2>2. FlagsOK' /\ NumbersOK'
      BY <1>1, <1>3 DEF FlagsOK, NumbersOK
    <2>3. PlacesOK'
      BY <1>1, <1>3, <2>1 DEF PlacesOK
    <2>4. References'
      BY <1>1, <1>3, <2>1 DEF PlacesOK, NumbersOK, References
    <2>5. Fresh'
      BY <1>1, <1>3, <2>1 DEF PlacesOK, References, Fresh
    <2>6. Findable'
      BY <1>1, <1>3, <2>1 DEF PlacesOK, References, Findable
    <2>7. Inside' /\ Wakes'
      BY <1>1, <1>3 DEF PlacesOK, Inside, Wakes
    <2> QED BY <2>2, <2>3, <2>4, <2>5, <2>6, <2>7
  <1> QED BY <1>2, <1>3 DEF GetSignaller

\* What уведоми does to a node's wait set.
LEMMA UvedomiNode ==
  ASSUME NEW n, NEW w, WaitSetOK(w, {n}), NEW x \in Uvedomi(w)
  PROVE  /\ WaitSetOK(x, {n})
         /\ x.at[n] = "running" <=> w.at[n] = "running"
         /\ w.at[n] # "running" =>
              \/ x.at[n] \in {"awake", "failed"}
              \/ x.at[n] = "gap" /\ x.event = TRUE
  <1>1. /\ WaitSetOK(x, {n})
        /\ \A s \in {n} : \/ x.at[s] = w.at[s]
                          \/ w.at[s] = "blocked" /\ x.at[s] = "awake"
    BY UvedomiOK
  <1>2. CASE w.at[n] = "blocked"
    <2>1. AtPlace(w, {"blocked"}) = {n}
      BY <1>2 DEF AtPlace, WaitSetOK, WaitSets
    <2>2. x = [w EXCEPT !.at[n] = "awake"]
      BY <2>1 DEF Uvedomi
    <2> QED BY <1>1, <1>2, <2>2 DEF WaitSetOK, WaitSets
  <1>3. CASE w.at[n] # "blocked"
    <2>1. AtPlace(w, {"blocked"}) = {}
      BY <1>3 DEF AtPlace, WaitSetOK, WaitSets
    <2>2. x = [w EXCEPT !.event = (w.os = "windows")]
      BY <2>1 DEF Uvedomi
    <2>3. x.at = w.at /\ (w.os = "windows" => x.event = TRUE)
      BY <2>2 DEF WaitSetOK, WaitSets
    <2>4. w.at[n] = "gap" => w.os = "windows"
      BY DEF WaitSetOK, WaitSets, AtPlace, Platforms
    <2>5. w.at[n] \in Places
      BY DEF WaitSetOK, WaitSets
    <2> QED BY <1>1, <1>3, <2>3, <2>4, <2>5 DEF Places
  <1> QED BY <1>2, <1>3

LEMMA SignalNodes ==
  ASSUME NodesInv, NEW t \in Threads, Signal(t)
  PROVE  NodesInv'
  <1> USE QueuedSemaphoreAssumption DEF NodesInv, Phases, Waits, Calls, Goto
  <1> DEFINE n == hand[t]
  <1>1. /\ phase[t] = "signal" /\ UNCHANGED <<prava_, wq_, mine, issued>> /\ Done(t)
        /\ waiting' = [waiting EXCEPT ![n] = FALSE]
        /\ hand' = [hand EXCEPT ![t] = NoNode]
    BY DEF Signal, semaphore
  <1>2. PICK w \in Uvedomi(wait[n]) : wait' = [wait EXCEPT ![n] = w]
    BY DEF Signal
  <1>3. /\ n \in Nodes /\ n # NoNode /\ \A s \in Threads : s # t => hand[s] # n
    BY <1>1 DEF PlacesOK, References
  <1>4. /\ left' \in [Threads -> Nat] /\ \E p \in {"idle", "release"} : Goto(t, p)
        /\ phase'[t] = "release" => left'[t] >= 1
        /\ \A s \in Threads : s # t => left'[s] = left[s] /\ phase'[s] = phase[s]
    BY <1>1, DoneOK
  <1>5. /\ WaitSetOK(w, {n})
        /\ w.at[n] = "running" <=> wait[n].at[n] = "running"
        /\ wait[n].at[n] # "running" =>
              w.at[n] \in {"awake", "failed"} \/ (w.at[n] = "gap" /\ w.event = TRUE)
    <2>1. WaitSetOK(wait[n], {n})
      BY <1>3 DEF PlacesOK
    <2> HIDE DEF n
    <2> QED BY <1>2, <2>1, UvedomiNode
  <1>6. FlagsOK'
    BY <1>1, <1>3 DEF FlagsOK
  <1>7. NumbersOK'
    <2>1. lost' \in Nat
      BY DEF Signal, NumbersOK
    <2> QED BY <1>1, <1>4, <2>1 DEF NumbersOK
  <1>8. PlacesOK'
    BY ZenonT(60), <1>1, <1>2, <1>3, <1>4, <1>5 DEF PlacesOK
  <1>9. References'
    <2>1. \A s \in Threads : hand'[s] = IF s = t THEN NoNode ELSE hand[s]
      BY <1>1 DEF PlacesOK
    <2>2. phase'[t] \in {"idle", "release"}
      BY <1>4 DEF PlacesOK
    <2>3. ToSet(wq_') = ToSet(wq_) /\ NoNode \notin ToSet(wq_)
      <3>1. \A i \in DOMAIN wq_ : wq_[i] \in Nodes
        BY DEF PlacesOK
      <3> QED BY <1>1, <3>1 DEF ToSet
    <2> QED BY <1>1, <1>4, <2>1, <2>2, <2>3 DEF References
  <1>10. Fresh'
    BY <1>1, <1>2, <1>3, <1>4 DEF PlacesOK, FlagsOK, References, Fresh
  <1>11. Findable'
    BY <1>1, <1>3, <1>4 DEF PlacesOK, FlagsOK, References, Findable
  <1>12. Inside'
    BY <1>1, <1>2, <1>3, <1>4, <1>5 DEF PlacesOK, References, Inside
  <1>13. Wakes'
    BY <1>1, <1>2, <1>3, <1>4, <1>5 DEF PlacesOK, FlagsOK, References, Wakes, Inside
  <1> QED BY <1>6, <1>7, <1>8, <1>9, <1>10, <1>11, <1>12, <1>13

LEMMA NodesNext == NodesInv /\ [Next]_vars => NodesInv'
  <1> SUFFICES ASSUME NodesInv, [Next]_vars PROVE NodesInv'
    OBVIOUS
  <1>1. ASSUME NEW t \in Threads, Acquire(t) \/ Attempt(t)
        PROVE  NodesInv'
    BY <1>1, PreCheckNodes, RecheckNodes, PassesNodes, WaitAgainNodes, GiveUpNodes
       DEF Acquire, Attempt, Calls
  <1>2. CASE UNCHANGED vars
    BY <1>2 DEF vars, NodesInv, FlagsOK, NumbersOK, PlacesOK, References, Fresh,
       Findable, Inside, Wakes
  <1> QED
    BY <1>1, <1>2, WaitFailedNodes, KernelStepNodes, ReleaseNodes, GetSignallerNodes,
       SignalNodes DEF Next

(* The types hold, in particular that a node is queued once at most and     *)
(* that each node's wait set is one its platform allows.                    *)
THEOREM QueueTypes == Spec => []TypeOK
  <1>1. NodesInv => TypeOK
    BY TypeParts DEF NodesInv
  <1> QED BY <1>1, NodesInit, NodesNext, PTL DEF Spec

(* A permit that is handed over always wakes its thread, on Windows too: the*)
(* event of a node serves one waiter and carries one notification.          *)
THEOREM SignalsArrive == Spec => []SignalWakes
  <1>1. NodesInv => SignalWakes
    BY DEF NodesInv, Wakes, SignalWakes, Granted, InWait, Waits, FlagsOK, PlacesOK,
       References, Calls
  <1> QED BY <1>1, NodesInit, NodesNext, PTL DEF Spec

(* A thread whose node is still waiting can be found by отпусти: the node is*)
(* in the queue, or in the hand of exactly one signaller.                   *)
THEOREM NoneForgotten ==
  ASSUME IsFiniteSet(Threads)
  PROVE  Spec => []NobodyForgotten
  <1>1. ASSUME NodesInv PROVE NobodyForgotten
    <2> SUFFICES ASSUME NEW t \in InWait, waiting[mine[t]]
                 PROVE  Count({s \in Threads : hand[s] = mine[t]})
                          = IF mine[t] \in ToSet(wq_) THEN 0 ELSE 1
      BY DEF NobodyForgotten
    <2> DEFINE hands == {s \in Threads : hand[s] = mine[t]}
    <2>1. t \in Threads /\ phase[t] \in Waits /\ mine[t] # NoNode
      BY <1>1 DEF InWait, Waits, NodesInv, References
    <2>2. CASE mine[t] \in ToSet(wq_)
      <3>1. hands = {}
        BY <1>1, <2>2 DEF NodesInv, References
      <3> QED BY <2>2, <3>1, FS_EmptySet DEF Count
    <2>3. CASE mine[t] \notin ToSet(wq_)
      <3>1. PICK s \in Threads : hand[s] = mine[t]
        BY <1>1, <2>1, <2>3 DEF NodesInv, Findable
      <3>2. hands = {s}
        BY <1>1, <2>1, <3>1 DEF NodesInv, References
      <3> QED BY <2>3, <3>2, FS_Singleton DEF Count
    <2> QED BY <2>2, <2>3
  <1> QED BY <1>1, NodesInit, NodesNext, PTL DEF Spec

------------------------------------------------------------------------------
\* What counting permits asks of the constants.
Finite == IsFiniteSet(Threads)

\* A node that отпусти can still reach and that is waiting has its thread.
Owned ==
  \A n \in Nodes :
    waiting[n] = TRUE /\ (n \in ToSet(wq_) \/ \E s \in Threads : hand[s] = n)
      => \E t \in Threads : mine[t] = n /\ phase[t] \in Waits

LeftZero == \A t \in Threads : phase[t] \notin {"release", "signal"} => left[t] = 0

IsGranted(t) == phase[t] \in Waits /\ waiting[mine[t]] = FALSE

AccountInv == Owned /\ LeftZero /\ PermitsAccounted

LEMMA GrantedIs ==
  ASSUME NodesInv
  PROVE  Granted = {t \in Threads : IsGranted(t)}
  BY DEF Granted, InWait, IsGranted, Waits, Calls, NodesInv, References, FlagsOK, PlacesOK

\* The parts of the sum are numbers.
LEMMA PartsAreNumbers ==
  ASSUME Finite, NodesInv
  PROVE  /\ Count(Holders) \in Nat /\ Count(Granted) \in Nat /\ Returning \in Nat
         /\ prava_ \in Int /\ issued \in Int /\ lost \in Nat
  <1>1. Holders \subseteq Threads /\ Granted \subseteq Threads
    BY DEF Holders, Granted, InWait
  <1>2. Count(Holders) \in Nat /\ Count(Granted) \in Nat
    BY <1>1, FS_Subset, FS_CardinalityType DEF Count, Finite
  <1>3. left \in [Threads -> Nat] /\ left \in [Threads -> Int]
    BY DEF NodesInv, NumbersOK
  <1>4. Returning = Total(left, Threads)
    BY DEF Returning, Total
  <1>5. Returning \in Nat
    BY <1>3, <1>4, TotalType DEF Finite
  <1> QED BY <1>2, <1>5 DEF NodesInv, NumbersOK

LEMMA ReturningIs == Returning = Total(left, Threads)
  BY DEF Returning, Total

\* If one thread at most changes its part of each kind and these changes even
\* out, the permits are still accounted for.
LEMMA Balance ==
  ASSUME Finite, NodesInv, NodesInv', PermitsAccounted,
         NEW t \in Threads, NEW u \in Threads,
         \A s \in Threads : s # t => (phase'[s] = "held" <=> phase[s] = "held") /\ left'[s] = left[s],
         \A s \in Threads : s # u => (IsGranted(s)' <=> IsGranted(s)),
         prava_' + One(phase'[t] = "held") + One(IsGranted(u)') + left'[t] + lost' - issued'
           = prava_ + One(phase[t] = "held") + One(IsGranted(u)) + left[t] + lost - issued
  PROVE  PermitsAccounted'
  <1> DEFINE H  == Count(Holders)
             G  == Count(Granted)
             R  == Returning
             nH  == Count(Holders')
             nG  == Count(Granted')
             nR  == Returning'
  <1>1. nH + One(phase[t] = "held") = H + One(phase'[t] = "held")
    <2>1. Holders \subseteq Threads /\ Holders' \subseteq Threads
          /\ (t \in Holders <=> phase[t] = "held") /\ (t \in Holders' <=> phase'[t] = "held")
          /\ \A s \in Threads : s # t => (s \in Holders <=> s \in Holders')
      BY DEF Holders
    <2> HIDE DEF Holders
    <2>2. One(t \in Holders) = One(phase[t] = "held") /\ One(t \in Holders') = One(phase'[t] = "held")
      BY <2>1 DEF One
    <2>3. Cardinality(Holders') + One(t \in Holders) = Cardinality(Holders) + One(t \in Holders')
      BY <2>1, CountMoves DEF Finite
    <2> QED BY <2>2, <2>3 DEF Count
  <1>2. nG + One(IsGranted(u)) = G + One(IsGranted(u)')
    <2>1. Granted = {s \in Threads : IsGranted(s)}
      BY GrantedIs
    <2>2. Granted' = {s \in Threads : IsGranted(s)'}
      BY DEF Granted, InWait, IsGranted, Waits, Calls, NodesInv, References, FlagsOK, PlacesOK
    <2>3. Granted \subseteq Threads /\ Granted' \subseteq Threads
          /\ (u \in Granted <=> IsGranted(u)) /\ (u \in Granted' <=> IsGranted(u)')
          /\ \A s \in Threads : s # u => (s \in Granted <=> s \in Granted')
      BY <2>1, <2>2
    <2> HIDE DEF Granted, IsGranted
    <2>4. One(u \in Granted) = One(IsGranted(u)) /\ One(u \in Granted') = One(IsGranted(u)')
      BY <2>3 DEF One
    <2>5. Cardinality(Granted') + One(u \in Granted) = Cardinality(Granted) + One(u \in Granted')
      BY <2>3, CountMoves DEF Finite
    <2> QED BY <2>4, <2>5 DEF Count
  <1>3. nR = R + (left'[t] - left[t])
    <2>1. left \in [Threads -> Int] /\ left' \in [Threads -> Int]
      BY DEF NodesInv, NumbersOK
    <2>2. Total(left', Threads) = Total(left, Threads) + (left'[t] - left[t])
      BY <2>1, TotalUpdate DEF Finite
    <2>3. (Returning = Total(left, Threads))'
      BY ReturningIs, PTL
    <2>4. Returning = Total(left, Threads) /\ Returning' = Total(left', Threads)
      BY <2>3, ReturningIs
    <2> QED BY <2>2, <2>4
  <1>4. /\ H \in Nat /\ G \in Nat /\ R \in Nat /\ prava_ \in Int /\ issued \in Int /\ lost \in Nat
        /\ left[t] \in Nat
    BY PartsAreNumbers DEF NodesInv, NumbersOK
  <1>5. /\ nH \in Nat /\ nG \in Nat /\ nR \in Int /\ prava_' \in Int /\ issued' \in Int /\ lost' \in Nat
        /\ left'[t] \in Nat
    <2>1. Holders' \subseteq Threads /\ Granted' \subseteq Threads
      BY DEF Holders, Granted, InWait
    <2>2. nH \in Nat /\ nG \in Nat
      BY <2>1, FS_Subset, FS_CardinalityType DEF Count, Finite
    <2>3. prava_' \in Int /\ issued' \in Int /\ lost' \in Nat /\ left'[t] \in Nat
      BY DEF NodesInv, NumbersOK
    <2> QED BY <1>3, <1>4, <2>2, <2>3
  <1>6. /\ One(phase[t] = "held") \in Nat /\ One(phase'[t] = "held") \in Nat
        /\ One(IsGranted(u)) \in Nat /\ One(IsGranted(u)') \in Nat
    BY DEF One
  <1>7. prava_ + H + G + R + lost = issued
    BY DEF PermitsAccounted
  <1> HIDE DEF H, G, R, nH, nG, nR, IsGranted
  <1>8. prava_' + nH + nG + nR + lost' = issued'
    BY ONLY <1>1, <1>2, <1>3, <1>4, <1>5, <1>6, <1>7,
       prava_' + One(phase'[t] = "held") + One(IsGranted(u)') + left'[t] + lost' - issued'
           = prava_ + One(phase[t] = "held") + One(IsGranted(u)) + left[t] + lost - issued
  <1> QED BY <1>8 DEF PermitsAccounted, nH, nG, nR

LEMMA SameCounts ==
  ASSUME Finite, NodesInv, NodesInv', PermitsAccounted,
         \A s \in Threads : phase'[s] = "held" <=> phase[s] = "held",
         \A s \in Threads : IsGranted(s)' <=> IsGranted(s),
         UNCHANGED <<prava_, left, issued, lost>>
  PROVE  PermitsAccounted'
  <1>1. Holders' = Holders
    BY DEF Holders
  <1>2. Granted = {s \in Threads : IsGranted(s)}
    BY GrantedIs
  <1>3. Granted' = {s \in Threads : IsGranted(s)'}
    BY DEF Granted, InWait, IsGranted, Waits, Calls, NodesInv, References, FlagsOK, PlacesOK
  <1>4. Granted' = Granted
    BY <1>2, <1>3
  <1>5. (Returning = Total(left, Threads))'
    BY ReturningIs, PTL
  <1>6. Returning' = Returning
    BY <1>5, ReturningIs
  <1> QED BY <1>1, <1>4, <1>6 DEF PermitsAccounted, Count

LEMMA PreCheckAccount ==
  ASSUME Finite, NodesInv, NodesInv', AccountInv, NEW t \in Threads, NEW call \in Calls,
         PreCheck(t, call)
  PROVE  AccountInv'
  <1>1. /\ phase[t] = "idle" /\ UNCHANGED <<wq_, hand, left, issued, lost>>
        /\ left[t] = 0
    BY DEF PreCheck, releasing, history, AccountInv, LeftZero
  <1>2. /\ phase \in [Threads -> Phases] /\ mine \in [Threads -> Nodes \cup {NoNode}]
        /\ waiting \in [Nodes -> BOOLEAN] /\ prava_ \in Int /\ NoNode \notin Nodes
        /\ \A s \in Threads : phase[s] \in Waits => mine[s] \in Nodes
    BY QueuedSemaphoreAssumption DEF NodesInv, PlacesOK, FlagsOK, NumbersOK, References
  <1>3. CASE /\ prava_ > 0 /\ prava_' = prava_ - 1 /\ Goto(t, "held")
             /\ UNCHANGED <<mine, nodes>>
    <2>1. /\ phase'[t] = "held" /\ \A s \in Threads : s # t => phase'[s] = phase[s]
          /\ UNCHANGED <<mine, waiting>>
      BY <1>2, <1>3 DEF Goto, nodes
    <2>2. Owned' /\ LeftZero'
      BY <1>1, <2>1 DEF AccountInv, Owned, LeftZero, Waits
    <2>3. \A s \in Threads : IsGranted(s)' <=> IsGranted(s)
      BY <1>1, <2>1 DEF IsGranted, Waits
    <2>4. PermitsAccounted'
      <3> HIDE DEF IsGranted
      <3>1. One(IsGranted(t)') = One(IsGranted(t)) /\ One(phase[t] = "held") = 0
            /\ One(phase'[t] = "held") = 1
        BY <1>1, <2>1, <2>3 DEF One
      <3>2. One(IsGranted(t)) \in Nat /\ issued \in Int /\ lost \in Nat
        BY DEF One, NodesInv, NumbersOK
      <3>3. prava_' + One(phase'[t] = "held") + One(IsGranted(t)') + left'[t] + lost' - issued'
              = prava_ + One(phase[t] = "held") + One(IsGranted(t)) + left[t] + lost - issued
        BY <1>1, <1>2, <1>3, <3>1, <3>2
      <3> QED BY <1>1, <2>1, <2>3, <3>3, Balance DEF AccountInv
    <2> QED BY <2>2, <2>4 DEF AccountInv
  <1>4. ASSUME NEW n \in Unreferenced,
               mine' = [mine EXCEPT ![t] = n],
               waiting' = [waiting EXCEPT ![n] = TRUE],
               Goto(t, call), UNCHANGED prava_
        PROVE  AccountInv'
    <2>1. n \in Nodes /\ n \notin ToSet(wq_) /\ \A s \in Threads : mine[s] # n /\ hand[s] # n
      BY DEF Unreferenced
    <2>2. /\ phase'[t] = call /\ \A s \in Threads : s # t => phase'[s] = phase[s] /\ mine'[s] = mine[s]
          /\ \A x \in Nodes : x # n => waiting'[x] = waiting[x]
      BY <1>2, <1>4, <2>1 DEF Goto
    <2>3. Owned' /\ LeftZero'
      BY <1>1, <2>1, <2>2 DEF AccountInv, Owned, LeftZero, Waits, Calls
    <2>4. \A s \in Threads : IsGranted(s)' <=> IsGranted(s)
      BY <1>1, <1>2, <2>1, <2>2 DEF IsGranted, Waits, Calls
    <2>5. PermitsAccounted'
      <3>1. \A s \in Threads : phase'[s] = "held" <=> phase[s] = "held"
        BY <1>1, <2>2 DEF Calls
      <3> QED BY <1>1, <1>4, <2>4, <3>1, SameCounts DEF AccountInv
    <2> QED BY <2>3, <2>5 DEF AccountInv
  <1>5. QED BY <1>3, <1>4 DEF PreCheck

LEMMA RecheckAccount ==
  ASSUME Finite, NodesInv, NodesInv', AccountInv, NEW t \in Threads, NEW call \in Calls,
         Recheck(t, call)
  PROVE  AccountInv'
  <1>1. /\ phase[t] = call /\ UNCHANGED <<waiting, hand, left, issued, lost>>
    BY DEF Recheck, releasing, history
  <1>2. /\ phase \in [Threads -> Phases] /\ mine \in [Threads -> Nodes \cup {NoNode}]
        /\ wq_ \in Seq(Nodes) /\ prava_ \in Int /\ issued \in Int /\ lost \in Nat
        /\ left \in [Threads -> Nat] /\ NoNode \notin Nodes
        /\ \A s \in Threads : phase[s] \in Waits => mine[s] \in Nodes
    BY QueuedSemaphoreAssumption DEF NodesInv, PlacesOK, FlagsOK, NumbersOK, References
  <1>3. /\ mine[t] \in Nodes /\ waiting[mine[t]] = TRUE
        /\ \A s \in Threads : s # t => mine[s] # mine[t]
    BY <1>1, <1>2 DEF NodesInv, PlacesOK, References, Fresh, Calls
  <1>4. CASE /\ prava_ > 0 /\ prava_' = prava_ - 1 /\ Goto(t, "held")
             /\ mine' = [mine EXCEPT ![t] = NoNode] /\ UNCHANGED <<wq_, wait>>
    <2>1. /\ phase'[t] = "held"
          /\ \A s \in Threads : s # t => phase'[s] = phase[s] /\ mine'[s] = mine[s]
      BY <1>2, <1>4 DEF Goto
    <2>2. Owned' /\ LeftZero'
      BY <1>1, <1>4, <2>1 DEF AccountInv, Owned, LeftZero, Waits, Calls
    <2>3. \A s \in Threads : IsGranted(s)' <=> IsGranted(s)
      BY <1>1, <2>1 DEF IsGranted, Waits, Calls
    <2>4. PermitsAccounted'
      <3> HIDE DEF IsGranted
      <3>1. One(IsGranted(t)') = One(IsGranted(t)) /\ One(phase[t] = "held") = 0
            /\ One(phase'[t] = "held") = 1 /\ One(IsGranted(t)) \in Nat
        BY <1>1, <2>1, <2>3 DEF One, Calls
      <3>2. prava_' + One(phase'[t] = "held") + One(IsGranted(t)') + left'[t] + lost' - issued'
              = prava_ + One(phase[t] = "held") + One(IsGranted(t)) + left[t] + lost - issued
        BY <1>1, <1>2, <1>4, <3>1
      <3> QED BY <1>1, <2>1, <2>3, <3>2, Balance DEF AccountInv
    <2> QED BY <2>2, <2>4 DEF AccountInv
  <1>5. CASE /\ prava_ <= 0 /\ wq_' = Append(wq_, mine[t]) /\ Goto(t, WaitOf(call))
             /\ UNCHANGED <<prava_, mine>>
    <2>1. /\ phase'[t] \in Waits /\ \A s \in Threads : s # t => phase'[s] = phase[s]
      BY <1>2, <1>5 DEF Goto, Waits, WaitOf
    <2>2. ToSet(wq_') = ToSet(wq_) \cup {mine[t]}
      BY <1>2, <1>3, <1>5, AppendSet
    <2>3. Owned' /\ LeftZero'
      BY SMTT(30), <1>1, <1>2, <1>5, <2>1, <2>2 DEF AccountInv, Owned, LeftZero, Waits, Calls
    <2>4. \A s \in Threads : IsGranted(s)' <=> IsGranted(s)
      BY <1>1, <1>3, <1>5, <2>1 DEF IsGranted, Waits, Calls
    <2>5. PermitsAccounted'
      <3>1. \A s \in Threads : phase'[s] = "held" <=> phase[s] = "held"
        BY <1>1, <2>1 DEF Calls, Waits
      <3> QED BY <1>1, <1>5, <2>4, <3>1, SameCounts DEF AccountInv
    <2> QED BY <2>3, <2>5 DEF AccountInv
  <1> QED BY <1>4, <1>5 DEF Recheck

\* A thread leaves жди for good.  It takes the permit it was handed, if it was
\* handed one and this is not a timed wait that failed; `won` says so.
LEMMA ForgetAccount ==
  ASSUME Finite, NodesInv, NodesInv', AccountInv, NEW t \in Threads, phase[t] \in Waits,
         waiting' = [waiting EXCEPT ![mine[t]] = FALSE],
         mine' = [mine EXCEPT ![t] = NoNode],
         NEW p \in {"idle", "held"}, Goto(t, p), lost' \in Nat,
         lost' + One(p = "held") = lost + One(waiting[mine[t]] = FALSE),
         UNCHANGED <<prava_, wq_, hand, left, issued>>
  PROVE  AccountInv'
  <1>2. /\ phase \in [Threads -> Phases] /\ mine \in [Threads -> Nodes \cup {NoNode}]
        /\ prava_ \in Int /\ issued \in Int /\ lost \in Nat /\ waiting \in [Nodes -> BOOLEAN]
        /\ left \in [Threads -> Nat] /\ NoNode \notin Nodes
        /\ \A s \in Threads : phase[s] \in Waits => mine[s] \in Nodes
    BY ZenonT(60), QueuedSemaphoreAssumption DEF NodesInv, PlacesOK, FlagsOK, NumbersOK, References
  <1>3. /\ mine[t] \in Nodes /\ \A s \in Threads : s # t => mine[s] # mine[t]
    BY <1>2 DEF NodesInv, References
  <1>4. /\ phase'[t] = p /\ mine'[t] = NoNode
        /\ \A s \in Threads : s # t => phase'[s] = phase[s] /\ mine'[s] = mine[s]
        /\ \A n \in Nodes : waiting'[n] = IF n = mine[t] THEN FALSE ELSE waiting[n]
    BY <1>2, <1>3 DEF Goto
  <1>5. LeftZero'
    BY <1>4 DEF AccountInv, LeftZero, Waits
  <1>6. Owned'
    <2> SUFFICES ASSUME NEW n \in Nodes, waiting'[n] = TRUE,
                        n \in ToSet(wq_') \/ \E s \in Threads : hand'[s] = n
                 PROVE  \E s \in Threads : mine'[s] = n /\ phase'[s] \in Waits
      BY DEF Owned
    <2>1. n # mine[t] /\ waiting[n] = TRUE /\ wq_' = wq_ /\ hand' = hand
      BY <1>4
    <2>2. PICK s \in Threads : mine[s] = n /\ phase[s] \in Waits
      BY <2>1 DEF AccountInv, Owned
    <2> QED BY <1>4, <2>1, <2>2
  <1>7. \A s \in Threads : s # t => (IsGranted(s)' <=> IsGranted(s))
    BY <1>2, <1>3, <1>4 DEF IsGranted
  <1>8. PermitsAccounted'
    <2>1. /\ One(IsGranted(t)') = 0 /\ One(IsGranted(t)) = One(waiting[mine[t]] = FALSE)
          /\ One(phase[t] = "held") = 0 /\ One(phase'[t] = "held") = One(p = "held")
          /\ One(p = "held") \in Nat /\ One(waiting[mine[t]] = FALSE) \in Nat
      BY <1>4 DEF IsGranted, One, Waits
    <2> HIDE DEF IsGranted
    <2>2. prava_' + One(phase'[t] = "held") + One(IsGranted(t)') + left'[t] + lost' - issued'
            = prava_ + One(phase[t] = "held") + One(IsGranted(t)) + left[t] + lost - issued
      BY <1>2, <2>1
    <2> QED BY <1>4, <1>7, <2>2, Balance DEF AccountInv
  <1> QED BY <1>5, <1>6, <1>8 DEF AccountInv

LEMMA LeavesAccount ==
  ASSUME Finite, NodesInv, NodesInv', AccountInv, NEW t \in Threads,
         \/ \E call \in Calls : Passes(t, call)
         \/ GiveUp(t) \/ WaitFailed(t)
  PROVE  AccountInv'
  <1>1. /\ waiting \in [Nodes -> BOOLEAN] /\ lost \in Nat
        /\ phase[t] \in Waits => mine[t] \in Nodes
        /\ NoNode \notin Nodes
    BY QueuedSemaphoreAssumption DEF NodesInv, PlacesOK, FlagsOK, NumbersOK, References
  <1>2. ASSUME NEW call \in Calls, Passes(t, call) PROVE AccountInv'
    <2>1. /\ phase[t] \in Waits /\ waiting[mine[t]] = FALSE /\ Goto(t, "held")
          /\ mine' = [mine EXCEPT ![t] = NoNode]
          /\ UNCHANGED <<prava_, wq_, waiting, hand, left, issued, lost>>
      BY <1>1, <1>2 DEF Passes, Waits, Calls, WaitOf, semaphore, releasing, history
    <2>2. waiting' = [waiting EXCEPT ![mine[t]] = FALSE]
      BY <1>1, <2>1
    <2>3. lost' + One("held" = "held") = lost + One(waiting[mine[t]] = FALSE)
      BY <1>1, <2>1 DEF One
    <2> QED BY <1>1, <2>1, <2>2, <2>3, ForgetAccount
  <1>3. ASSUME GiveUp(t) \/ (WaitFailed(t) /\ waiting[mine[t]] = TRUE) PROVE AccountInv'
    <2>1. /\ phase[t] \in Waits /\ waiting[mine[t]] = TRUE /\ Goto(t, "idle")
          /\ mine' = [mine EXCEPT ![t] = NoNode]
          /\ waiting' = [waiting EXCEPT ![mine[t]] = FALSE]
          /\ UNCHANGED <<prava_, wq_, hand, left, issued, lost>>
      BY <1>1, <1>3 DEF GiveUp, WaitFailed, Withdraw, Waits, semaphore, releasing, history
    <2>2. lost' + One("idle" = "held") = lost + One(waiting[mine[t]] = FALSE)
      BY <1>1, <2>1 DEF One
    <2> QED BY <1>1, <2>1, <2>2, ForgetAccount
  <1>4. ASSUME WaitFailed(t), waiting[mine[t]] = FALSE PROVE AccountInv'
    <2>1. /\ phase[t] \in Waits
          /\ Goto(t, IF phase[t] = "acquireWait" THEN "held" ELSE "idle")
          /\ lost' = lost + IF phase[t] = "attemptWait" THEN 1 ELSE 0
          /\ mine' = [mine EXCEPT ![t] = NoNode]
          /\ UNCHANGED <<prava_, wq_, waiting, hand, left, issued>>
      BY <1>1, <1>4 DEF WaitFailed, Waits, semaphore, releasing
    <2>2. waiting' = [waiting EXCEPT ![mine[t]] = FALSE] /\ lost' \in Nat
      BY <1>1, <1>4, <2>1
    <2>3. CASE phase[t] = "acquireWait"
      <3>1. lost' + One("held" = "held") = lost + One(waiting[mine[t]] = FALSE)
        BY <1>1, <1>4, <2>1, <2>3 DEF One
      <3> QED BY <2>1, <2>2, <2>3, <3>1, ForgetAccount
    <2>4. CASE phase[t] = "attemptWait"
      <3>1. lost' + One("idle" = "held") = lost + One(waiting[mine[t]] = FALSE)
        BY <1>1, <1>4, <2>1, <2>4 DEF One
      <3> QED BY <2>1, <2>2, <2>4, <3>1, ForgetAccount
    <2> QED BY <2>1, <2>3, <2>4 DEF Waits
  <1>5. WaitFailed(t) => waiting[mine[t]] = TRUE \/ waiting[mine[t]] = FALSE
    BY <1>1 DEF WaitFailed, Waits
  <1> QED BY <1>2, <1>3, <1>4, <1>5

\* Steps that only move a thread within жди.
LEMMA InWaitAccount ==
  ASSUME Finite, NodesInv, NodesInv', AccountInv, NEW t \in Threads,
         KernelStep(t) \/ \E call \in Calls : WaitAgain(t, call)
  PROVE  AccountInv'
  <1>1. UNCHANGED <<prava_, wq_, waiting, phase, mine, hand, left, issued, lost>>
    BY DEF KernelStep, WaitAgain, semaphore, releasing, history
  <1>2. Owned' /\ LeftZero'
    BY <1>1 DEF AccountInv, Owned, LeftZero
  <1>3. \A s \in Threads : IsGranted(s)' <=> IsGranted(s)
    BY <1>1 DEF IsGranted
  <1>4. PermitsAccounted'
    BY <1>1, <1>3, SameCounts DEF AccountInv
  <1> QED BY <1>2, <1>4 DEF AccountInv

\* Steps of a release: t's share of the permits, and at most one node's flag.
LEMMA ReleaseAccount ==
  ASSUME Finite, NodesInv, NodesInv', AccountInv, NEW t \in Threads,
         Release(t) \/ \E n \in 1..(MaxIssued - issued) : ReleaseN(t, n)
  PROVE  AccountInv'
  <1>1. /\ phase \in [Threads -> Phases] /\ left \in [Threads -> Nat]
        /\ prava_ \in Int /\ issued \in Int /\ lost \in Nat /\ MaxIssued \in Int
    BY QueuedSemaphoreAssumption DEF NodesInv, PlacesOK, NumbersOK
  <1>2. /\ UNCHANGED <<prava_, wq_, waiting, mine, hand, lost>> /\ Goto(t, "release")
        /\ phase[t] \in {"idle", "held"}
        /\ \A s \in Threads : s # t => left'[s] = left[s]
        /\ left'[t] + One(phase'[t] = "held") - issued'
             = left[t] + One(phase[t] = "held") - issued
    <2>1. left[t] = 0 /\ (Goto(t, "release") => phase'[t] = "release")
      BY <1>1 DEF AccountInv, LeftZero, Release, ReleaseN, Goto
    <2> QED BY <1>1, <2>1 DEF Release, ReleaseN, semaphore, nodes, history, One
  <1>3. phase'[t] = "release" /\ \A s \in Threads : s # t => phase'[s] = phase[s]
    BY <1>1, <1>2 DEF Goto
  <1>4. Owned' /\ LeftZero'
    BY <1>2, <1>3 DEF AccountInv, Owned, LeftZero, Waits
  <1>5. \A s \in Threads : IsGranted(s)' <=> IsGranted(s)
    BY <1>2, <1>3 DEF IsGranted, Waits
  <1>6. PermitsAccounted'
    <2> HIDE DEF IsGranted
    <2>1. One(IsGranted(t)') = One(IsGranted(t)) /\ One(IsGranted(t)) \in Nat
          /\ One(phase[t] = "held") \in Nat /\ One(phase'[t] = "held") \in Nat
          /\ left'[t] \in Nat /\ left[t] \in Nat /\ issued' \in Int
      BY <1>5 DEF One, NodesInv, NumbersOK
    <2>2. prava_' + One(phase'[t] = "held") + One(IsGranted(t)') + left'[t] + lost' - issued'
            = prava_ + One(phase[t] = "held") + One(IsGranted(t)) + left[t] + lost - issued
      BY <1>1, <1>2, <2>1
    <2> QED BY <1>2, <1>3, <1>5, <2>2, Balance DEF AccountInv
  <1> QED BY <1>4, <1>6 DEF AccountInv

LEMMA GetSignallerAccount ==
  ASSUME Finite, NodesInv, NodesInv', AccountInv, NEW t \in Threads, GetSignaller(t)
  PROVE  AccountInv'
  <1>1. /\ phase \in [Threads -> Phases] /\ left \in [Threads -> Nat]
        /\ hand \in [Threads -> Nodes \cup {NoNode}] /\ wq_ \in Seq(Nodes) /\ IsInjective(wq_)
        /\ prava_ \in Int /\ issued \in Int /\ lost \in Nat
    BY DEF NodesInv, PlacesOK, NumbersOK
  <1>2. phase[t] = "release" /\ UNCHANGED <<waiting, mine, issued, lost>>
    BY DEF GetSignaller, nodes, history
  <1>3. \A s \in Threads : s # t => phase'[s] = phase[s] /\ left'[s] = left[s]
    BY <1>1 DEF GetSignaller, Done, Goto
  <1>4. phase'[t] \in {"idle", "release", "signal"}
    BY <1>1 DEF GetSignaller, Done, Goto
  <1>5. \A s \in Threads : IsGranted(s)' <=> IsGranted(s)
    BY <1>2, <1>3, <1>4 DEF IsGranted, Waits
  <1>6. CASE wq_ = <<>> /\ prava_' = prava_ + 1 /\ Done(t) /\ UNCHANGED <<wq_, hand>>
    <2>1. /\ left'[t] = left[t] - 1 /\ phase'[t] # "signal"
          /\ left[t] = 1 <=> phase'[t] = "idle"
      BY <1>1, <1>6 DEF Done, Goto
    <2>2. Owned' /\ LeftZero'
      BY <1>1, <1>2, <1>3, <1>4, <1>6, <2>1 DEF AccountInv, Owned, LeftZero, Waits
    <2>3. PermitsAccounted'
      <3> HIDE DEF IsGranted
      <3>1. /\ One(IsGranted(t)') = One(IsGranted(t)) /\ One(IsGranted(t)) \in Nat
            /\ One(phase[t] = "held") = 0 /\ One(phase'[t] = "held") = 0 /\ left[t] \in Nat
        BY <1>1, <1>2, <1>4, <1>5 DEF One
      <3>2. prava_' + One(phase'[t] = "held") + One(IsGranted(t)') + left'[t] + lost' - issued'
              = prava_ + One(phase[t] = "held") + One(IsGranted(t)) + left[t] + lost - issued
        BY <1>1, <1>2, <1>6, <2>1, <3>1
      <3> QED BY <1>3, <1>5, <3>2, Balance DEF AccountInv
    <2> QED BY <2>2, <2>3 DEF AccountInv
  <1>7. CASE /\ wq_ # <<>> /\ wq_' = Tail(wq_) /\ hand' = [hand EXCEPT ![t] = Head(wq_)]
             /\ Goto(t, "signal") /\ UNCHANGED <<prava_, left>>
    <2>1. /\ Head(wq_) \in ToSet(wq_) /\ ToSet(wq_') = ToSet(wq_) \ {Head(wq_)}
      BY <1>1, <1>7, TailSet
    <2>2. /\ phase'[t] = "signal" /\ hand'[t] = Head(wq_)
          /\ \A s \in Threads : s # t => hand'[s] = hand[s]
      BY <1>1, <1>7 DEF Goto
    <2>3. Owned'
      <3> SUFFICES ASSUME NEW n \in Nodes, waiting'[n] = TRUE,
                          n \in ToSet(wq_') \/ \E s \in Threads : hand'[s] = n
                   PROVE  \E s \in Threads : mine'[s] = n /\ phase'[s] \in Waits
        BY DEF Owned
      <3>1. n \in ToSet(wq_) \/ \E s \in Threads : hand[s] = n
        BY <2>1, <2>2
      <3>2. PICK s \in Threads : mine[s] = n /\ phase[s] \in Waits
        BY <1>2, <3>1 DEF AccountInv, Owned
      <3> QED BY <1>2, <1>3, <3>2 DEF Waits
    <2>4. LeftZero'
      BY <1>3, <1>7, <2>2 DEF AccountInv, LeftZero
    <2>5. PermitsAccounted'
      <3>1. \A s \in Threads : phase'[s] = "held" <=> phase[s] = "held"
        BY <1>2, <1>3, <2>2
      <3> QED BY <1>2, <1>5, <1>7, <3>1, SameCounts DEF AccountInv
    <2> QED BY <2>3, <2>4, <2>5 DEF AccountInv
  <1> QED BY <1>6, <1>7 DEF GetSignaller

LEMMA SignalAccount ==
  ASSUME Finite, NodesInv, NodesInv', AccountInv, NEW t \in Threads, Signal(t)
  PROVE  AccountInv'
  <1> DEFINE n == hand[t]
  <1>1. /\ phase \in [Threads -> Phases] /\ left \in [Threads -> Nat]
        /\ hand \in [Threads -> Nodes \cup {NoNode}] /\ mine \in [Threads -> Nodes \cup {NoNode}]
        /\ prava_ \in Int /\ issued \in Int /\ lost \in Nat /\ waiting \in [Nodes -> BOOLEAN]
        /\ NoNode \notin Nodes
    BY QueuedSemaphoreAssumption DEF NodesInv, PlacesOK, FlagsOK, NumbersOK
  <1>2. /\ phase[t] = "signal" /\ UNCHANGED <<prava_, wq_, mine, issued>> /\ Done(t)
        /\ waiting' = [waiting EXCEPT ![n] = FALSE]
        /\ hand' = [hand EXCEPT ![t] = NoNode]
        /\ lost' = lost + IF waiting[n] THEN 0 ELSE 1
    BY DEF Signal, semaphore
  <1>3. n \in Nodes /\ \A s \in Threads : s # t => hand[s] # n
    BY <1>1, <1>2 DEF NodesInv, References
  <1>4. /\ left'[t] = left[t] - 1 /\ phase'[t] \in {"idle", "release"}
        /\ left[t] = 1 <=> phase'[t] = "idle"
        /\ \A s \in Threads : s # t => phase'[s] = phase[s] /\ left'[s] = left[s]
        /\ hand'[t] = NoNode /\ \A s \in Threads : s # t => hand'[s] = hand[s]
        /\ \A x \in Nodes : waiting'[x] = IF x = n THEN FALSE ELSE waiting[x]
    BY <1>1, <1>2, <1>3 DEF Done, Goto
  <1>5. n \notin ToSet(wq_)
    BY DEF NodesInv, References
  <1>6. Owned'
    <2> SUFFICES ASSUME NEW x \in Nodes, waiting'[x] = TRUE,
                        x \in ToSet(wq_') \/ \E s \in Threads : hand'[s] = x
                 PROVE  \E s \in Threads : mine'[s] = x /\ phase'[s] \in Waits
      BY DEF Owned
    <2>1. x # n /\ waiting[x] = TRUE /\ wq_' = wq_
      BY <1>2, <1>4
    <2>2. x \in ToSet(wq_) \/ \E s \in Threads : hand[s] = x
      BY <1>1, <1>4, <2>1
    <2>3. PICK s \in Threads : mine[s] = x /\ phase[s] \in Waits
      BY <2>1, <2>2 DEF AccountInv, Owned
    <2> QED BY <1>2, <1>4, <2>3 DEF Waits
  <1>7. LeftZero'
    BY <1>4 DEF AccountInv, LeftZero
  <1>8. \A s \in Threads : phase[s] \in Waits => mine[s] \in Nodes
    BY <1>1 DEF NodesInv, References
  <1>9. \A s \in Threads : mine[s] # n => (IsGranted(s)' <=> IsGranted(s))
    BY <1>2, <1>4, <1>8 DEF IsGranted, Waits
  <1>10. /\ One(phase[t] = "held") = 0 /\ One(phase'[t] = "held") = 0 /\ left[t] \in Nat
    BY <1>1, <1>2, <1>4 DEF One
  <1>11. CASE waiting[n] = TRUE
    <2>1. PICK u \in Threads : mine[u] = n /\ phase[u] \in Waits
      BY <1>3, <1>11 DEF AccountInv, Owned
    <2>2. \A s \in Threads : s # u => mine[s] # n
      BY <1>1, <1>3, <2>1 DEF NodesInv, References
    <2>3. u # t
      BY <1>2, <2>1 DEF Waits
    <2>4. One(IsGranted(u)) = 0 /\ One(IsGranted(u)') = 1
      BY <1>2, <1>3, <1>4, <1>11, <2>1, <2>3 DEF IsGranted, One
    <2>5. prava_' + One(phase'[t] = "held") + One(IsGranted(u)') + left'[t] + lost' - issued'
            = prava_ + One(phase[t] = "held") + One(IsGranted(u)) + left[t] + lost - issued
      BY <1>1, <1>2, <1>4, <1>10, <1>11, <2>4
    <2> HIDE DEF IsGranted
    <2>6. PermitsAccounted'
      BY <1>4, <1>9, <2>2, <2>5, Balance DEF AccountInv
    <2> QED BY <1>6, <1>7, <2>6 DEF AccountInv
  <1>12. CASE waiting[n] = FALSE
    <2>1. \A s \in Threads : IsGranted(s)' <=> IsGranted(s)
      BY <1>2, <1>3, <1>4, <1>8, <1>12 DEF IsGranted, Waits
    <2> HIDE DEF IsGranted
    <2>2. One(IsGranted(t)') = One(IsGranted(t)) /\ One(IsGranted(t)) \in Nat
      BY <2>1 DEF One
    <2>3. prava_' + One(phase'[t] = "held") + One(IsGranted(t)') + left'[t] + lost' - issued'
            = prava_ + One(phase[t] = "held") + One(IsGranted(t)) + left[t] + lost - issued
      BY <1>1, <1>2, <1>4, <1>10, <1>12, <2>2
    <2>4. PermitsAccounted'
      BY <1>4, <2>1, <2>3, Balance DEF AccountInv
    <2> QED BY <1>6, <1>7, <2>4 DEF AccountInv
  <1> QED BY <1>1, <1>3, <1>11, <1>12

LEMMA AccountInit == Finite /\ Init => AccountInv
  <1> SUFFICES ASSUME Finite, Init PROVE AccountInv
    OBVIOUS
  <1>1. Holders = {} /\ Granted = {}
    BY DEF Init, Holders, Granted, InWait
  <1>2. Cardinality({}) = 0
    BY FS_EmptySet
  <1>3. Returning = 0
    <2>1. left \in [Threads -> Int] /\ \A s \in Threads : left[s] = 0
      BY DEF Init
    <2> QED BY <2>1, ReturningIs, TotalType DEF Finite
  <1>4. PermitsAccounted
    BY <1>1, <1>2, <1>3, QueuedSemaphoreAssumption DEF Init, PermitsAccounted, Count
  <1>5. Owned /\ LeftZero
    BY DEF Init, Owned, LeftZero
  <1> QED BY <1>4, <1>5 DEF AccountInv

LEMMA AccountNext ==
  Finite /\ NodesInv /\ NodesInv' /\ AccountInv /\ [Next]_vars => AccountInv'
  <1> SUFFICES ASSUME Finite, NodesInv, NodesInv', AccountInv, [Next]_vars PROVE AccountInv'
    OBVIOUS
  <1>1. ASSUME NEW t \in Threads, Acquire(t) \/ Attempt(t)
        PROVE  AccountInv'
    BY <1>1, PreCheckAccount, RecheckAccount, LeavesAccount, InWaitAccount
       DEF Acquire, Attempt, Calls
  <1>2. CASE UNCHANGED vars
    <2>1. UNCHANGED <<prava_, wq_, waiting, phase, mine, hand, left, issued, lost>>
      BY <1>2 DEF vars
    <2>2. Owned' /\ LeftZero'
      BY <2>1 DEF AccountInv, Owned, LeftZero
    <2>3. \A s \in Threads : IsGranted(s)' <=> IsGranted(s)
      BY <2>1 DEF IsGranted
    <2> QED BY <2>1, <2>2, <2>3, SameCounts DEF AccountInv
  <1> QED
    BY <1>1, <1>2, LeavesAccount, InWaitAccount, ReleaseAccount, GetSignallerAccount,
       SignalAccount DEF Next

(* Every permit ever issued is available, held, handed over, on its way     *)
(* through отпусти, or was given to a node whose thread had left: nothing   *)
(* else happens to a permit, however timeouts, failed waits and handovers   *)
(* meet.                                                                    *)
THEOREM Accounting == ASSUME Finite PROVE Spec => []PermitsAccounted
  <1>1. AccountInv => PermitsAccounted
    BY DEF AccountInv
  <1> QED BY <1>1, NodesInit, NodesNext, AccountInit, AccountNext, PTL DEF Spec

------------------------------------------------------------------------------
\* With a negative seed the first permit given back goes to the first in the
\* queue although the sum of the permits is still negative.
NonNegative == Seeds \subseteq Nat

ContractInv == NodesInv /\ AccountInv /\ prava_ \in Nat

LEMMA CountedInit == Finite /\ NonNegative /\ Init => ContractInv
  BY NodesInit, AccountInit DEF ContractInv, NonNegative, Init

LEMMA NeverNegative == prava_ \in Nat /\ [Next]_vars => prava_' \in Nat
  <1> SUFFICES ASSUME prava_ \in Nat, [Next]_vars PROVE prava_' \in Nat
    OBVIOUS
  <1> USE DEF semaphore
  <1>1. ASSUME NEW t \in Threads, Acquire(t) \/ Attempt(t) PROVE prava_' \in Nat
    BY <1>1 DEF Acquire, Attempt, PreCheck, Recheck, Passes, WaitAgain, GiveUp
  <1>2. ASSUME NEW t \in Threads, WaitFailed(t) \/ KernelStep(t) \/ Release(t) \/ Signal(t)
        PROVE  prava_' \in Nat
    BY <1>2 DEF WaitFailed, KernelStep, Release, Signal
  <1>3. ASSUME NEW t \in Threads, GetSignaller(t) PROVE prava_' \in Nat
    BY <1>3 DEF GetSignaller
  <1>4. ASSUME NEW t \in Threads, NEW n, ReleaseN(t, n) PROVE prava_' \in Nat
    BY <1>4 DEF ReleaseN
  <1>5. CASE UNCHANGED vars
    BY <1>5 DEF vars
  <1> QED BY <1>1, <1>2, <1>3, <1>4, <1>5 DEF Next

LEMMA CountedNext == Finite /\ ContractInv /\ [Next]_vars => ContractInv'
  <1> SUFFICES ASSUME Finite, ContractInv, [Next]_vars PROVE ContractInv'
    OBVIOUS
  <1>1. NodesInv' /\ AccountInv'
    BY NodesNext, AccountNext DEF ContractInv
  <1> QED BY <1>1, NeverNegative DEF ContractInv

\* What the contract calls the phase of a thread.
Called(p) == CASE p = "acquireWait" -> "acquire"
               [] p = "attemptWait" -> "attempt"
               [] p \in {"release", "signal"} -> "idle"
               [] OTHER -> p

LEMMA CalledGoto ==
  ASSUME phase \in [Threads -> Phases], NEW t \in Threads, NEW p, Goto(t, p)
  PROVE  [s \in Threads |-> Called(phase'[s])]
           = [[s \in Threads |-> Called(phase[s])] EXCEPT ![t] = Called(p)]
  BY DEF Goto

\* How a step of one thread changes the number of holders.
LEMMA GotoHolders ==
  ASSUME Finite, phase \in [Threads -> Phases], NEW t \in Threads, NEW p, Goto(t, p)
  PROVE  /\ Count(Holders) \in Nat /\ Count(Holders') \in Nat
         /\ Count(Holders') + One(phase[t] = "held") = Count(Holders) + One(p = "held")
  <1>1. /\ Holders \subseteq Threads /\ Holders' \subseteq Threads
        /\ (t \in Holders <=> phase[t] = "held") /\ (t \in Holders' <=> p = "held")
        /\ \A s \in Threads : s # t => (s \in Holders <=> s \in Holders')
    BY DEF Holders, Goto
  <1> HIDE DEF Holders
  <1>2. One(t \in Holders) = One(phase[t] = "held") /\ One(t \in Holders') = One(p = "held")
    BY <1>1 DEF One
  <1>3. /\ Cardinality(Holders) \in Nat /\ Cardinality(Holders') \in Nat
        /\ Cardinality(Holders') + One(t \in Holders) = Cardinality(Holders) + One(t \in Holders')
    BY <1>1, CountMoves DEF Finite
  <1> QED BY <1>2, <1>3 DEF Count

\* A thread that takes a permit finds fewer holders than permits.
LEMMA RoomForOne ==
  ASSUME Finite, ContractInv, prava_ > 0 \/ \E t \in Threads : IsGranted(t)
  PROVE  Count(Holders) < issued
  <1>1. /\ Count(Holders) \in Nat /\ Count(Granted) \in Nat /\ Returning \in Nat
        /\ prava_ \in Nat /\ issued \in Int /\ lost \in Nat
        /\ prava_ + Count(Holders) + Count(Granted) + Returning + lost = issued
    BY PartsAreNumbers DEF ContractInv, AccountInv, PermitsAccounted
  <1>2. CASE prava_ > 0
    BY <1>1, <1>2
  <1>3. ASSUME NEW t \in Threads, IsGranted(t) PROVE Count(Holders) < issued
    <2>1. t \in Granted /\ Granted \subseteq Threads
      BY <1>3, GrantedIs DEF ContractInv
    <2>2. Count(Granted) # 0
      BY <2>1, FS_Subset, FS_EmptySet DEF Count, Finite
    <2> QED BY <1>1, <2>2
  <1> QED BY <1>2, <1>3

LEMMA StepKeepsContract ==
  Finite /\ ContractInv /\ [Next]_vars => Contract!Next \/ UNCHANGED Contract!vars
  <1> SUFFICES ASSUME Finite, ContractInv, [Next]_vars
               PROVE  Contract!Next \/ UNCHANGED Contract!vars
    OBVIOUS
  <1> DEFINE called == [s \in Threads |-> Called(phase[s])]
             passed == Count(Holders)
             OK == Contract!Next \/ UNCHANGED Contract!vars
  <1>0. /\ phase \in [Threads -> Phases] /\ issued \in Int
        /\ \A t \in Threads : phase[t] \in Waits => mine[t] \in Nodes
        /\ waiting \in [Nodes -> BOOLEAN] /\ NoNode \notin Nodes
    BY QueuedSemaphoreAssumption
    DEF ContractInv, NodesInv, PlacesOK, NumbersOK, FlagsOK, References
  <1>1. ASSUME UNCHANGED <<phase, issued>>
        PROVE  OK
    <2>1. called' = called /\ Holders' = Holders
      BY <1>1 DEF Called, Holders
    <2> QED BY <1>1, <2>1 DEF Contract!vars, called, Called, Count
  <1>2. ASSUME NEW t \in Threads, Goto(t, "held"), UNCHANGED issued,
               phase[t] \notin {"held", "release", "signal"}, passed < issued
        PROVE  OK
    <2>1. called' = [called EXCEPT ![t] = "held"]
          /\ called[t] \in {"idle", "acquire", "attempt"}
      BY <1>0, <1>2, CalledGoto DEF Called, Phases
    <2>2. passed' = passed + 1
      BY <1>0, <1>2, GotoHolders DEF One
    <2>3. Contract!Pass(t)
      BY <1>2, <2>1, <2>2 DEF Contract!Pass, Contract!Goto, called, Called
    <2> QED BY <2>3 DEF Contract!Next
  <1>3. ASSUME NEW t \in Threads, NEW p \in Phases \ {"held"}, Goto(t, p), UNCHANGED issued,
               phase[t] # "held"
        PROVE  passed' = passed /\ called' = [called EXCEPT ![t] = Called(p)]
    BY <1>0, <1>3, GotoHolders, CalledGoto DEF One
  <1>4. ASSUME NEW t \in Threads, NEW call \in Calls, Goto(t, call), UNCHANGED issued,
               phase[t] = "idle"
        PROVE  OK
    <2>1. called[t] = "idle" /\ Called(call) = call /\ call \in Phases \ {"held"}
      BY <1>4 DEF Called, Calls, Phases
    <2>2. Contract!Call(t)
      BY <1>3, <1>4, <2>1 DEF Contract!Call, Contract!Goto, called, Called, Calls
    <2> QED BY <2>2 DEF Contract!Next
  <1>5. ASSUME NEW t \in Threads, Goto(t, "idle"), UNCHANGED issued, phase[t] \in Waits
        PROVE  OK
    <2>1. called[t] \in {"acquire", "attempt"} /\ Called("idle") = "idle"
          /\ phase[t] # "held" /\ "idle" \in Phases \ {"held"}
      BY <1>5 DEF Called, Waits, Phases
    <2>2. Contract!Fail(t)
      BY <1>3, <1>5, <2>1 DEF Contract!Fail, Contract!Goto, called, Called
    <2> QED BY <2>2 DEF Contract!Next
  \* The contract sees no difference.
  <1>6. ASSUME NEW t \in Threads, NEW p \in Phases \ {"held"}, Goto(t, p), UNCHANGED issued,
               phase[t] # "held", Called(p) = Called(phase[t])
        PROVE  OK
    <2>1. called' = called /\ passed' = passed
      BY <1>3, <1>6, <1>0
    <2> QED BY <1>6, <2>1 DEF Contract!vars, called, Called
  <1>7. ASSUME NEW t \in Threads, Release(t)
        PROVE  OK
    <2>1. called' = [called EXCEPT ![t] = "idle"] /\ called[t] = "held"
      BY <1>0, <1>7, CalledGoto DEF Called, Release
    <2>2. passed' = passed - 1
      BY <1>0, <1>7, GotoHolders DEF Release, One
    <2>3. Contract!Release(t)
      BY <1>7, <2>1, <2>2 DEF Release, history, Contract!Release, Contract!Goto, called, Called
    <2> QED BY <2>3 DEF Contract!Next
  <1>8. ASSUME NEW t \in Threads, NEW n \in 1..(MaxIssued - issued), ReleaseN(t, n)
        PROVE  OK
    <2>1. called' = called
      <3>1. called' = [called EXCEPT ![t] = "idle"] /\ called[t] = "idle"
        BY <1>0, <1>8, CalledGoto DEF Called, ReleaseN
      <3> QED BY <3>1
    <2>2. passed' = passed
      BY <1>0, <1>8, GotoHolders DEF ReleaseN, One
    <2>3. issued' \in Int /\ issued' > issued
      BY <1>0, <1>8, QueuedSemaphoreAssumption DEF ReleaseN
    <2>4. Contract!Donate
      BY <2>1, <2>2, <2>3 DEF Contract!Donate, called, Called
    <2> QED BY <2>4 DEF Contract!Next
  <1> HIDE DEF OK, called, passed
  <1>9. ASSUME NEW t \in Threads, NEW call \in Calls, PreCheck(t, call)
        PROVE  OK
    <2>1. UNCHANGED issued /\ phase[t] = "idle"
      BY <1>9 DEF PreCheck, history
    <2>2. CASE prava_ > 0 /\ Goto(t, "held")
      BY <2>1, <2>2, <1>2, RoomForOne DEF passed
    <2>3. CASE Goto(t, call)
      BY <2>1, <2>3, <1>4
    <2> QED BY <1>9, <2>2, <2>3 DEF PreCheck
  <1>10. ASSUME NEW t \in Threads, NEW call \in Calls, Recheck(t, call)
         PROVE  OK
    <2>1. UNCHANGED issued /\ phase[t] = call
      BY <1>10 DEF Recheck, history
    <2>2. CASE prava_ > 0 /\ Goto(t, "held")
      BY <2>1, <2>2, <1>2, RoomForOne DEF passed, Calls
    <2>3. CASE Goto(t, WaitOf(call))
      <3>1. WaitOf(call) \in Phases \ {"held"} /\ Called(WaitOf(call)) = Called(call)
            /\ call # "held"
        BY DEF WaitOf, Calls, Phases, Called
      <3> QED BY <2>1, <2>3, <3>1, <1>6
    <2> QED BY <1>10, <2>2, <2>3 DEF Recheck
  <1>11. ASSUME NEW t \in Threads, IsGranted(t), Goto(t, "held"), UNCHANGED issued
         PROVE  OK
    <2>1. passed < issued /\ phase[t] \in Waits
      BY <1>11, RoomForOne DEF passed, IsGranted
    <2> QED BY <1>11, <2>1, <1>2 DEF Waits
  <1>12. ASSUME NEW t \in Threads, NEW call \in Calls, Passes(t, call)
         PROVE  OK
    <2>1. IsGranted(t) /\ Goto(t, "held") /\ UNCHANGED issued
      BY <1>0, <1>12 DEF Passes, WaitOf, Calls, Waits, IsGranted, history
    <2> QED BY <2>1, <1>11
  <1>13. ASSUME NEW t \in Threads, GiveUp(t) \/ WaitFailed(t)
         PROVE  OK
    <2>1. phase[t] \in Waits /\ UNCHANGED issued
      BY <1>13 DEF GiveUp, WaitFailed, Waits, history
    <2>2. CASE Goto(t, "idle")
      BY <2>1, <2>2, <1>5
    <2>3. CASE Goto(t, "held") /\ IsGranted(t)
      BY <2>1, <2>3, <1>11
    <2>4. \/ Goto(t, "idle") \/ (Goto(t, "held") /\ IsGranted(t))
      <3>1. CASE GiveUp(t)
        BY <3>1 DEF GiveUp, Withdraw
      <3>2. CASE WaitFailed(t) /\ waiting[mine[t]]
        BY <1>0, <2>1, <3>2 DEF WaitFailed, Withdraw
      <3>3. CASE WaitFailed(t) /\ ~waiting[mine[t]]
        <4>1. waiting[mine[t]] = FALSE
          BY <1>0, <2>1, <3>3
        <4>2. IsGranted(t)
          BY <2>1, <4>1 DEF IsGranted
        <4>3. Goto(t, IF phase[t] = "acquireWait" THEN "held" ELSE "idle")
          BY <3>3 DEF WaitFailed
        <4> QED BY <4>2, <4>3
      <3> QED BY <1>13, <3>1, <3>2, <3>3
    <2> QED BY <2>2, <2>3, <2>4
  <1>14. ASSUME NEW t \in Threads, GetSignaller(t) \/ Signal(t)
         PROVE  OK
    <2>1. phase[t] \in {"release", "signal"} /\ UNCHANGED issued
      BY <1>14 DEF GetSignaller, Signal, history
    <2>2. PICK p \in {"idle", "release", "signal"} : Goto(t, p)
      BY <1>14 DEF GetSignaller, Signal, Done
    <2>3. p \in Phases \ {"held"} /\ Called(p) = "idle" /\ Called(phase[t]) = "idle"
      BY <2>1 DEF Phases, Called
    <2> QED BY <2>1, <2>2, <2>3, <1>6
  <1>15. ASSUME NEW t \in Threads,
                KernelStep(t) \/ \E call \in Calls : WaitAgain(t, call)
         PROVE  OK
    BY <1>15, <1>1 DEF KernelStep, WaitAgain, releasing, history
  <1>16. ASSUME UNCHANGED vars PROVE OK
    BY <1>16, <1>1 DEF vars
  <1>17. ASSUME NEW t \in Threads, Acquire(t) \/ Attempt(t)
         PROVE  OK
    BY <1>17, <1>9, <1>10, <1>12, <1>13, <1>15 DEF Acquire, Attempt, Calls
  <1>18. OK
    BY <1>7, <1>8, <1>13, <1>14, <1>15, <1>16, <1>17 DEF Next
  <1> QED BY <1>18 DEF OK

(* With a seed that is not negative no more threads pass than there are     *)
(* permits: every behaviour of the queue, its handovers and withdrawals is  *)
(* one of the contract of Синх.                                             *)
THEOREM ContractKept == ASSUME Finite, NonNegative PROVE Spec => KeepsContract
  <1>1. Init => Contract!Init
    <2> SUFFICES ASSUME Init PROVE Contract!Init
      OBVIOUS
    <2>1. Holders = {}
      BY DEF Init, Holders
    <2>2. Count(Holders) = 0
      BY <2>1, FS_EmptySet DEF Count
    <2> QED BY <2>2, QueuedSemaphoreAssumption DEF Init, Contract!Init
  <1>2. ContractInv /\ [Next]_vars => [Contract!Next]_(Contract!vars)
    BY StepKeepsContract
  <1>3. Init => ContractInv
    BY CountedInit
  <1>4. ContractInv /\ [Next]_vars => ContractInv'
    BY CountedNext
  <1> QED BY <1>1, <1>2, <1>3, <1>4, PTL DEF Spec, KeepsContract, Contract!Spec

------------------------------------------------------------------------------
\* The lock does nothing to its entry but call it.
LEMMA LockUsesEntry == UseNext => [Next]_vars
  <1>1. ASSUME NEW t \in Threads, NEW for \in {"read", "write", "tryWrite"}, Begin(t, for)
        PROVE  Next
    BY <1>1 DEF Begin, Next, Acquire, Attempt
  <1>2. ASSUME NEW t \in Threads, EntryStep(t)
        PROVE  Next
    BY <1>2 DEF EntryStep, Next, Acquire, Attempt
  <1>3. ASSUME NEW t \in Threads, Leave(t) \/ CountIn(t)
        PROVE  Next
    BY <1>3 DEF Leave, CountIn, Next
  <1>4. ASSUME NEW t \in Threads, GiveUpWrite(t) \/ WriteFailed(t) \/ EndWrite(t)
        PROVE  Next
    BY <1>3, <1>4 DEF GiveUpWrite, WriteFailed, EndWrite
  <1>5. ASSUME NEW t \in Threads,
               EndRead(t) \/ Look(t) \/ StartWrite(t) \/ AwaitReaders(t) \/ LockKernelStep(t)
        PROVE  UNCHANGED vars
    BY <1>5 DEF EndRead, Look, StartWrite, AwaitReaders, LockKernelStep, entryVars
  <1> QED
    BY <1>1, <1>2, <1>3, <1>4, <1>5 DEF UseNext, LockNext

(* The lock, or whoever has the semaphore alone, uses it only through its   *)
(* operations: every behaviour of the composition is one of the semaphore,  *)
(* so all that is shown of the semaphore holds at the entry of the lock.    *)
THEOREM EntryIsSemaphore == UseSpec => Spec
  <1>1. LockInit => Init
    BY DEF LockInit
  <1>2. [UseNext]_<<entryVars, lockVars>> => [Next]_vars
    BY LockUsesEntry DEF entryVars
  <1> QED BY <1>1, <1>2, PTL DEF UseSpec, Spec

Counter == 0..(Wrap - 1)

LEMMA IncrementedOK ==
  ASSUME NEW n \in Counter
  PROVE  Incremented(n) \in Counter
  BY FIFOAssumption DEF Incremented, Counter

LockParts ==
  /\ chitateli \in Counter /\ ekschitateli \in Counter
  /\ r \in [Threads -> Counter]
  /\ role \in [Threads -> Roles] /\ place \in [Threads -> LockPlaces]
  /\ use \in Uses

LockInv == LockParts /\ WaitSetOK(monitor, Threads)

LEMMA LockInitInv == LockInit => LockInv
  <1> SUFFICES ASSUME LockInit PROVE LockInv
    OBVIOUS
  <1>1. LockParts
    BY FIFOAssumption DEF LockInit, LockParts, Counter, Roles, LockPlaces
  <1>2. PICK n \in Nodes : monitor = NewWaitSet(OS(n), Threads)
    BY DEF LockInit
  <1>3. PICK os \in Systems : wait = [x \in Nodes |-> NewWaitSet(os, {x})]
    BY DEF LockInit, Init
  <1>4. OS(n) = os /\ os \in Platforms
    BY <1>3, QueuedSemaphoreAssumption DEF OS, NewWaitSet
  <1> QED BY <1>1, <1>2, <1>4, NewWaitSetOK DEF LockInv

LEMMA LockNextInv == LockInv /\ [UseNext]_<<entryVars, lockVars>> => LockInv'
  <1> SUFFICES ASSUME LockInv, [UseNext]_<<entryVars, lockVars>> PROVE LockInv'
    OBVIOUS
  <1> USE DEF LockInv, LockParts, Put, counters
  <1>1. ASSUME NEW t \in Threads, NEW for \in {"read", "write", "tryWrite"}, Begin(t, for)
        PROVE  LockInv'
    BY <1>1 DEF Begin, Roles
  <1>2. ASSUME NEW t \in Threads, EntryStep(t)
        PROVE  LockInv'
    BY <1>2 DEF EntryStep, Roles
  <1>3. ASSUME NEW t \in Threads, CountIn(t)
        PROVE  LockInv'
    BY <1>3, IncrementedOK DEF CountIn, LockPlaces
  <1>4. ASSUME NEW t \in Threads, EndRead(t)
        PROVE  LockInv'
    BY <1>4, IncrementedOK, UvedomiOK DEF EndRead, LockPlaces
  <1>5. ASSUME NEW t \in Threads, Look(t)
        PROVE  LockInv'
    BY <1>5 DEF Look, LockPlaces
  <1>6. ASSUME NEW t \in Threads, StartWrite(t)
        PROVE  LockInv'
    BY <1>6, ResumeOK DEF StartWrite, LockPlaces
  <1>7. ASSUME NEW t \in Threads, AwaitReaders(t)
        PROVE  LockInv'
    BY <1>7, ZhdiOK DEF AwaitReaders, LockPlaces
  <1>8. ASSUME NEW t \in Threads, GiveUpWrite(t) \/ WriteFailed(t) \/ EndWrite(t)
        PROVE  LockInv'
    <2>1. Leave(t) /\ (UNCHANGED monitor \/ monitor' = Resume(monitor, t))
      BY <1>8 DEF GiveUpWrite, WriteFailed, EndWrite
    <2>2. WaitSetOK(monitor', Threads)
      BY <2>1, ResumeOK
    <2> QED BY <2>1, <2>2, FIFOAssumption DEF Leave, LockPlaces, Roles, Counter
  <1>9. ASSUME NEW t \in Threads, LockKernelStep(t)
        PROVE  LockInv'
    BY <1>9, KernelStepOK DEF LockKernelStep
  <1>10. CASE UNCHANGED lockVars
    BY <1>10 DEF lockVars
  <1> QED
    BY <1>1, <1>2, <1>3, <1>4, <1>5, <1>6, <1>7, <1>8, <1>9, <1>10 DEF UseNext, LockNext

(* The types of the lock, for any threads and any width of the counters.    *)
THEOREM LockTypes == UseSpec => []LockTypeOK
  <1>1. LockInv /\ TypeOK => LockTypeOK
    BY DEF LockInv, LockParts, LockTypeOK, Counter
  <1> QED BY <1>1, LockInitInv, LockNextInv, EntryIsSemaphore, QueueTypes, PTL DEF UseSpec

------------------------------------------------------------------------------
\* The counters читатели and эксчитатели can tell apart as many readers as there
\* are threads beside a writer.
FewThreads == IsFiniteSet(Threads) /\ Cardinality(Threads) <= Wrap

\* t has the entry's permit, although it may not know yet.
HasPermit(t) == phase[t] \in {"held", "release", "signal"} \/ IsGranted(t)

OnePermit == use = "lock" => issued = 1 /\ prava_ \in Nat

\* The permit of the entry is in one hand only.
LEMMA OneHand ==
  ASSUME Finite, NodesInv, AccountInv, issued = 1, prava_ \in Nat
  PROVE  \A t, u \in Threads : HasPermit(t) /\ HasPermit(u) => t = u
  <1> SUFFICES ASSUME NEW t \in Threads, NEW u \in Threads, HasPermit(t), HasPermit(u), t # u
               PROVE  FALSE
    OBVIOUS
  <1> DEFINE share(s) == One(phase[s] = "held") + One(IsGranted(s)) + left[s]
  <1>1. /\ Count(Holders) \in Nat /\ Count(Granted) \in Nat /\ Returning \in Nat
        /\ lost \in Nat
        /\ prava_ + Count(Holders) + Count(Granted) + Returning + lost = 1
    BY PartsAreNumbers DEF AccountInv, PermitsAccounted
  <1>2. left \in [Threads -> Nat]
    BY DEF NodesInv, NumbersOK
  <1>3. left[t] + left[u] <= Returning
    BY <1>2, TotalPair, ReturningIs DEF Finite
  <1>4. One(phase[t] = "held") + One(phase[u] = "held") <= Count(Holders)
    <2>1. IsFiniteSet(Holders)
      BY FS_Subset DEF Holders, Finite
    <2>2. One(t \in Holders) + One(u \in Holders) <= Cardinality(Holders)
      BY <2>1, CountPair
    <2> QED BY <2>2 DEF Holders, Count
  <1>5. One(IsGranted(t)) + One(IsGranted(u)) <= Count(Granted)
    <2>1. Granted = {s \in Threads : IsGranted(s)}
      BY GrantedIs
    <2> HIDE DEF Granted, IsGranted
    <2>2. IsFiniteSet(Granted)
      BY <2>1, FS_Subset DEF Finite
    <2>3. One(t \in Granted) + One(u \in Granted) <= Cardinality(Granted)
      BY <2>2, CountPair
    <2>4. (t \in Granted <=> IsGranted(t)) /\ (u \in Granted <=> IsGranted(u))
      BY <2>1
    <2> QED BY <2>3, <2>4 DEF Count, One
  <1>6. \A s \in Threads : HasPermit(s) =>
          phase[s] = "held" \/ IsGranted(s) \/ left[s] >= 1
    BY DEF HasPermit, NodesInv, References
  <1> HIDE DEF IsGranted
  <1>7. \A s \in Threads : HasPermit(s) => share(s) >= 1
    BY <1>2, <1>6 DEF One
  <1>8. share(t) >= 1 /\ share(u) >= 1
    BY <1>7
  <1>9. /\ One(phase[t] = "held") \in Nat /\ One(phase[u] = "held") \in Nat
        /\ One(IsGranted(t)) \in Nat /\ One(IsGranted(u)) \in Nat
        /\ left[t] \in Nat /\ left[u] \in Nat
    BY <1>2 DEF One
  <1> QED BY <1>1, <1>3, <1>4, <1>5, <1>8, <1>9

LEMMA OnePermitInit == LockInit => OnePermit
  BY DEF LockInit, Init, OnePermit

LEMMA OnePermitNext ==
  OnePermit /\ [UseNext]_<<entryVars, lockVars>> => OnePermit'
  <1> SUFFICES ASSUME OnePermit, [UseNext]_<<entryVars, lockVars>> PROVE OnePermit'
    OBVIOUS
  <1>1. [Next]_vars
    BY LockUsesEntry DEF entryVars
  <1>2. use' = use
    BY DEF UseNext, LockNext, lockVars, Begin, EntryStep, CountIn, EndRead, Look, StartWrite,
       AwaitReaders, GiveUpWrite, WriteFailed, EndWrite, Leave, LockKernelStep
  <1>3. CASE use = "lock"
    <2>1. prava_' \in Nat
      BY <1>1, <1>3, NeverNegative DEF OnePermit
    <2> HIDE DEF UseNext
    <2>2. issued' = issued
      <3> USE DEF history
      <3>1. ASSUME NEW t \in Threads, Release(t) PROVE issued' = issued
        BY <3>1 DEF Release
      <3>2. ASSUME NEW t \in Threads, NEW for \in {"read", "write", "tryWrite"}, Begin(t, for)
            PROVE  issued' = issued
        BY <3>2 DEF Begin, PreCheck
      <3>3. ASSUME NEW t \in Threads, EntryStep(t)
            PROVE  issued' = issued
        BY <3>3 DEF EntryStep, Recheck, Passes, WaitAgain, GiveUp, WaitFailed, KernelStep,
           GetSignaller, Signal
      <3>4. ASSUME NEW t \in Threads,
                   CountIn(t) \/ GiveUpWrite(t) \/ WriteFailed(t) \/ EndWrite(t)
            PROVE  issued' = issued
        BY <3>1, <3>4 DEF CountIn, GiveUpWrite, WriteFailed, EndWrite, Leave
      <3>5. ASSUME NEW t \in Threads,
                   EndRead(t) \/ Look(t) \/ StartWrite(t) \/ AwaitReaders(t) \/ LockKernelStep(t)
            PROVE  issued' = issued
        BY <3>5 DEF EndRead, Look, StartWrite, AwaitReaders, LockKernelStep, entryVars, vars
      <3>6. CASE UNCHANGED <<entryVars, lockVars>>
        BY <3>6 DEF entryVars, vars
      <3> QED
        BY <1>3, <3>2, <3>3, <3>4, <3>5, <3>6 DEF UseNext, LockNext
    <2> QED BY <2>1, <2>2, <1>2 DEF OnePermit
  <1>4. CASE use # "lock"
    BY <1>2, <1>4 DEF OnePermit
  <1> QED BY <1>3, <1>4

\* Where the threads are.  A thread past the entry has the permit and a true copy
\* of читатели; a reader has given the permit back, or is doing so.
Aside == use # "lock" => \A t \in Threads : place[t] = "out"

Placed == \A t \in Threads :
  /\ place[t] \in {"looked", "waiting", "writing"} =>
       phase[t] = "held" /\ r[t] = chitateli
  /\ place[t] = "writing" => ekschitateli = chitateli
  /\ place[t] = "reading" => phase[t] \in {"idle", "release", "signal"}
  /\ monitor.at[t] # "running" <=> place[t] = "waiting"

Readers == Cardinality(At("reading"))

\* What the two counters, modulo Wrap, say of the readers inside.
ReadersCounted == chitateli - ekschitateli \in {Readers, Readers - Wrap}

WaiterAlert == At("waiting") # {} /\ At("reading") = {} => Alert(monitor)

RoomInv == LockInv /\ Aside /\ Placed /\ ReadersCounted /\ WaiterAlert

\* Nobody else has the permit.
Alone(t) == \A u \in Threads : u # t =>
  /\ place[u] \notin {"looked", "waiting", "writing"} /\ phase[u] # "held"

LEMMA HolderAlone ==
  ASSUME Finite, NodesInv, AccountInv, OnePermit, Placed, use = "lock",
         NEW t \in Threads, phase[t] = "held"
  PROVE  Alone(t)
  BY OneHand DEF OnePermit, Placed, Alone, HasPermit

\* How a change of one place changes the number of readers.
LEMMA PutReaders ==
  ASSUME FewThreads, place \in [Threads -> LockPlaces], NEW t \in Threads, NEW p, Put(t, p)
  PROVE  /\ Readers \in Nat /\ Readers' \in Nat /\ Readers' <= Wrap /\ Readers <= Wrap
         /\ Readers' + One(place[t] = "reading") = Readers + One(p = "reading")
         /\ place'[t] = p /\ \A s \in Threads : s # t => place'[s] = place[s]
  <1>1. /\ At("reading") \subseteq Threads /\ At("reading")' \subseteq Threads
        /\ (t \in At("reading") <=> place[t] = "reading")
        /\ (t \in At("reading")' <=> p = "reading")
        /\ \A s \in Threads : s # t => (s \in At("reading") <=> s \in At("reading")')
        /\ place'[t] = p /\ \A s \in Threads : s # t => place'[s] = place[s]
    BY DEF At, Put
  <1> HIDE DEF At
  <1>2. /\ Cardinality(At("reading")) \in Nat /\ Cardinality(At("reading")') \in Nat
        /\ Cardinality(At("reading")') + One(t \in At("reading"))
             = Cardinality(At("reading")) + One(t \in At("reading")')
    BY <1>1, CountMoves DEF FewThreads
  <1>3. Cardinality(At("reading")) <= Wrap /\ Cardinality(At("reading")') <= Wrap
    <2>1. Cardinality(At("reading")) <= Cardinality(Threads)
          /\ Cardinality(At("reading")') <= Cardinality(Threads)
          /\ Cardinality(Threads) \in Nat
      BY <1>1, FS_Subset, FS_CardinalityType DEF FewThreads
    <2> QED BY <1>2, <2>1, FIFOAssumption DEF FewThreads
  <1>4. One(t \in At("reading")) = One(place[t] = "reading")
        /\ One(t \in At("reading")') = One(p = "reading")
    BY <1>1 DEF One
  <1> QED BY <1>1, <1>2, <1>3, <1>4 DEF Readers

\* When the counters agree nobody reads, unless everybody does.
LEMMA Agree ==
  ASSUME FewThreads, ReadersCounted, NEW t \in Threads, place[t] # "reading",
         chitateli = ekschitateli, chitateli \in Counter
  PROVE  At("reading") = {}
  <1>1. At("reading") \subseteq Threads \ {t} /\ IsFiniteSet(At("reading"))
    BY FS_Subset DEF At, FewThreads
  <1>2. Readers <= Cardinality(Threads) - 1 /\ Readers \in Nat /\ Cardinality(Threads) \in Nat
    <2>1. IsFiniteSet(Threads \ {t}) /\ Cardinality(Threads \ {t}) = Cardinality(Threads) - 1
      BY FS_RemoveElement DEF FewThreads
    <2> QED BY <1>1, <2>1, FS_Subset, FS_CardinalityType DEF Readers, FewThreads
  <1>3. Readers = 0
    BY <1>2, FIFOAssumption DEF ReadersCounted, FewThreads, Counter
  <1> QED BY <1>1, <1>3, FS_EmptySet DEF Readers

LEMMA IncrementedIs ==
  ASSUME NEW n \in Counter
  PROVE  Incremented(n) = IF n = Wrap - 1 THEN 0 ELSE n + 1
  BY FIFOAssumption DEF Incremented, Counter

\* A step in which nobody reads or stops reading.
LEMMA RoomKept ==
  ASSUME UNCHANGED <<chitateli, ekschitateli>>, ReadersCounted,
         \A s \in Threads : place'[s] = "reading" <=> place[s] = "reading"
  PROVE  ReadersCounted' /\ At("reading")' = At("reading")
  <1>1. At("reading")' = At("reading")
    BY DEF At
  <1> QED BY <1>1 DEF ReadersCounted, Readers

\* A step inside the entry.
LEMMA EntryRoom ==
  ASSUME RoomInv, NEW t \in Threads, phase[t] # "held",
         phase[t] \in {"release", "signal"} => phase'[t] \in {"idle", "release", "signal"},
         phase[t] = "idle" => place[t] = "out",
         \A s \in Threads : s # t => phase'[s] = phase[s],
         UNCHANGED <<chitateli, ekschitateli, r, monitor, place, use>>
  PROVE  Aside' /\ Placed' /\ ReadersCounted' /\ WaiterAlert'
  <1>1. ReadersCounted' /\ At("reading")' = At("reading") /\ At("waiting")' = At("waiting")
    BY RoomKept DEF RoomInv, At
  <1>2. WaiterAlert'
    BY <1>1 DEF RoomInv, WaiterAlert
  <1>3. Aside' /\ Placed'
    BY DEF RoomInv, Aside, Placed
  <1> QED BY <1>1, <1>2, <1>3

LEMMA BeginRoom ==
  ASSUME NodesInv, RoomInv, NEW t \in Threads, NEW for \in {"read", "write", "tryWrite"},
         Begin(t, for)
  PROVE  Aside' /\ Placed' /\ ReadersCounted' /\ WaiterAlert'
  <1>1. place[t] = "out" /\ UNCHANGED <<chitateli, ekschitateli, r, monitor, place, use>>
    BY DEF Begin, counters
  <1>2. PICK call \in Calls : PreCheck(t, call)
    BY DEF Begin, Calls
  <1>3. phase[t] = "idle" /\ \A s \in Threads : s # t => phase'[s] = phase[s]
    BY <1>2 DEF PreCheck, Goto, NodesInv, PlacesOK
  <1> QED BY <1>1, <1>3, EntryRoom

LEMMA EntryStepRoom ==
  ASSUME NodesInv, RoomInv, NEW t \in Threads, EntryStep(t)
  PROVE  Aside' /\ Placed' /\ ReadersCounted' /\ WaiterAlert'
  <1>1. UNCHANGED <<chitateli, ekschitateli, r, monitor, place, use>>
    BY DEF EntryStep, counters
  <1>2. /\ phase \in [Threads -> Phases]
        /\ mine[t] # NoNode => phase[t] \in Calls \cup Waits
    BY DEF NodesInv, PlacesOK, References
  <1>3. /\ phase[t] \notin {"held", "idle"}
        /\ phase[t] \in {"release", "signal"} => phase'[t] \in {"idle", "release", "signal"}
        /\ \A s \in Threads : s # t => phase'[s] = phase[s]
    <2>1. CASE \E call \in Calls : Recheck(t, call) \/ Passes(t, call) \/ WaitAgain(t, call)
      BY <1>2, <2>1 DEF Recheck, Passes, WaitAgain, WaitOf, Goto, Calls
    <2>2. CASE GiveUp(t) \/ WaitFailed(t)
      BY <1>2, <2>2 DEF GiveUp, WaitFailed, Withdraw, Goto
    <2>3. CASE KernelStep(t)
      BY <1>2, <2>3 DEF KernelStep, Calls, Waits
    <2>4. CASE GetSignaller(t) \/ Signal(t)
      BY <1>2, <2>4 DEF GetSignaller, Signal, Done, Goto
    <2> QED BY <2>1, <2>2, <2>3, <2>4 DEF EntryStep, Calls
  <1> QED BY <1>1, <1>3, EntryRoom

LEMMA CountInRoom ==
  ASSUME FewThreads, NodesInv, RoomInv, NEW t \in Threads, Alone(t), CountIn(t), use = "lock"
  PROVE  Aside' /\ Placed' /\ ReadersCounted' /\ WaiterAlert'
  <1>1. /\ phase[t] = "held" /\ place[t] = "out" /\ Put(t, "reading")
        /\ chitateli' = Incremented(chitateli)
        /\ UNCHANGED <<ekschitateli, r, monitor, use>>
    BY DEF CountIn, Entered
  <1>2. phase'[t] = "release" /\ \A s \in Threads : s # t => phase'[s] = phase[s]
    BY DEF CountIn, Release, Goto, NodesInv, PlacesOK
  <1>3. /\ place \in [Threads -> LockPlaces] /\ chitateli \in Counter /\ ekschitateli \in Counter
    BY DEF RoomInv, LockInv, LockParts
  <1>4. /\ Readers \in Nat /\ Readers' = Readers + 1 /\ Readers' <= Wrap
        /\ place'[t] = "reading" /\ \A s \in Threads : s # t => place'[s] = place[s]
    BY <1>1, <1>3, PutReaders DEF One
  <1>5. ReadersCounted'
    <2>1. chitateli' = IF chitateli = Wrap - 1 THEN 0 ELSE chitateli + 1
      BY <1>1, <1>3, IncrementedIs
    <2>2. chitateli - ekschitateli \in {Readers, Readers - Wrap}
      BY DEF RoomInv, ReadersCounted
    <2>3. chitateli' - ekschitateli' \in {Readers', Readers' - Wrap}
      BY <1>1, <1>3, <1>4, <2>1, <2>2, FIFOAssumption DEF Counter
    <2> QED BY <2>3 DEF ReadersCounted
  <1>6. Aside' /\ Placed'
    BY <1>1, <1>2, <1>4 DEF RoomInv, Aside, Placed, Alone
  <1>7. t \in At("reading")'
    BY <1>4 DEF At
  <1> QED BY <1>5, <1>6, <1>7 DEF WaiterAlert

LEMMA EndReadRoom ==
  ASSUME FewThreads, NodesInv, RoomInv, NEW t \in Threads, EndRead(t)
  PROVE  Aside' /\ Placed' /\ ReadersCounted' /\ WaiterAlert'
  <1>1. /\ place[t] = "reading" /\ phase[t] = "idle" /\ Put(t, "out")
        /\ ekschitateli' = Incremented(ekschitateli)
        /\ monitor' \in IF ekschitateli' = chitateli THEN Uvedomi(monitor) ELSE {monitor}
        /\ UNCHANGED <<chitateli, r, use>> /\ phase' = phase
    BY DEF EndRead, entryVars, vars
  <1>2. /\ place \in [Threads -> LockPlaces] /\ chitateli \in Counter /\ ekschitateli \in Counter
        /\ WaitSetOK(monitor, Threads) /\ Wrap \in Nat
    BY FIFOAssumption DEF RoomInv, LockInv, LockParts
  <1>3. /\ Readers \in Nat /\ Readers' \in Nat /\ Readers' = Readers - 1 /\ Readers <= Wrap
        /\ place'[t] = "out" /\ \A s \in Threads : s # t => place'[s] = place[s]
    BY <1>1, <1>2, PutReaders DEF One
  <1>4. ekschitateli' = (IF ekschitateli = Wrap - 1 THEN 0 ELSE ekschitateli + 1)
        /\ ekschitateli' \in Counter
    BY <1>1, <1>2, IncrementedIs, IncrementedOK
  <1>5. ReadersCounted'
    <2>2. chitateli - ekschitateli \in {Readers, Readers - Wrap}
      BY DEF RoomInv, ReadersCounted
    <2>3. chitateli' - ekschitateli' \in {Readers', Readers' - Wrap}
      BY <1>1, <1>2, <1>3, <1>4, <2>2 DEF Counter
    <2> QED BY <2>3 DEF ReadersCounted
  <1>6. /\ WaitSetOK(monitor', Threads)
        /\ \A s \in Threads : monitor'.at[s] # "running" <=> monitor.at[s] # "running"
    <2>1. CASE monitor' = monitor
      BY <1>2, <2>1
    <2>2. CASE monitor' \in Uvedomi(monitor)
      BY <1>2, <2>2, UvedomiOK
    <2> QED BY <1>1, <2>1, <2>2
  \* A writer that has started saw no reader, and none has come since.
  <1>7. \A s \in Threads : place[s] # "writing"
    <2> SUFFICES ASSUME NEW s \in Threads, place[s] = "writing" PROVE FALSE
      OBVIOUS
    <2>1. chitateli = ekschitateli
      BY DEF RoomInv, Placed
    <2>2. At("reading") = {}
      BY <1>2, <2>1, Agree DEF RoomInv
    <2> QED BY <1>1, <2>2 DEF At
  <1>8. Aside' /\ Placed'
    BY <1>1, <1>3, <1>6, <1>7 DEF RoomInv, Aside, Placed
  <1>9. WaiterAlert'
    <2> SUFFICES ASSUME At("waiting")' # {}, At("reading")' = {} PROVE Alert(monitor)'
      BY DEF WaiterAlert
    <2>1. Readers' = 0
      BY FS_EmptySet DEF Readers
    <2>2. ekschitateli' = chitateli
      BY <1>1, <1>2, <1>4, <1>5, <2>1 DEF ReadersCounted, Counter
    <2>3. PICK s \in Threads : place[s] = "waiting"
      BY <1>3 DEF At
    <2>4. s \in Waiting(monitor)
      BY <1>2, <2>3 DEF RoomInv, Placed, Waiting, AtPlace, WaitSetOK, WaitSets, Places
    <2>5. monitor' \in Uvedomi(monitor)
      BY <1>1, <2>2
    <2> QED BY <1>2, <2>4, <2>5, UvedomiAlerts
  <1> QED BY <1>5, <1>8, <1>9

LEMMA LookRoom ==
  ASSUME NodesInv, RoomInv, NEW t \in Threads, Alone(t), Look(t), use = "lock"
  PROVE  Aside' /\ Placed' /\ ReadersCounted' /\ WaiterAlert'
  <1>1. /\ phase[t] = "held" /\ place[t] = "out" /\ Put(t, "looked")
        /\ r' = [r EXCEPT ![t] = chitateli]
        /\ UNCHANGED <<chitateli, ekschitateli, monitor, use>> /\ phase' = phase
    BY DEF Look, Entered, counters, entryVars, vars
  <1>2. /\ place \in [Threads -> LockPlaces] /\ r \in [Threads -> Counter]
    BY DEF RoomInv, LockInv, LockParts
  <1>3. /\ place'[t] = "looked" /\ r'[t] = chitateli
        /\ \A s \in Threads : s # t => place'[s] = place[s] /\ r'[s] = r[s]
    BY <1>1, <1>2 DEF Put
  <1>4. Aside' /\ Placed'
    BY <1>1, <1>3 DEF RoomInv, Aside, Placed
  <1>5. ReadersCounted' /\ At("reading")' = At("reading") /\ At("waiting")' = At("waiting")
    BY <1>1, <1>3, RoomKept DEF RoomInv, At
  <1> QED BY <1>1, <1>4, <1>5 DEF RoomInv, WaiterAlert

\* A writer past the test or about to wait.
LEMMA StartWriteRoom ==
  ASSUME RoomInv, NEW t \in Threads, Alone(t), StartWrite(t), use = "lock"
  PROVE  Aside' /\ Placed' /\ ReadersCounted' /\ WaiterAlert'
  <1>1. /\ place[t] \in {"looked", "waiting"} /\ ekschitateli = r[t]
        /\ monitor' = Resume(monitor, t) /\ Put(t, "writing")
        /\ UNCHANGED <<chitateli, ekschitateli, r, use>> /\ phase' = phase
    BY DEF StartWrite, AtTest, MayWrite, counters, entryVars, vars
  <1>2. place \in [Threads -> LockPlaces] /\ WaitSetOK(monitor, Threads)
    BY DEF RoomInv, LockInv, LockParts
  <1>3. /\ place'[t] = "writing" /\ monitor'.at[t] = "running"
        /\ \A s \in Threads : s # t => place'[s] = place[s] /\ monitor'.at[s] = monitor.at[s]
    BY <1>1, <1>2, ResumeOK DEF Put
  <1>4. Aside' /\ Placed'
    BY <1>1, <1>3 DEF RoomInv, Aside, Placed
  <1>5. ReadersCounted'
    BY <1>1, <1>3, RoomKept DEF RoomInv
  <1>6. At("waiting")' = {}
    BY <1>3 DEF Alone, At
  <1> QED BY <1>4, <1>5, <1>6 DEF WaiterAlert

LEMMA AwaitReadersRoom ==
  ASSUME RoomInv, NEW t \in Threads, AwaitReaders(t), use = "lock"
  PROVE  Aside' /\ Placed' /\ ReadersCounted' /\ WaiterAlert'
  <1>1. /\ place[t] \in {"looked", "waiting"} /\ ekschitateli # r[t]
        /\ monitor' = Zhdi(monitor, t) /\ Put(t, "waiting")
        /\ UNCHANGED <<chitateli, ekschitateli, r, use>> /\ phase' = phase
    BY DEF AwaitReaders, AtTest, MayWrite, counters, entryVars, vars
  <1>2. /\ place \in [Threads -> LockPlaces] /\ WaitSetOK(monitor, Threads)
        /\ chitateli \in Counter /\ ekschitateli \in Counter /\ Wrap \in Nat
    BY FIFOAssumption DEF RoomInv, LockInv, LockParts
  <1>3. /\ place'[t] = "waiting" /\ monitor'.at[t] \in {"gap", "blocked"}
        /\ \A s \in Threads : s # t => place'[s] = place[s] /\ monitor'.at[s] = monitor.at[s]
    BY <1>1, <1>2, ZhdiOK DEF Put
  <1>4. Aside' /\ Placed'
    BY <1>1, <1>3 DEF RoomInv, Aside, Placed
  <1>5. ReadersCounted' /\ At("reading")' = At("reading")
    BY <1>1, <1>3, RoomKept DEF RoomInv
  <1>6. At("reading") # {}
    <2>1. chitateli # ekschitateli
      BY <1>1 DEF RoomInv, Placed
    <2>2. Readers # 0
      BY <1>2, <2>1 DEF RoomInv, ReadersCounted, Counter
    <2> QED BY <2>2, FS_EmptySet DEF Readers
  <1> QED BY <1>4, <1>5, <1>6 DEF WaiterAlert

LEMMA LeaveRoom ==
  ASSUME NodesInv, RoomInv, NEW t \in Threads, Alone(t), Leave(t), use = "lock",
         \/ place[t] \in {"looked", "waiting"} /\ monitor' = Resume(monitor, t)
         \/ place[t] = "writing" /\ UNCHANGED monitor
  PROVE  Aside' /\ Placed' /\ ReadersCounted' /\ WaiterAlert'
  <1>1. /\ Put(t, "out") /\ \A s \in Threads : s # t => r'[s] = r[s]
        /\ UNCHANGED <<chitateli, ekschitateli, use>>
        /\ phase'[t] = "release" /\ \A s \in Threads : s # t => phase'[s] = phase[s]
    BY DEF Leave, Release, Goto, counters, NodesInv, PlacesOK, RoomInv, LockInv, LockParts
  <1>2. place \in [Threads -> LockPlaces] /\ WaitSetOK(monitor, Threads)
    BY DEF RoomInv, LockInv, LockParts
  <1>3. /\ place'[t] = "out" /\ monitor'.at[t] = "running"
        /\ \A s \in Threads : s # t => place'[s] = place[s] /\ monitor'.at[s] = monitor.at[s]
    BY <1>1, <1>2, ResumeOK DEF Put, RoomInv, Placed
  <1>4. Aside' /\ Placed'
    BY <1>1, <1>3 DEF RoomInv, Aside, Placed, Alone
  <1>5. ReadersCounted'
    BY <1>1, <1>3, RoomKept DEF RoomInv
  <1>6. At("waiting")' = {}
    BY <1>3 DEF Alone, At
  <1> QED BY <1>4, <1>5, <1>6 DEF WaiterAlert

LEMMA LockKernelStepRoom ==
  ASSUME RoomInv, NEW t \in Threads, LockKernelStep(t)
  PROVE  Aside' /\ Placed' /\ ReadersCounted' /\ WaiterAlert'
  <1>1. /\ monitor' \in KernelSteps(monitor, t, role[t] = "tryWrite")
        /\ UNCHANGED <<chitateli, ekschitateli, r, place, use>> /\ phase' = phase
    BY DEF LockKernelStep, counters, entryVars, vars
  <1>2. WaitSetOK(monitor, Threads)
    BY DEF RoomInv, LockInv
  <1>3. /\ WaitSetOK(monitor', Threads) /\ Waiting(monitor') = Waiting(monitor)
        /\ Alert(monitor) => Alert(monitor')
    BY <1>1, <1>2, KernelStepOK
  <1>4. \A s \in Threads : monitor'.at[s] # "running" <=> monitor.at[s] # "running"
    <2>1. \A w : WaitSetOK(w, Threads) =>
            \A s \in Threads : w.at[s] # "running" <=> s \in Waiting(w)
      BY DEF WaitSetOK, WaitSets, Places, Waiting, AtPlace
    <2> QED BY <1>2, <1>3, <2>1
  <1>5. Aside' /\ Placed'
    BY <1>1, <1>4 DEF RoomInv, Aside, Placed
  <1>6. ReadersCounted' /\ At("reading")' = At("reading") /\ At("waiting")' = At("waiting")
    BY <1>1, RoomKept DEF RoomInv, At
  <1>7. Alert(monitor)' = Alert(monitor')
    BY DEF Alert
  <1> QED BY <1>3, <1>5, <1>6, <1>7 DEF RoomInv, WaiterAlert

LEMMA RoomInit == FewThreads /\ LockInit => RoomInv
  <1> SUFFICES ASSUME FewThreads, LockInit PROVE RoomInv
    OBVIOUS
  <1>1. LockInv
    BY LockInitInv
  <1>2. /\ place = [t \in Threads |-> "out"]
        /\ chitateli = 0 /\ ekschitateli = 0
        /\ At("reading") = {} /\ At("waiting") = {}
    BY DEF LockInit, At
  <1>3. \A t \in Threads : monitor.at[t] = "running"
    BY DEF LockInit, NewWaitSet
  <1>4. Aside /\ Placed /\ WaiterAlert
    BY <1>2, <1>3 DEF Aside, Placed, WaiterAlert
  <1>5. ReadersCounted
    BY <1>2, FS_EmptySet DEF ReadersCounted, Readers
  <1> QED BY <1>1, <1>4, <1>5 DEF RoomInv

\* All of it: the entry's nodes and permits, and the room behind it.
LockedInv == NodesInv /\ AccountInv /\ OnePermit /\ RoomInv

LEMMA LockStepRoom ==
  ASSUME FewThreads, LockedInv, use = "lock", LockNext
  PROVE  Aside' /\ Placed' /\ ReadersCounted' /\ WaiterAlert'
  <1> USE DEF LockedInv
  <1> DEFINE Goal == Aside' /\ Placed' /\ ReadersCounted' /\ WaiterAlert'
  <1>1. \A t \in Threads : phase[t] = "held" => Alone(t)
    BY HolderAlone DEF RoomInv, FewThreads, Finite
  <1>2. \A t \in Threads : place[t] \in {"looked", "waiting", "writing"} => phase[t] = "held"
    BY DEF RoomInv, Placed
  <1>3. ASSUME NEW t \in Threads, \E for \in {"read", "write", "tryWrite"} : Begin(t, for)
        PROVE  Goal
    BY <1>3, BeginRoom
  <1>4. ASSUME NEW t \in Threads, EntryStep(t)
        PROVE  Goal
    BY <1>4, EntryStepRoom
  <1>5. ASSUME NEW t \in Threads, CountIn(t)
        PROVE  Goal
    BY <1>1, <1>5, CountInRoom DEF CountIn, Entered
  <1>6. ASSUME NEW t \in Threads, EndRead(t)
        PROVE  Goal
    BY <1>6, EndReadRoom
  <1>7. ASSUME NEW t \in Threads, Look(t)
        PROVE  Goal
    BY <1>1, <1>7, LookRoom DEF Look, Entered
  <1>8. ASSUME NEW t \in Threads, StartWrite(t)
        PROVE  Goal
    <2>1. Alone(t)
      BY <1>1, <1>2, <1>8 DEF StartWrite, AtTest
    <2> QED BY <1>8, <2>1, StartWriteRoom
  <1>9. ASSUME NEW t \in Threads, AwaitReaders(t)
        PROVE  Goal
    BY <1>9, AwaitReadersRoom
  <1>10. ASSUME NEW t \in Threads, GiveUpWrite(t) \/ WriteFailed(t) \/ EndWrite(t)
         PROVE  Goal
    <2>1. /\ Leave(t)
          /\ \/ place[t] \in {"looked", "waiting"} /\ monitor' = Resume(monitor, t)
             \/ place[t] = "writing" /\ UNCHANGED monitor
      BY <1>10 DEF GiveUpWrite, WriteFailed, EndWrite, AtTest, RoomInv, Placed
    <2>2. Alone(t)
      BY <1>1, <1>2, <2>1
    <2> QED BY <2>1, <2>2, LeaveRoom
  <1>11. ASSUME NEW t \in Threads, LockKernelStep(t)
         PROVE  Goal
    BY <1>11, LockKernelStepRoom
  <1> HIDE DEF Goal
  <1>12. Goal
    BY <1>3, <1>4, <1>5, <1>6, <1>7, <1>8, <1>9, <1>10, <1>11 DEF LockNext
  <1> QED BY <1>12 DEF Goal

LEMMA RoomNext ==
  FewThreads /\ LockedInv /\ [UseNext]_<<entryVars, lockVars>> => RoomInv'
  <1> SUFFICES ASSUME FewThreads, LockedInv, [UseNext]_<<entryVars, lockVars>> PROVE RoomInv'
    OBVIOUS
  <1>1. LockInv'
    BY LockNextInv DEF LockedInv, RoomInv
  <1>2. CASE use = "lock" /\ LockNext
    BY <1>1, <1>2, LockStepRoom DEF RoomInv
  \* Nothing happens in the room of a semaphore that is used by itself.
  <1>3. CASE use = "alone" /\ Next /\ UNCHANGED lockVars
    <2>1. ReadersCounted' /\ WaiterAlert' /\ Aside' /\ Placed'
      BY <1>3 DEF LockedInv, RoomInv, ReadersCounted, Readers, At, WaiterAlert, Aside, Placed,
         lockVars
    <2> QED BY <1>1, <2>1 DEF RoomInv
  <1>4. CASE UNCHANGED <<entryVars, lockVars>>
    <2>1. ReadersCounted' /\ WaiterAlert' /\ Aside' /\ Placed'
      BY <1>4 DEF LockedInv, RoomInv, ReadersCounted, Readers, At, WaiterAlert, Aside, Placed,
         lockVars, entryVars, vars
    <2> QED BY <1>1, <2>1 DEF RoomInv
  <1> QED BY <1>2, <1>3, <1>4 DEF UseNext

LEMMA LockedInit == FewThreads /\ LockInit => LockedInv
  BY NodesInit, AccountInit, OnePermitInit, RoomInit DEF LockedInv, LockInit, FewThreads, Finite

LEMMA LockedNext == FewThreads /\ LockedInv /\ [UseNext]_<<entryVars, lockVars>> => LockedInv'
  <1> SUFFICES ASSUME FewThreads, LockedInv, [UseNext]_<<entryVars, lockVars>> PROVE LockedInv'
    OBVIOUS
  <1>1. [Next]_vars
    BY LockUsesEntry DEF entryVars
  <1>2. NodesInv'
    BY <1>1, NodesNext DEF LockedInv
  <1>3. AccountInv'
    BY <1>1, <1>2, AccountNext DEF LockedInv, FewThreads, Finite
  <1> QED BY <1>2, <1>3, OnePermitNext, RoomNext DEF LockedInv

\* Two writers, or two waiting writers, would both have the permit.
LEMMA OneWriter ==
  ASSUME FewThreads, LockedInv, NEW p \in {"waiting", "writing"}
  PROVE  At(p) = {} \/ \E t \in At(p) : At(p) = {t}
  <1> SUFFICES ASSUME NEW t \in At(p) PROVE At(p) = {t}
    OBVIOUS
  <1>1. t \in Threads /\ phase[t] = "held"
    BY DEF At, LockedInv, RoomInv, Placed
  <1>2. use = "lock"
    BY DEF At, LockedInv, RoomInv, Aside
  <1>3. Alone(t)
    BY <1>1, <1>2, HolderAlone DEF LockedInv, RoomInv, FewThreads, Finite
  <1> QED BY <1>3 DEF Alone, At

(* A writer is alone: no reader is inside and no other writer, for any      *)
(* number of threads that the counters читатели and эксчитатели can tell    *)
(* apart.                                                                   *)
THEOREM WritersAlone == ASSUME FewThreads PROVE UseSpec => []WriterAlone
  <1>1. ASSUME LockedInv PROVE WriterAlone
    <2> SUFFICES ASSUME NEW t \in At("writing")
                 PROVE  At("reading") = {} /\ Cardinality(At("writing")) = 1
      BY DEF WriterAlone
    <2>1. Cardinality(At("writing")) = 1
      BY <1>1, OneWriter, FS_Singleton
    <2>2. /\ t \in Threads /\ place[t] = "writing"
          /\ chitateli = ekschitateli /\ chitateli \in Counter
      BY <1>1 DEF At, LockedInv, RoomInv, Placed, LockInv, LockParts
    <2>3. At("reading") = {}
      BY <1>1, <2>2, Agree DEF LockedInv, RoomInv
    <2> QED BY <2>1, <2>3
  <1> QED BY <1>1, LockedInit, LockedNext, PTL DEF UseSpec

(* "We will never miss an opportunity to send a notification": one writer   *)
(* at most waits for the readers, and once they are gone it is awake or has *)
(* its notification waiting for it.                                         *)
THEOREM NoneMissed == ASSUME FewThreads PROVE UseSpec => []NeverMissed
  <1>1. ASSUME LockedInv PROVE NeverMissed
    <2>1. Cardinality(At("waiting")) <= 1
      <3>1. CASE At("waiting") = {}
        BY <3>1, FS_EmptySet
      <3>2. CASE At("waiting") # {}
        <4>1. PICK t \in At("waiting") : At("waiting") = {t}
          BY <1>1, <3>2, OneWriter
        <4>2. Cardinality({t}) = 1
          BY FS_Singleton
        <4> HIDE DEF At
        <4> QED BY <4>1, <4>2
      <3> QED BY <3>1, <3>2
    <2> QED BY <1>1, <2>1 DEF NeverMissed, LockedInv, RoomInv, WaiterAlert
  <1> QED BY <1>1, LockedInit, LockedNext, PTL DEF UseSpec
==============================================================================
