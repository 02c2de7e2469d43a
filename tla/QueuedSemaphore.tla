--------------------------- MODULE QueuedSemaphore ---------------------------
(***************************************************************************)
(* queuedsemaphore.d with the queue of fifosemaphore.d: СемафорВОчереди,   *)
(* whose waiters each wait on a node of their own, and which hands a permit*)
(* to the first node of the queue instead of counting it.  The semaphore's *)
(* monitor covers права_ and the queue, a node's monitor covers its flag   *)
(* ждущий; the second test of права_ and the wait run under both.          *)
(***************************************************************************)
EXTENDS Integers, Sequences, FiniteSets, WaitNotify, SequencesExt

CONSTANTS Threads, Systems, Seeds,
          Nodes,      (* bound: ЖдущийУзел objects alive at once; one is   *)
                      (* made again once nobody refers to it               *)
          MaxIssued   (* bound: permits ever issued                        *)

NoNode == 0   (* пусто *)

ASSUME QueuedSemaphoreAssumption ==
  /\ Systems \subseteq Platforms
  /\ Seeds \subseteq Int
  /\ MaxIssued \in Int
  /\ Nodes \subseteq Nat \ {NoNode}

VARIABLES
  prava_,    (* available permits                                          *)
  wq_,       (* the queue of nodes                                         *)
  waiting,   (* ждущий of each node                                        *)
  wait,      (* the wait set of each node; its maker is the only waiter,   *)
             (* and is called by the node's name there                     *)
  phase,     (* where each thread is                                       *)
  mine,      (* the node a thread has made for its call                    *)
  hand,      (* the node a releasing thread has taken out of the queue     *)
  left,      (* how many отпусти() a releasing thread has still to do      *)
  issued,    (* history: the seed and the permits of every отпусти(n)      *)
  lost       (* history: permits given to nobody                           *)

vars == <<prava_, wq_, waiting, wait, phase, mine, hand, left, issued, lost>>

Phases == {"idle", "acquire", "attempt", "acquireWait", "attemptWait", "held",
           "release", "signal"}

\* The same call, inside жди_ка or жди_каПоВремени.
WaitOf(call) == IF call = "acquire" THEN "acquireWait" ELSE "attemptWait"

\* The parts of the state a step may leave alone together.
semaphore == <<prava_, wq_>>
nodes     == <<waiting, wait>>
releasing == <<hand, left>>
history   == <<issued, lost>>

TypeOK ==
  /\ prava_ \in Int /\ wq_ \in Seq(Nodes) /\ IsInjective(wq_)
  /\ waiting \in [Nodes -> BOOLEAN]
  /\ \A n \in Nodes : WaitSetOK(wait[n], {n})
  /\ phase \in [Threads -> Phases]
  /\ mine \in [Threads -> Nodes \cup {NoNode}]
  /\ hand \in [Threads -> Nodes \cup {NoNode}]
  /\ left \in [Threads -> Nat] /\ issued \in Int /\ lost \in Nat

Goto(t, p) == phase' = [phase EXCEPT ![t] = p]

Unreferenced ==
  Nodes \ (ToSet(wq_) \cup {mine[t] : t \in Threads} \cup {hand[t] : t \in Threads})

OS(n) == wait[n].os

\* предпроверь with `>=` for `>`.
PreCheck_Zero(t, call) ==
  /\ phase[t] = "idle" /\ prava_ >= 0
  /\ prava_' = prava_ - 1
  /\ Goto(t, "held")
  /\ UNCHANGED <<wq_, mine, nodes, releasing, history>>

\* предпроверь, and the new node if it fails.  (A пытайся given no time stops
\* there and changes nothing.)
PreCheck(t, call) ==
  /\ phase[t] = "idle"
  /\ \/ /\ prava_ > 0
        /\ prava_' = prava_ - 1
        /\ Goto(t, "held")
        /\ UNCHANGED <<mine, nodes>>
     \/ /\ prava_ <= 0 /\ Unreferenced # {}
        /\ LET n == CHOOSE x \in Unreferenced : TRUE IN
             /\ mine' = [mine EXCEPT ![t] = n]
             /\ waiting' = [waiting EXCEPT ![n] = TRUE]
             /\ wait' = [wait EXCEPT ![n] = NewWaitSet(OS(n), {n})]
        /\ Goto(t, call)
        /\ UNCHANGED prava_
  /\ UNCHANGED <<wq_, releasing, history>>

\* перепроверь and the first жди, under the node's monitor.
Recheck(t, call) ==
  LET n == mine[t] IN
  /\ phase[t] = call
  /\ \/ /\ prava_ > 0
        /\ prava_' = prava_ - 1
        /\ Goto(t, "held")
        /\ mine' = [mine EXCEPT ![t] = NoNode]
        /\ UNCHANGED <<wq_, wait>>
     \/ /\ prava_ <= 0
        /\ wq_' = Append(wq_, n)
        /\ wait' = [wait EXCEPT ![n] = Zhdi(@, n)]
        /\ Goto(t, WaitOf(call))
        /\ UNCHANGED <<prava_, mine>>
  /\ UNCHANGED <<waiting, releasing, history>>

\* A thread that counts the permit it was handed a second time.
Passes_Counts(t, call) ==
  LET n == mine[t] IN
  /\ phase[t] = WaitOf(call) /\ wait[n].at[n] = "awake" /\ ~waiting[n]
  /\ prava_' = prava_ - 1
  /\ Goto(t, "held")
  /\ mine' = [mine EXCEPT ![t] = NoNode]
  /\ wait' = [wait EXCEPT ![n] = Resume(@, n)]
  /\ UNCHANGED <<wq_, waiting, releasing, history>>

\* Back from жди with the flag down: the permit was handed over.
Passes(t, call) ==
  LET n == mine[t] IN
  /\ phase[t] = WaitOf(call) /\ wait[n].at[n] = "awake" /\ ~waiting[n]
  /\ Goto(t, "held")
  /\ mine' = [mine EXCEPT ![t] = NoNode]
  /\ wait' = [wait EXCEPT ![n] = Resume(@, n)]
  /\ UNCHANGED <<semaphore, waiting, releasing, history>>

\* Back from жди too early.
WaitAgain(t, call) ==
  LET n == mine[t] IN
  /\ phase[t] = WaitOf(call) /\ wait[n].at[n] = "awake" /\ waiting[n]
  /\ wait' = [wait EXCEPT ![n] = Zhdi(@, n)]
  /\ UNCHANGED <<semaphore, waiting, phase, mine, releasing, history>>

\* The node is withdrawn, but stays in the queue.
Withdraw(t, n) ==
  /\ waiting' = [waiting EXCEPT ![n] = FALSE]
  /\ wait' = [wait EXCEPT ![n] = Resume(@, n)]
  /\ mine' = [mine EXCEPT ![t] = NoNode]
  /\ Goto(t, "idle")

\* пытайся runs out of time.
GiveUp(t) ==
  LET n == mine[t] IN
  /\ phase[t] = "attemptWait" /\ wait[n].at[n] = "awake" /\ waiting[n]
  /\ Withdraw(t, n)
  /\ UNCHANGED <<semaphore, releasing, history>>

\* The catch clauses.  If the permit was handed over meanwhile жди_ка returns,
\* but жди_каПоВремени reaches the end of a function that returns a value: the
\* compiler's error there leaves the caller without the permit.
WaitFailed(t) ==
  LET n == mine[t] IN
  /\ phase[t] \in {"acquireWait", "attemptWait"} /\ wait[n].at[n] = "failed"
  /\ \/ waiting[n] /\ Withdraw(t, n) /\ UNCHANGED lost
     \/ /\ ~waiting[n]
        /\ Goto(t, IF phase[t] = "acquireWait" THEN "held" ELSE "idle")
        /\ mine' = [mine EXCEPT ![t] = NoNode]
        /\ wait' = [wait EXCEPT ![n] = Resume(@, n)]
        /\ lost' = lost + IF phase[t] = "attemptWait" THEN 1 ELSE 0
        /\ UNCHANGED waiting
  /\ UNCHANGED <<semaphore, releasing, issued>>

\* отпусти() and отпусти(n): the call begins.
Release(t) ==
  /\ phase[t] = "held"
  /\ left' = [left EXCEPT ![t] = 1]
  /\ Goto(t, "release")
  /\ UNCHANGED <<semaphore, nodes, mine, hand, history>>

ReleaseN(t, n) ==
  /\ phase[t] = "idle"
  /\ left' = [left EXCEPT ![t] = n]
  /\ issued' = issued + n
  /\ Goto(t, "release")
  /\ UNCHANGED <<semaphore, nodes, mine, hand, lost>>

\* One отпусти() of a thread is done.
Done(t) ==
  /\ left' = [left EXCEPT ![t] = @ - 1]
  /\ Goto(t, IF left[t] = 1 THEN "idle" ELSE "release")

\* дайСигнализатора that counts the permit it hands over.
GetSignaller_Counts(t) ==
  /\ phase[t] = "release" /\ wq_ # <<>>
  /\ prava_' = prava_ + 1
  /\ wq_' = Tail(wq_)
  /\ hand' = [hand EXCEPT ![t] = Head(wq_)]
  /\ Goto(t, "signal")
  /\ UNCHANGED <<left, nodes, mine, history>>

\* извлеки that forgets the rest of the queue.
GetSignaller_Drops(t) ==
  /\ phase[t] = "release" /\ wq_ # <<>>
  /\ wq_' = <<>>
  /\ hand' = [hand EXCEPT ![t] = Head(wq_)]
  /\ Goto(t, "signal")
  /\ UNCHANGED <<prava_, left, nodes, mine, history>>

\* дайСигнализатора
GetSignaller(t) ==
  /\ phase[t] = "release"
  /\ \/ /\ wq_ = <<>>
        /\ prava_' = prava_ + 1
        /\ Done(t)
        /\ UNCHANGED <<wq_, hand>>
     \/ /\ wq_ # <<>>
        /\ wq_' = Tail(wq_)
        /\ hand' = [hand EXCEPT ![t] = Head(wq_)]
        /\ Goto(t, "signal")
        /\ UNCHANGED <<prava_, left>>
  /\ UNCHANGED <<nodes, mine, history>>

\* сигнал without уведоми.
Signal_Silent(t) ==
  LET n == hand[t] IN
  /\ phase[t] = "signal"
  /\ waiting' = [waiting EXCEPT ![n] = FALSE]
  /\ lost' = lost + IF waiting[n] THEN 0 ELSE 1
  /\ hand' = [hand EXCEPT ![t] = NoNode]
  /\ Done(t)
  /\ UNCHANGED <<semaphore, wait, mine, issued>>

\* сигнал: it answers true whether or not the node was still waiting.
Signal(t) ==
  LET n == hand[t] IN
  /\ phase[t] = "signal"
  /\ waiting' = [waiting EXCEPT ![n] = FALSE]
  /\ \E w \in Uvedomi(wait[n]) : wait' = [wait EXCEPT ![n] = w]
  /\ lost' = lost + IF waiting[n] THEN 0 ELSE 1
  /\ hand' = [hand EXCEPT ![t] = NoNode]
  /\ Done(t)
  /\ UNCHANGED <<semaphore, mine, issued>>

KernelStep(t) ==
  LET n == mine[t] IN
  /\ n # NoNode
  /\ \E w \in KernelSteps(wait[n], n, phase[t] = "attemptWait") :
       wait' = [wait EXCEPT ![n] = w]
  /\ UNCHANGED <<semaphore, waiting, phase, mine, releasing, history>>

Init ==
  /\ prava_ \in Seeds
  /\ issued = prava_
  /\ wq_ = <<>>
  /\ waiting = [n \in Nodes |-> FALSE]
  /\ \E os \in Systems : wait = [n \in Nodes |-> NewWaitSet(os, {n})]
  /\ phase = [t \in Threads |-> "idle"]
  /\ mine = [t \in Threads |-> NoNode] /\ hand = [t \in Threads |-> NoNode]
  /\ left = [t \in Threads |-> 0]
  /\ lost = 0

Acquire(t) ==
  PreCheck(t, "acquire") \/ Recheck(t, "acquire") \/ Passes(t, "acquire")
    \/ WaitAgain(t, "acquire")

Attempt(t) ==
  PreCheck(t, "attempt") \/ Recheck(t, "attempt") \/ Passes(t, "attempt")
    \/ WaitAgain(t, "attempt") \/ GiveUp(t)

Next ==
  \E t \in Threads :
    \/ Acquire(t) \/ Attempt(t) \/ WaitFailed(t) \/ KernelStep(t)
    \/ Release(t) \/ GetSignaller(t) \/ Signal(t)
    \/ \E n \in 1..(MaxIssued - issued) : ReleaseN(t, n)

Spec == Init /\ [][Next]_vars
------------------------------------------------------------------------------
Count(S) == Cardinality(S)

Holders == {t \in Threads : phase[t] = "held"}
InWait  == {t \in Threads : phase[t] \in {"acquireWait", "attemptWait"}}

\* Threads whose permit has been handed over and that have not noticed yet.
Granted == {t \in InWait : ~waiting[mine[t]]}

\* Permits in the hands of threads inside отпусти.
Returning == FoldSet(LAMBDA t, sum : sum + left[t], 0, Threads)

(* Every permit issued is available, held, handed over or being released,   *)
(* but for those handed to a node whose thread has already left.            *)
PermitsAccounted ==
  prava_ + Count(Holders) + Count(Granted) + Returning + lost = issued

(* Nobody overtakes the queue: while a node is queued no permit is counted  *)
(* as available, so that предпроверь turns every newcomer away.             *)
NoOvertaking == wq_ # <<>> => prava_ <= 0

(* A thread that waits for a permit can be found by отпусти: its node is in *)
(* the queue or in the hand of one signaller, never in both.                *)
NobodyForgotten ==
  \A t \in InWait :
    LET n == mine[t]
        hands == {s \in Threads : hand[s] = n}
    IN  waiting[n] => Count(hands) = IF n \in ToSet(wq_) THEN 0 ELSE 1

(* A handed-over permit wakes its thread on either platform: with a single  *)
(* waiter and a single notification an event cannot lose the wakeup.        *)
SignalWakes ==
  \A t \in Granted :
    LET n == mine[t]
    IN  \/ wait[n].at[n] \in {"awake", "failed"}
        \/ wait[n].at[n] = "gap" /\ wait[n].event

Contract ==
  INSTANCE SyncContract
  WITH permits <- issued,
       passed  <- Count(Holders),
       phase   <- [t \in Threads |->
                     CASE phase[t] = "acquireWait" -> "acquire"
                       [] phase[t] = "attemptWait" -> "attempt"
                       [] phase[t] \in {"release", "signal"} -> "idle"
                       [] OTHER -> phase[t]]

(* What sync.d promises holds, lost permits or not: there are never too     *)
(* many holders.                                                            *)
KeepsContract == Contract!Spec
==============================================================================
