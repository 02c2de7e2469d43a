---------------------------- MODULE QueuedExecutor ----------------------------
(***************************************************************************)
(* queuedexecutor.d: ОчереднойИсполнитель, one worker behind a channel.    *)
(* The channel is the one ChannelContract describes, which LinkedChannels  *)
(* is shown to implement.  Callers that only submit hold no monitor while  *)
(* they wait for room in it; the two shutdown methods hold the executor's. *)
(* The worker needs that monitor for its last step.                        *)
(***************************************************************************)
EXTENDS Queues

\* Of Queues, Capacities are the channel's (MaxCalls and more is no limit), and
\* `queue` has its items: "task", or "end", the empty task.
CONSTANTS Callers,     (* the threads that use the executor                *)
          Workers,     (* names for the threads it makes                   *)
          MaxCalls     (* bound: calls that may put something              *)

ASSUME ExecutorAssumption ==
  /\ MaxCalls \in Nat
  /\ NoThread \notin Callers \cup Workers

VARIABLES
  capacity,    (* that of the channel                                      *)
  nit_,        (* нить_: the worker, or none                               *)
  preryvanie_, (* прерывание_: it should stop; never reset                 *)
  monitor,     (* the caller that holds the monitor while it uses the      *)
               (* channel                                                  *)
  place,       (* where each worker is in its loop                         *)
  calls,       (* history: calls so far                                    *)
  crashed,     (* history: a task has thrown                               *)
  late         (* history: tasks begun since прерывание_ was set           *)

executorVars == <<queue, capacity, nit_, preryvanie_, monitor, phase, place,
                  calls, crashed, late>>

Channel == INSTANCE ChannelContract

channel == <<queue, capacity>>

TypeOK ==
  /\ queue \in Seq({"task", "end"}) /\ capacity \in Capacities
  /\ nit_ \in Workers \cup {NoThread} /\ preryvanie_ \in BOOLEAN
  /\ monitor \in Callers \cup {NoThread}
  /\ phase \in [Callers -> {"idle", "submit", "drain", "end"}]
  /\ place \in [Workers -> {"none", "test", "take", "run", "clear"}]
  /\ calls \in 0..MaxCalls /\ crashed \in BOOLEAN /\ late \in Nat

Move(w, p) == place' = [place EXCEPT ![w] = p]

workerVars == <<place, crashed, late>>

\* A caller outside any call enters the executor's monitor.
Enters(c) == phase[c] = "idle" /\ monitor = NoThread

Counted == calls < MaxCalls /\ calls' = calls + 1

------------------------------------------------------------------------------
\* A restart that does not look for a running worker.
StartWorker_Always ==
  \/ /\ ~preryvanie_
     /\ \E w \in Workers : /\ place[w] = "none"
                           /\ nit_' = w
                           /\ Move(w, "test")
  \/ /\ preryvanie_
     /\ UNCHANGED <<nit_, place>>

\* рестарт.
StartWorker ==
  \/ /\ nit_ = NoThread /\ ~preryvanie_
     /\ \E w \in Workers : /\ place[w] = "none"
                           /\ nit_' = w
                           /\ Move(w, "test")
  \/ /\ nit_ # NoThread \/ preryvanie_
     /\ UNCHANGED <<nit_, place>>

Restart(c) ==
  /\ Enters(c) /\ nit_ = NoThread
  /\ StartWorker
  /\ UNCHANGED <<preryvanie_, monitor, phase, calls, crashed, late>>
  /\ UNCHANGED channel

\* выполни begins with рестарт ...
Execute(c) ==
  /\ Enters(c) /\ Counted
  /\ StartWorker
  /\ Goto(c, "submit")
  /\ UNCHANGED <<preryvanie_, monitor, crashed, late>> /\ UNCHANGED channel

\* ... and puts the task without the monitor, as soon as there is room.
Submit(c) ==
  /\ phase[c] = "submit"
  /\ Channel!Put("task")
  /\ Goto(c, "idle")
  /\ UNCHANGED <<nit_, preryvanie_, monitor, calls>> /\ UNCHANGED workerVars

\* прерываниеПослеОбработкиТекущихЗадачВОчереди.  прерывание_ stays as it is.
ShutdownAfterQueue(c) ==
  /\ Enters(c) /\ Counted
  /\ nit_ # NoThread /\ ~preryvanie_
  /\ monitor' = c
  /\ Goto(c, "end")
  /\ UNCHANGED <<nit_, preryvanie_>> /\ UNCHANGED channel /\ UNCHANGED workerVars

\* A shutdown that only sets the flag.
ShutdownNow_Silent(c) ==
  /\ Enters(c) /\ Counted
  /\ preryvanie_' = TRUE
  /\ UNCHANGED <<nit_, monitor, phase>> /\ UNCHANGED channel /\ UNCHANGED workerVars

\* прерываниеПослеОбработкиТекущихЗадачОчереди: with a worker there, the queue
\* is drained and the empty task is put.
ShutdownNow(c) ==
  /\ Enters(c) /\ Counted
  /\ preryvanie_' = TRUE
  /\ \/ /\ nit_ # NoThread
        /\ monitor' = c
        /\ Goto(c, "drain")
     \/ /\ nit_ = NoThread
        /\ UNCHANGED <<monitor, phase>>
  /\ UNCHANGED nit_ /\ UNCHANGED channel /\ UNCHANGED workerVars

Drain(c) ==
  /\ phase[c] = "drain"
  /\ \/ Channel!Take /\ UNCHANGED phase
     \/ queue = <<>> /\ Goto(c, "end") /\ UNCHANGED channel
  /\ UNCHANGED <<nit_, preryvanie_, monitor, calls>> /\ UNCHANGED workerVars

PutEnd(c) ==
  /\ phase[c] = "end"
  /\ Channel!Put("end")
  /\ monitor' = NoThread
  /\ Goto(c, "idle")
  /\ UNCHANGED <<nit_, preryvanie_, calls>> /\ UNCHANGED workerVars

------------------------------------------------------------------------------
\* What a step of a worker leaves alone.
workerFrame == <<preryvanie_, monitor, phase, calls>>

\* A loop without the test of прерывание_.
Test_Blind(w) ==
  /\ place[w] = "test"
  /\ Move(w, "take")
  /\ UNCHANGED <<nit_, crashed, late>> /\ UNCHANGED channel /\ UNCHANGED workerFrame

\* The head of the loop of пускЦикла, with no lock.
Test(w) ==
  /\ place[w] = "test"
  /\ Move(w, IF preryvanie_ THEN "clear" ELSE "take")
  /\ UNCHANGED <<nit_, crashed, late>> /\ UNCHANGED channel /\ UNCHANGED workerFrame

TakeTask(w) ==
  /\ place[w] = "take"
  /\ Channel!Take
  /\ IF Head(queue) = "end"
     THEN Move(w, "clear") /\ UNCHANGED late
     ELSE Move(w, "run") /\ late' = late + (IF preryvanie_ THEN 1 ELSE 0)
  /\ UNCHANGED <<nit_, crashed>> /\ UNCHANGED workerFrame

Finish(w) ==
  /\ place[w] = "run"
  /\ Move(w, "test")
  /\ UNCHANGED <<nit_, crashed, late>> /\ UNCHANGED channel /\ UNCHANGED workerFrame

\* The task throws: the thread ends without сотриНить.
Crash(w) ==
  /\ place[w] = "run"
  /\ Move(w, "none")
  /\ crashed' = TRUE
  /\ UNCHANGED <<nit_, late>> /\ UNCHANGED channel /\ UNCHANGED workerFrame

\* сотриНить.
Clear(w) ==
  /\ place[w] = "clear" /\ monitor = NoThread
  /\ nit_' = NoThread
  /\ Move(w, "none")
  /\ UNCHANGED <<crashed, late>> /\ UNCHANGED channel /\ UNCHANGED workerFrame

ExecutorInit ==
  /\ capacity \in Capacities /\ Channel!Init
  /\ nit_ = NoThread /\ preryvanie_ = FALSE
  /\ monitor = NoThread
  /\ phase = [c \in Callers |-> "idle"]
  /\ place = [w \in Workers |-> "none"]
  /\ calls = 0 /\ crashed = FALSE /\ late = 0

CallerSteps(c) == Submit(c) \/ Drain(c) \/ PutEnd(c)
WorkerSteps(w) == Test(w) \/ TakeTask(w) \/ Finish(w) \/ Crash(w) \/ Clear(w)

ExecutorNext ==
  \/ \E c \in Callers :
       \/ Restart(c) \/ Execute(c) \/ ShutdownAfterQueue(c) \/ ShutdownNow(c)
       \/ Submit(c) \/ Drain(c) \/ PutEnd(c)
  \/ \E w \in Workers :
       Test(w) \/ TakeTask(w) \/ Finish(w) \/ Crash(w) \/ Clear(w)

\* Calls under way go on, and tasks come to an end.
ExecutorFairness ==
  /\ \A c \in Callers : WF_executorVars(CallerSteps(c))
  /\ \A w \in Workers : WF_executorVars(WorkerSteps(w))

ExecutorSpec == ExecutorInit /\ [][ExecutorNext]_executorVars

ExecutorFairSpec == ExecutorSpec /\ ExecutorFairness
------------------------------------------------------------------------------
(* There is at most one worker: one that is still in its loop is the one in *)
(* нить_, however callers, shutdowns and restarts overlap.                  *)
OneWorker == \A w \in Workers : place[w] # "none" => nit_ = w

(* The shutdown that does not wait for the queue lets the worker begin one  *)
(* more task at most: one that is put while the worker, past its test, waits*)
(* in возьми.                                                               *)
AtMostOneMore == late <= 1

(* As long as no task throws and the channel never fills, the shutdown ends *)
(* the worker, although the two race for the monitor, others go on putting  *)
(* tasks, and the queue is drained under the worker's hands.                *)
ShutdownCompletes ==
  (preryvanie_ /\ capacity >= MaxCalls) ~> (nit_ = NoThread \/ crashed)
==============================================================================
