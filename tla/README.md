# Verification of DinrusConc

TLA+ modules, TLC configurations and TLAPS proofs for the concurrency library
of Dinrus, `src/DinrusConc/src/`: a D translation, with Russian identifiers, of
Doug Lea's `util.concurrent`; and for what it stands on, the monitors and
critical sections of the runtime, `src/DinrusBase/src/rt/`. The rest of the
repository (a base library, a port of Tango, bindings to toolkits and
databases, vendored compilers) is sequential library code or not the project's
own, and is left out. Components,
runs, theorems and the lines each definition stands for are listed in
`PROJECT.json`.

## 1. The system

### Components

| Component (files) | State | Operations | What makes it correct |
|---|---|---|---|
| Runtime locks (`monitor.c`, `critical.c`, and `object_.d` for its calls) | one pointer per object or section, a global mutex, the list `dcs_list` | enter, exit, create, destroy | one thread inside; a lock is made once; none is leaked |
| Wait and notify (`waitnotify.d`) | a Windows event or a pthread condition per object, next to the object's monitor | `жди`, `жди(мс)`, `уведоми`, `уведомиВсех` | a notification reaches a waiter; `жди` returns with the monitor |
| `Синх` (`sync.d`) | none, an interface | `обрети`, `пытайся`, `отпусти` | a normal return means acquired, a failure means not acquired |
| `Мютекс` (`mutex.d`) | `inuse_` | those of `Синх` | one holder; no wakeup lost; a released lock goes on to a waiter |
| `Семафор`, `ЯсныйСемафор` (`semaphore.d`, `fairsemaphore.d`) | `права_`, `ждут_` | and `отпусти(n)` | permits conserved; `ждут_` exact; no wakeup lost |
| `СемафорВОчереди`, `СемафорПВПВ` (`queuedsemaphore.d`, `fifosemaphore.d`) | `права_`, queue of nodes, a flag `ждущий` in each | the same | nobody overtakes the queue; no node forgotten, no permit lost |
| `Щеколда`, `ОбратныйОтсчёт` (`latch.d`, `countdown.d`) | `защёлкнут_`; `счёт_` | those of `Синх` | not passed before opening; never closed again; everyone leaves |
| `ЦиклическийБарьер` (`cyclicbarrier.d`, `barrier.d`) | `счёт_`, `сбросы_`, `сорван_`, command | `барьер`, `пробуйБарьер`, `рестарт` | a generation passes together or not at all; count and indexes are the generation's own |
| `ВозобновляемыйЗамок` (`reentrantlock.d`) | `владелец_`, `содержит_` | those of `Синх`, `отпусти(n)` | as for `Мютекс`; free exactly when the holds are given back |
| Layered and timed locks, locked executor (`syncutils.d`, `lockedexecutor.d`) | two `Синх` | those of `Синх` | the outer lock is given back when the inner one is refused |
| Readers-writer locks (`readwritelock.d`, `readwritelockutils.d`) | active and waiting counts, holds per thread | `обрети`/`отпусти` of a read and a write lock | no reader beside a writer; waiting counts exact; no lost signal |
| Channels (`linkedqueue.d`, `boundedlinkedqueue.d`) | linked list under two locks, permits split in two counts | `помести`, `возьми`, `предложи`, `запроси` | FIFO, bounded, each item taken once |
| Synchronous channel (`synchronouschannel.d`) | queues of waiting putters and takers | the same | an item is handed to one taker, or not at all |
| Rendezvous (`rendezvous.d`) | gate semaphore, slots, `вхождения_`, `отправлены_` | `рандеву` | an exchange is all or none |
| Executors (`queuedexecutor.d`, `pooledexecutor.d`, `directexecutor.d`, `threadedexecutor.d`) | worker threads, shutdown flag, pool size | `выполни`, restart, shutdown, drain | each task run once; shutdown ends |
| Synchronized variables | one field | compute and set | atomicity |

### How they interact

Threads share objects; nothing is sent between processes and nothing is
persisted. Every class takes the object's monitor (`synchronized`), and its
waiting loops call the `жди` it mixes in from `waitnotify.d`, which gives the
monitor up. The semaphore with a queue uses two monitors, its own and a node's.
The readers-writer lock has three: the controller's and one per lock object. The
linked channels lock their two ends apart, and the synchronous channel locks
itself and then a node. The layered lock and the rendezvous are built on a
`Синх`, the queued executor on a bounded linked channel. Every monitor is made
by the runtime on its first use.

What is hard in this code is what the monitor does not cover:

* the **gap**: on Windows `жди` releases the monitor and only then begins its
  kernel wait (`waitnotify.d:51-66`, the comment there says so too);
* the **event**: an auto-reset event remembers one notification, even one made
  when nobody waits; `PulseEvent` remembers none; a pthread condition neither;
* the **return**: a woken thread competes with newcomers for the monitor, and a
  timeout, a stale event, a notification and, on linux, no reason at all look
  alike to it;
* the **failure**: `ИсклОжидания` leaves a waiting loop at any time, and the catch
  clause must undo what the loop has counted;
* the **missing monitor**: `Семафор.отпусти(n)` is not `synchronized`;
* the **two monitors**: what one protects is chosen, a signal, a node, a permit, and
  acted upon under another, when it may no longer be true;
* the **unlocked test**: a lock is made on first use after a look without any
  lock, and the executor's worker reads its shutdown flag so.

Each of these is an entry of "hazards" in `PROJECT.json`, at its line.

## 2. The modules

    WaitNotify                wait sets: жди, уведоми, and what the kernel does
      Semaphore               Семафор and ЯсныйСемафор
      QueuedSemaphore         СемафорПВПВ; one wait set per node
        FIFOReadWriteLock     ЧЗЗамокПВПВ, composed with the semaphore at its entry
      ReadWriteLock           the three locks with writer or reader preference
      Locking                 owners, and the place each thread is at
        Mutex                 Мютекс and ВозобновляемыйЗамок (with WaitNotify)
        RuntimeLocks          monitors and critical sections of the runtime
      Gathering               a count, and threads that wait until it is down
        Gates                 Щеколда and ОбратныйОтсчёт
        CyclicBarrier         ЦиклическийБарьер
      Queues                  a bounded queue, and the calls that use it
        LinkedChannels        the linked and the bounded channel (with WaitNotify)
        QueuedExecutor        ОчереднойИсполнитель, over ChannelContract
      Meetings                threads that meet, on one of two platforms
        SynchronousChannel    СинхронныйКанал; one wait set per node
        Rendezvous            Рандеву
    SyncContract              what Синх promises; Mutex, Semaphore and
                              QueuedSemaphore implement it
    ChannelContract           what a Канал promises; LinkedChannels implements
                              it, and QueuedExecutor is built on it
    CommonTheorems            lemmas on wait sets, finite sums and queues
    LockProofs                Mutex, RuntimeLocks
    SemaphoreProofs           Semaphore, SyncContract
    QueuedSemaphoreProofs     QueuedSemaphore, FIFOReadWriteLock
    ReadWriteLockProofs       ReadWriteLock
    GatheringProofs           Gates, CyclicBarrier
    ChannelProofs             LinkedChannels, QueuedExecutor
    MeetingProofs             Rendezvous, SynchronousChannel
    MC<module>                what TLC needs beyond a cfg: ranges, symmetry

Two components that share a base are proved about in one module, which extends both. So the
second of such a pair has names of its own for what every module defines: `GateInit`,
`GateNext`, `GateSpec`, and the like with `Executor`, `Runtime` and `Rendezvous`. Nothing
else connects the two: their variables, but for those of the base, are disjoint, and no
theorem speaks of both.

**Names.** Modules keep the source's names, transliterated where TLA+ requires
it: `prava_` is `права_`, `zhdut_` `ждут_`, `schyot_` `счёт_`, `sbrosy_`
`сбросы_`, `sorvan_` `сорван_`, `latched_` `защёлкнут_`, `initial_`
`начальнСчёт_`, `Zhdi` `жди`, `Uvedomi` `уведоми`, `UvedomiVseh`
`уведомиВсех`. Operations carry English names: `Acquire` is `обрети`, `Attempt`
`пытайся`, `Release` `отпусти()`, `ReleaseN` `отпусти(n)`.

**WaitNotify.** A wait set says where each thread is (running, gap, blocked,
awake, failed) and whether the event is signalled. It is a record, and its
operations are pure operators from a wait set to a wait set or to a set of
them: `уведоми` may wake any sleeper, so `Uvedomi(w)` is a set. The record's
field `os` chooses the platform: on Windows `Zhdi` leads to the gap, and
`EnterKernelWait` finds the event signalled or sleeps; on linux `Zhdi` blocks at
once and a signal with nobody blocked has no effect. `ReturnUnnotified` is a return
without a notification: the time is up or, on linux, `pthread_cond_wait` has woken for
no reason, which it may do with or without a time limit. `WAIT_FAILED` is the answer
of a wait that never began, so on Windows a wait fails from the gap. On both
platforms a wait that fails has not taken a notification.

**Steps.** A component's action is a stretch of a method under the monitor: from
its call, or from the return of `жди`, to its return or the next `жди`. Nothing
else can see the states within. `KernelStep` is what happens to a thread inside
`жди`. `phase` is the method a thread is in; `held` (or `past`) that it has come
back from an acquire and has not released. The loops' exits are separate
actions: taking, waiting again, giving up, failing.

**Time.** Clocks are not modelled: a timed wait may end at any moment, and after
each return of `жди` the time may or may not be up. So each model has every
behaviour of every clock, but not the arithmetic of the timeouts.

**Mutex.** `Acquire` and `Attempt` are the two methods, `WaitFailed` their catch
clauses. `cls` chooses between the two classes, which differ in `AcquireAgain`, the
owner's second call, and in `отпусти(n)`; the flag `inuse_` of `Мютекс` is an owner
with one hold.

**Semaphore.** One module, with `cls` saying which class the object is; the
classes differ in the newcomer's test (`MayPass`), in `ждут_` and in
`отпусти(n)`. `parking` is the thread that has found no permit and still owns
the monitor: for the synchronized methods that state is invisible, but not for
the unsynchronized `отпусти(n)`, whose read, write and notifications are the
actions `UnsyncRead`, `UnsyncWrite` and `UnsyncNotify`. The overlap of its
`права_ += n` with another update is a data race, so either value may survive.
`ReleaseN` is the synchronized `отпусти(n)` of the fair class and, with n = 1, the
`отпусти()` of either class by a thread that holds no permit, as in the unit tests.

**QueuedSemaphore.** The node made by a waiting thread is `mine[t]`, the one a
releasing thread has taken from the queue `hand[t]`. `PreCheck` is `предпроверь`;
`Recheck` is `перепроверь` with the insertion and the first `жди`, which happen
under the node's monitor too; `GetSignaller` and `Signal` are the two steps of
`отпусти`. The linked queue is a sequence of nodes. A node nobody refers to may
be made again (the garbage collector's part).

**FIFOReadWriteLock.** It extends `QueuedSemaphore` and keeps its variables: the lock's
`замокЗап` is that semaphore, with one permit. A call on the lock begins with a call on the
entry (`Begin`), goes on with the entry's own steps (`EntryStep`) and, once the thread has the
permit, with those of the lock: a reader counts itself in and gives the permit back
(`CountIn`); a writer copies `читатели` (`Look`) and keeps the permit until it leaves
(`StartWrite`, `AwaitReaders`, `EndWrite`; `GiveUpWrite` and `WriteFailed` are its failing
exits). `use` says whether the semaphore stands alone or in the lock, so that one state
space covers both. `Incremented` is the 32-bit increment, modulo `Wrap`.

**Gates.** `cls` chooses the class. Neither has a catch clause: `GateWaitFailed`
ends the call.

**CyclicBarrier.** A generation is a value of `сбросы_`. `Enter...` and `Trip`
are the branches of `делайБарьер` up to the first wait, `Leave...`, `TimesOut`,
`WaitAgain` and `WaitFailed` those after each wait. The command either returns,
throws, or is absent. `results` records how the calls of each generation ended.
`барьер()` waits with `жди(0)`: on Windows that is INFINITE, on linux a deadline
already past, so there it polls; `KernelStep` says so.

**ReadWriteLock.** The controller's methods are atomic and so part of the steps of
the two lock objects, whose wait sets are `monitors["read"]` and
`monitors["write"]`. `signal[t]` is the lock object a thread has chosen to
signal after it has given up all monitors. `busy` is a lock object whose monitor
a thread keeps between the timeout it has seen and `отменённый...`, while the
controller is free for others. `cls` chooses writer preference, reader
preference or the re-entrant class.

**LinkedChannels.** One module for both classes. `guard` is the owner of
`стражПомещения_`, which a putter keeps while it waits for room; `room` is the wait
set of the channel itself, `takers` that of the takers' guard. A put is three
steps: a permit, the link, the announcement; a take looks once without and then
again under the guard. `ChannelContract` is a FIFO sequence with a capacity.

**SynchronousChannel.** Two queues of nodes; a thread is at its own node or has
taken out a partner's (`place`). Items are alike: what counts is that puts and
takes meet one to one. `cut` has the queued nodes whose `следщ` was erased.

**Rendezvous.** The gate is a count of permits: `SyncContract`, which the semaphores
implement, says no more of it. `Depart` is the `finally` clause. As in the barrier
an untimed `жди(0)` polls on linux.

**QueuedExecutor.** Its channel is that of `ChannelContract`: each step that puts or
takes is a step of the contract (`Channel!Put`, `Channel!Take`), so composing it
with `LinkedChannels` adds nothing the executor could see. `monitor` is held over
several steps, because the shutdown blocks in the channel while it has it.

**RuntimeLocks.** Four ways to make a lock: `create` (`_d_monitor_create`, which
`object_.d` calls), `enter` (`_monitorenter`), `critical` (`_d_criticalenter`) and
`lazy` (the same on linux, with its global lock made on first use). They differ in
the order of publication and initialisation and in what is tested without the
lock. `LockRawMemory` is the entry into a lock that is published and not yet
initialised, an undefined behaviour: `race` is set, and the thread gets in or
hangs. `Supply` gives an object a lock of the program's own, whose `lock` and `unlock`
`object_.d` calls in place of the runtime's: `Мютекс` of the base library
(`DinrusBase/src/sync.d:1068-1091`), which is a critical section again.

## 3. What TLC checks

`tlc -workers 2 -config X.cfg M`; all on both platforms unless said otherwise.

| Run | Instance | Properties |
|---|---|---|
| `mutex` | 4 threads, both classes, 3 holds | `MutualExclusion`: one holder, who is the owner, and the holds in agreement. `NoLostWakeup`: a free lock with waiters has one on its way. `HandedOn`: a released lock is taken again. `KeepsContract` |
| `semaphore` | 4 threads, both classes, seeds -1..2, 2 permits at most | `PermitsConserved`, `QueueCounted`, `NoLostWakeup`, `KeepsContract` |
| `fifo` | 3 threads; the semaphore alone with 4 nodes, seeds 0..1, 2 permits at most, or a lock over it with 2 nodes and counters modulo 3 | `PermitsAccounted`, `NoOvertaking`, `NobodyForgotten`, `SignalWakes`, `KeepsContract`. `WriterAlone`: no reader and no other writer beside a writer of the lock. `NeverMissed`: its waiting writer sleeps only while a reader is inside |
| `gates` | 4 threads, both classes, counts -1..2, 3 releases | `NoEarlyPassage`, `StaysOpen`, `NobodyAsleep`, `AllLeave` |
| `barrier` | 3 threads, 2 parties, 2 resets, 1 call on a broken barrier | `CountsMembers`, `IndexesUnique`, `AllOrNone`, `EveryoneLeaves` |

The type invariants are proved and not checked again: those of `Mutex`, `Semaphore`,
`QueuedSemaphore`, `FIFOReadWriteLock`, `Gates`, `RuntimeLocks` and `QueuedExecutor` stand in
those modules, the others (`TypesOK` and `PlaceTypes`, `BarrierTypes`, `ChannelTypes`,
`RendezvousTypes`, `SyncTypes`) in the modules of their proofs. They say one thing more than
types: the wait set is one the platform allows (`WaitSetOK`), so that a Windows event is
never left signalled while a thread sleeps on it.

| Run | Instance | Properties |
|---|---|---|
| `runtime_locks` | 3 threads, 2 locks, the four ways, depth 2 | `Exclusion`: one thread in a monitor; always by the way `object_.d` takes, by the others until a race. `NothingLost`: no monitor is leaked, no critical section is missing from the list |
| `rwlock` | 4 threads, three classes, 2 holds | `Exclusion`: a writer is alone and the counts are the holds. `WaitersCounted`. `NoLostWakeup`: on linux no sleeper that could go on is overlooked |
| `channels` | 3 threads, 2 items, both classes, capacities 1..2 | `PermitsSplit`: the two permit counts add up to the free places. `NobodyStranded`: no taker sleeps beside an item. `PutterProceeds`. `KeepsContract`: bounded and FIFO |
| `sync_channel` | 3 threads, 4 nodes, 1 failed take | `HandOver`: puts and takes meet one to one. `NobodyMissed`: no putter and taker sleep side by side |
| `executor` | 3 callers, 2 workers, 6 calls, capacities 1, 2, 6 | `OneWorker`, `AtMostOneMore`, `ShutdownCompletes` |
| `rendezvous` | 3 threads, 2..4 members, 6 calls | `GateBalanced`: permits, entries and threads on their way are the party. `Exchanged`: each item is received once, in its own meeting. `LastOutCleansUp` |

Where the code does not do what one would ask of it, a property names the
exception: in `HandOver` the takes whose wait failed, in `NoLostWakeup` the reader
that upgrades, in `Exclusion` the race on an unfinished lock, in `ShutdownCompletes` a full
channel and a task that throws, in `LastOutCleansUp` and `Exchanged` a thread that enters a
broken meeting. Everything else is asked without reserve, and dropping an exception
makes TLC find the fault.

One run, `latch_windows`, looks for a violation and finds it: a waiter in the gap
misses `PulseEvent` and sleeps behind an open latch for ever, under weak
fairness of every thread. The other places where the code is wrong, or a comment
says otherwise, are states the passing runs go through:

| Place | What happens |
|---|---|
| `monitor.c:86`, `critical.c:39` | a lock is published before it is initialised |
| `critical.c:116` | on linux the global lock is made without a lock |
| `reentrantlock.d:123` | `отпусти(n)` with more than it holds leaves a negative count and the lock owned for ever; n calls of `отпусти()` would free it first |
| `semaphore.d:167` | the unsynchronized `отпусти(n)` loses or invents permits |
| `waitnotify.d:105` | two notifications in a row set one event, and a thread sleeps beside an available permit until somebody releases again |
| `queuedsemaphore.d:100` | `сигнал` answers true for a node whose thread has timed out, and the permit is lost; at the entry of `ЧЗЗамокПВПВ` it is the only one, and nobody enters that lock again |
| `queuedsemaphore.d:64` | a queued thread gets a permit while `права_` is negative |
| `cyclicbarrier.d:213` | without a command the last party reaches the end of `делайБарьер` with no value |
| `readwritelockutils.d:356` | a reader waiting to upgrade is not told that it could |
| `linkedqueue.d:141` | a failed take stays counted as waiting |
| `boundedlinkedqueue.d:206` | `подбери` may answer null while items remain |
| `synchronouschannel.d:226`, `:228`, `:362` | a failed take leaves a live slot behind, cuts the queue, or drops the item it was given |
| `rendezvous.d:338` | after a timeout a newcomer disturbs the count of those who leave; the gate may stay shut for ever |
| `queuedexecutor.d:100`, `:186`, `:202` | no restart after a crash; tasks accepted after a shutdown; shutdown and worker wait for each other when the channel is full |

**Bounds.** Every bound is a constant named in its module (`MaxHolds`, `MaxIssued`,
`MaxReleases`, `MaxResets`, `MaxRefused`, `MaxLength`, `MaxDrift`, `MaxFailures`,
`MaxDepth`, `MaxCalls`, `Nodes`, `LockNodes`, `Parties`) and is a guard of the action it limits.
Three threads are the least that show a newcomer overtaking a woken thread
while another sleeps; four add a second sleeper, which the one-notification
event needs to overlook one, and which the readers-writer lock needs for two
readers beside two writers. At most two permits in all, from a seed of 0 or -1,
leave room for bulk releases of one, two and three. Four nodes for three threads
let an abandoned node stay queued while everybody waits. In the lock two nodes
(`LockNodes`) queue a reader and a writer behind whoever has the permit; more would
repeat what the semaphore alone shows. While a writer waits at most two of three
threads are readers inside, so counters modulo three (`Wrap`) tell every case apart
and wrap within a few entries. Two resets give three
generations, so that a slow leaver can meet two later ones; two parties of
three threads give a late comer. Capacities of one and two make the bounded
channel full, empty and lowered below its length; `MaxDrift` bounds the drift of
`ожиданиеЗабора_` by failed takes. One failed take is enough to lose an item and to
cut a queue of two. Six calls fill the executor's channel, drain and refill it;
in the rendezvous they give two full meetings of three and a broken one of four.
Symmetry over the threads is used only in runs without liveness.

**Deadlock** is checked in `mutex`. In the others every thread may rightly wait
for a permit, a release or a generation beyond the bound, and the cfg says so.

**Fairness.** `Spec` has none and is enough for the safety properties. `FairSpec`
of `Mutex`, `CyclicBarrier` and `LinkedChannels`, and `GateFairSpec` of `Gates`, assume weak fairness of a
thread's return from a wait that has ended, of its entry into the kernel wait,
and, for the mutex, of the holder's release of all it holds: the scheduler runs
every runnable thread, and callers release what they hold. `ExecutorFairSpec` lets calls under way go on and tasks come to an end; its monitor
needs no strong fairness, because calls are finite in number. Nobody is obliged to call, to time out or to
fail. Fairness of the monitor itself is not needed: the properties ask that
some thread, or a thread that is woken for good, goes on. `AllLeave` and
`EveryoneLeaves` are stated for linux; on Windows they fail for the reason
`latch_windows` shows.

**Mutants.** Each checked property has a mutated action, named after the action
with a suffix (`Free_Silent`, `TimesOut_First`) and kept next to it, under which
TLC finds the property violated.

## 4. What is proved

`tlapm <module>.tla`. The theorems hold for every value of the constants that the modules'
assumptions allow. Some ask for more, and say so as a hypothesis of the theorem:

* a finite set of threads (`Finite` and its like; nodes too for the synchronous channel)
  where the model counts threads: `Cardinality` and a sum over the threads mean nothing else;
* `NonNegative`, for the contract of the semaphore with a queue: with a negative seed the code
  does break it, which is the finding at `queuedsemaphore.d:64`;
* `FewThreads`, for `ЧЗЗамокПВПВ`: no more threads than its two counters tell apart, which in
  the code are 2^32.

| Theorem | Statement |
|---|---|
| `LockProofs!TypeCorrectness`, `OneOwner`, `WakeupsSurvive` | `[]TypeOK`, `[]MutualExclusion`, `[]NoLostWakeup` of `Mutex` |
| `LockProofs!Refinement` | `Spec => KeepsContract` |
| `LockProofs!RuntimeTypes`, `OneInside`, `NoneLeaked` | `[]RuntimeTypeOK`, `[]Exclusion`, `[]NothingLost` of `RuntimeLocks` |
| `SemaphoreProofs!CountIsExact` | `passed` of `SyncContract` is the number of threads past `обрети` |
| `SemaphoreProofs!TypeCorrectness`, `Conservation`, `QueueIsCounted`, `NoneLost` | `[]TypeOK`, `[]PermitsConserved`, `[]QueueCounted`, `[]NoLostWakeup` |
| `SemaphoreProofs!ContractKept` | `Spec => KeepsContract` |
| `QueuedSemaphoreProofs!QueueTypes`, `NoneOvertakes` | `[]TypeOK`, `[]NoOvertaking` |
| `QueuedSemaphoreProofs!SignalsArrive`, `NoneForgotten`, `Accounting` | `[]SignalWakes`, `[]NobodyForgotten`, `[]PermitsAccounted` |
| `QueuedSemaphoreProofs!ContractKept` | `Spec => KeepsContract` |
| `QueuedSemaphoreProofs!EntryIsSemaphore`, `LockTypes` | `UseSpec => Spec`, `UseSpec => []LockTypeOK` |
| `QueuedSemaphoreProofs!WritersAlone`, `NoneMissed` | `UseSpec => []WriterAlone`, `UseSpec => []NeverMissed` |
| `ReadWriteLockProofs!ExclusionHolds`, `WaitersAreCounted`, `NoneOverlooked` | `[]Exclusion`, `[]WaitersCounted`, `[]NoLostWakeup` of `ReadWriteLock` |
| `GatheringProofs!GateTypes`, `PassageIsLate`, `NoSleeper` | `[]TypeOK`, `[]NoEarlyPassage`, `[]NobodyAsleep` of `Gates` |
| `GatheringProofs!OpenForEver` | `GateSpec => StaysOpen` |
| `GatheringProofs!PartiesCounted`, `IndexesAreUnique`, `TogetherOrNot` | `[]CountsMembers`, `[]IndexesUnique`, `[]AllOrNone` of `CyclicBarrier` |
| `ChannelProofs!PermitsAreSplit`, `NoneStranded` | `[]PermitsSplit`, `[]NobodyStranded` |
| `ChannelProofs!ChannelKept` | `Spec => KeepsContract` |
| `ChannelProofs!ExecutorTypes`, `NeverTwoWorkers`, `OneLateTask` | `[]TypeOK`, `[]OneWorker`, `[]AtMostOneMore` of `QueuedExecutor` |
| `MeetingProofs!GateStaysBalanced`, `ItemsExchanged`, `LastCleansUp` | `[]GateBalanced`, `[]Exchanged`, `[]LastOutCleansUp` of `Rendezvous` |
| `MeetingProofs!ItemsHandedOver`, `NobodyWaitsPast` | `[]HandOver`, `[]NobodyMissed` of `SynchronousChannel` |

So each safety property of section 3 is proved, the contracts (`KeepsContract`, four times) and
the action property `StaysOpen` included.

**Common lemmas** (`CommonTheorems`). Each operator on wait sets keeps `WaitSetOK` and moves
only the threads it should; a notification leaves a waiter alert. The components' proofs cite
these in place of the operators' definitions. `CountMoves` says how the number of a set's
elements changes when one comes or goes, and `TotalType`, `TotalUpdate` and their like what a
sum over a finite set is. These sums are proved without the library's induction theorems,
whose operator parameter no prover here can instantiate: `SubsetInduction` takes the property
as a set of subsets, and looks for a least set that is not in it. `AppendSet` and `TailSet`
say which elements a sequence without repetition has.

**Mutex.** The invariant is `TypeOK`, `MutualExclusion`, `NoLostWakeup` and `Parked`
(who is inside `жди` is inside a method); `MutualExclusion` also ties the owner and
its holds to the holders. `Parked` is needed because a waiter
must not be a holder; `TypeOK` supplies that an event left signalled has no
sleeper, without which a stale event could satisfy `Alert` for nobody.

**RuntimeLocks.** Most of the invariant restricts what happens before a race. `Entered`
ties an owner to the depth of his holds and to where he is in the way in; `Blocks`
counts the blocks of memory each thread has of its own, so that one is not published and
freed; `CreateSafe` says that a monitor made by `_d_monitor_create` is ready when it can be
seen. `Orderly` collects what the order of the steps guarantees while no race has
happened: the guard lock protects creation, a lock is free until it is ready, and whoever is
inside owns it. `Exclusion` and the first half of `NothingLost` follow. The list of
sections is a second invariant, `Listed`, proved on top of the first, because nothing in the
first depends on it.

**Semaphore.** `TypeOK`, `PermitsConserved`, `QueueCounted`, `Located` (who waits, or is
about to, is in a method) and `Adding` (an `отпусти(n)` between its two halves
has permits to add). `TypeOK` alone is not inductive: `ждут_` stays a natural
number only because it counts threads. One lemma, `GotoCounts`, says how a change
of one thread's phase changes both counts. The refinement maps `permits` to the
permits issued and `passed` to `issued - права_`, which by conservation is the
number of holders. `NoLostWakeup` is not inductive: it says nothing of a thread that has seen
no permit and is not asleep yet. `Noticed` says it of both; it needs `LoopWaits` (whoever is
in a loop waits or is about to) and `Late` (a notification without the monitor comes after
the write of `права_`). On linux the argument is a count, on Windows the event.

**QueuedSemaphore.** `NoOvertaking` with the types of `права_`, the queue and `mine`:
only `дайСигнализатора` raises `права_`, and only with an empty queue, while a
node is queued only with no permit available. The rest is about nodes: `NodesInv` says who may
refer to one (its maker, and the queue or one signaller, never both), that a node not yet
queued is known to nobody else, that one still waiting can be found in the queue or in a
hand, and that one whose flag is down has its wakeup. The last needs the wait set of each
node to have its maker as only waiter, which is why an event, that loses wakeups elsewhere,
loses none here. `PermitsAccounted` is a sum over the threads of what each of them has or has
been granted; each step moves a permit between two summands. It also needs `Owned`: a node
still waiting, that `отпусти` can reach, has its thread, so that a permit given to it is granted
to somebody. The contract follows when `права_` cannot be negative: the steps that grant a
permit are those where the contract lets a thread pass.

**FIFOReadWriteLock.** `EntryIsSemaphore` shows step by step that the lock only calls the
operations of its entry, each at a moment the semaphore allows: the composition implements
the semaphore with no refinement mapping but the identity, and every theorem about the
semaphore holds inside the lock. In particular its one permit is in one hand (`OneHand`). While
a writer has it no reader can count itself in, so that the writer's copy of `читатели` stays
true (`Placed`) although it is read and used under no monitor; and the difference of the two
counters is the number of readers inside, or less by `Wrap` when one of them has wrapped
(`ReadersCounted`). With `FewThreads` the two cannot be confused: equal counters mean that
nobody is inside.

**ReadWriteLock.** Three invariants, each on top of the one before. `HoldsAndPhases`: the
controller's counts are the sums of the holds, and a thread in a call holds nothing but what
a re-entrant reader may; `Exclusion` follows. `PlacesInv`: who waits in which wait set, and
that each waiting count is the number of threads in that loop. `ServedInv`: a sleeping reader
that could go on has somebody about to signal, since only a writer keeps it asleep and
whoever takes the last writer away has chosen that signal; a sleeping writer has a chain of
successors, of which each, when it gives up, passes the notification on.

**Gates.** `TypeOK`, `NoEarlyPassage`, `NobodyAsleep`, `GateParked` and `Opened`, which ties
the gate's fields to the number of calls of `отпусти`. With `Opened` a gate somebody has
passed is open, so nobody starts to wait (`StaysOpen`), and an `отпусти` that does not
notify finds the gate open already or leaves it shut (`NobodyAsleep`).

**CyclicBarrier.** `PartyInv`: nobody is of a generation still to come, and while the barrier
is not broken a member's index is at least `счёт_` (`Descending`), so that the next one to
come gets a smaller one: slow leavers of earlier generations do not matter. `Outcomes`, on top
of it, bounds how the calls of each generation may have ended: none before it begins, only
early leavers while it lasts, and none of those if it ends by itself.

**LinkedChannels.** `PlacesCounted`: every place is free, promised to the put that has the
permit, or taken. A promised place stays: the put keeps `стражПомещения_`, which
`установиЁмкость` needs, until it has linked. `PermitsSplit` and the bound of `KeepsContract`
follow, on any platform. `NobodyStranded` needs its three parts together: `TakersServed` (for
the bounded class a put about to announce, for the other as many takers woken as items),
`PutterServed`, and `TakersCounted`, since the linked class leaves `уведоми` out when
`ожиданиеЗабора_` says that nobody waits.

**QueuedExecutor.** `OneWorker` is inductive as it stands: a worker is started only when
`нить_` is empty, and empties it only as its last step. `AtMostOneMore` needs `LateOnce`: the
worker that begins the late task has left `возьми` already, and every way back to it passes
the test of `прерывание_`, which is never lowered.

**Rendezvous.** `PartyBase` holds always: types, who waits is inside, the gate is balanced,
the items under way are items of their own. `Orderly` holds until a thread intrudes on a
broken meeting. A meeting that is not broken is collected, then left: `InsideCounted` says
that `вхождения_`, then `отправлены_`, counts those inside; while it is collected each slot is
the item of the thread with that index (`Collected`); when it is left the slots are the items of
one meeting, no two alike, and those of whoever is still inside are not given
(`Dealt`). That no item under way has been received yet (`NotReceived`) carries
the uniqueness from one meeting to the next.

**SynchronousChannel.** A node is queued once or is in one partner's hands, never both, and
has one owner at most (`NodesOwned`). That owner has not been settled with and has not
cancelled, and a put's node without an owner is a cancelled one (`NodesUnmet`), so that a
partner that finds a live node meets somebody. What remains are the slots that failed takes
leave behind: a put that fills one loses its item. `LossesCounted` says that the items lost
and the slots left are together never more than the failed takes, which bounds `HandOver`.
`Findable` is `NobodyMissed` with the queue or the hand where each waiting node is.

**Only model-checked** are the liveness properties, `HandedOn`, `AllLeave`, `EveryoneLeaves`,
`PutterProceeds` and `ShutdownCompletes`: they need fairness and `ENABLED`, for which the
prover has no rules. The violation `latch_windows` shows is of that kind too.

## 5. Assumptions and limits

* A monitor admits one thread and is held until the method returns or waits. The
  components above take it so; `RuntimeLocks` shows it for the runtime's code and the way
  `object_.d` makes monitors.
* `жди` returns with the monitor. On Windows the code re-enters it with
  `_d_monitorenter(&объ)`, the address of a local variable, where the linux code
  passes `объ`. What that does is not expressible here; the modules model the
  intent.
* `waitnotify.d` reaches into the monitor's layout; the model takes the layout to
  be right. The recursion count of a monitor is in `RuntimeLocks` only: no class
  waits with more than one level held.
* Integers are unbounded. `права_` is 64 bits wide and `счёт_` 32; no run comes
  near.
* A thread has one hold of `ЧЗЗамокПВПВ` at a time: the class knows no owners, and a reader
  that asks again while a writer waits would wait for itself.
* A thread releases a lock that it holds. The semaphores may be released by anybody
  (`ReleaseN` of both modules; `отпусти()` by a thread that holds nothing is its case n = 1).
* A lock the program supplies for an object's monitor excludes, as `Мютекс` does. One that
  does not (`Читатель` of `DinrusBase/src/sync.d`) gives `synchronized` another meaning,
  which is not modelled.
* A `пытайся` that is refused without waiting (no time was given) changes nothing in
  the semaphores and is left out there.
* A step that a method makes under one node's monitor inside another's
  (`голова_`, `последний_` of the channels) is merged with the method's step, because
  no other thread can see the state between.
* The executor's channel is the contract of a channel and not `LinkedChannels` itself;
  `KeepsContract`, checked and proved (`ChannelKept`), justifies it for safety.

## 6. Not modelled

* `КатушечныйИсполнитель` (`pooledexecutor.d`): its new threads are given the command and
  not the worker's loop (line 515), so no worker ever runs, the pool never
  shrinks, and `дренируй` (671) has no exit. There is no running design to be faithful to.
* `СлойныйСинх`, `ТаймаутСинх` (`syncutils.d`), `БлокированныйИсполнитель`: they keep no
  state and call one or two `Синх` in a fixed order, with one `catch` or `finally`; what
  they promise is what `SyncContract` says of each.
* The arithmetic of the timeouts (`таймаут*1000` in 32 bits, milliseconds cut to 32 bits, a
  remainder of 0 that is INFINITE): time is abstract in all modules.
* The synchronized variables: one critical section over one field each; the only
  method over two, `swap`, is commented out.
* `prioritysemaphore.d` and `synchtimer.d` do not compile against this library.
* The destructor of the queued executor and the static destructor of monitors.
* The rest of the repository: see "components" in `PROJECT.json`.

## 7. Plan

1. Proofs: every safety property that a run checks is proved. What is left are properties that
   no run states yet: what a `рестарт` of the barrier or of the rendezvous leaves behind, that
   a task of the executor which is accepted is begun, drained or still queued, and a
   bound on the threads that are overlooked when one event takes two notifications.
2. A module on the arithmetic of the timeouts.
3. The layered lock over two `SyncContract`s, if it gets a property of its own.
