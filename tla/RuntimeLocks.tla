---------------------------- MODULE RuntimeLocks ----------------------------
(***************************************************************************)
(* monitor.c and critical.c of the runtime: the locks under `synchronized`.*)
(* A lock is made when a thread first needs it.  Every entry tests, without*)
(* any lock, whether it has been made; if not, the thread takes a global   *)
(* lock and tests again.  There are four ways to go on:                    *)
(*                                                                         *)
(*   create    object_.d's _d_monitorenter: _d_monitor_create fills in the *)
(*             new monitor and then publishes it                           *)
(*   enter     monitor.c's own _monitorenter (_d_monitorenter on linux):   *)
(*             publishes the monitor and then initialises its mutex        *)
(*   critical  _d_criticalenter on Windows: links the section into the list*)
(*             and then initialises its mutex                              *)
(*   lazy      _d_criticalenter on linux, which also makes the global lock *)
(*             itself on first use, with nothing to protect that           *)
(*                                                                         *)
(* Locking a mutex that has not been initialised, and initialising the     *)
(* global one twice, are undefined; from then on `race` is TRUE, and the   *)
(* model shows outcomes, such as two threads inside, but not all of them.  *)
(***************************************************************************)
EXTENDS Locking, Sequences, SequencesExt

CONSTANTS Locks,     (* objects, or sections of critical.c                 *)
          Paths,     (* which of the four ways the program is built with   *)
          MaxDepth   (* bound: nested entries of one thread into one lock  *)

NoLock == "nothing"

AllPaths == {"create", "enter", "critical", "lazy"}

ASSUME RuntimeAssumption ==
  /\ Paths \subseteq AllPaths
  /\ MaxDepth \in Nat
  /\ NoLock \notin Locks

VARIABLES
  path,       (* the way chosen; never changes                             *)
  started,    (* the global lock has been made                             *)
  global,     (* the owner of the global lock, as the lock sees it         *)
  published,  (* locks whose unlocked test succeeds: h->monitor, dcs->next *)
  ready,      (* locks whose mutex is initialised                          *)
  owner,      (* per lock: the owner, as its mutex sees it                 *)
  depth,      (* ... and how many times it has entered                     *)
  list,       (* dcs_list, the newest section first                        *)
  blocks,     (* per thread: how many monitors of its own it has allocated *)
              (* and neither published nor freed                           *)
  target,     (* the lock each thread is at its place for                  *)
  race,       (* history: something undefined has happened                 *)
  ended       (* the static destructor has run                             *)

runtimeVars == <<path, started, global, published, ready, owner, depth, list,
                 blocks, phase, target, race, ended>>

RuntimePhases == {"idle", "starting", "want", "inside", "published", "leaving",
                  "lock", "held", "hung"}

RuntimeTypeOK ==
  /\ path \in Paths /\ started \in BOOLEAN
  /\ global \in Threads \cup {NoThread}
  /\ published \subseteq Locks /\ ready \subseteq Locks
  /\ owner \in [Locks -> Threads \cup {NoThread}] /\ depth \in [Locks -> Nat]
  /\ list \in Seq(Locks)
  /\ blocks \in [Threads -> Nat]
  /\ phase \in [Threads -> RuntimePhases]
  /\ target \in [Threads -> Locks \cup {NoLock}]
  /\ race \in BOOLEAN /\ ended \in BOOLEAN

Critical == path \in {"critical", "lazy"}

mutexVars == <<owner, depth>>
listVars  == <<list, ended>>

\* `if (!dcs_list)`, on linux: no lock has been used yet.  (The same test in
\* _STI_critical_init follows at once and is taken as one with it.)
FindNothingStarted(t, l) ==
  /\ phase[t] = "idle" /\ ~started /\ ~ended
  /\ target' = [target EXCEPT ![t] = l]
  /\ Goto(t, "starting")
  /\ UNCHANGED <<path, started, global, published, ready, blocks, race>>
  /\ UNCHANGED mutexVars /\ UNCHANGED listVars

\* _STI_critical_init: the global lock is made, whoever may hold it, and the
\* list begins anew.
MakeGlobal(t) ==
  /\ phase[t] = "starting"
  /\ started' = TRUE
  /\ global' = NoThread
  /\ list' = <<>>
  /\ race' = (race \/ started)
  /\ Goto(t, IF target[t] \in published THEN "lock" ELSE "want")
  /\ UNCHANGED <<path, published, ready, blocks, target, ended>>
  /\ UNCHANGED mutexVars

\* The first, unlocked test.  On the way "enter" the block for a new monitor
\* is allocated before the global lock is taken.
Look(t, l) ==
  /\ phase[t] = "idle" /\ started /\ ~ended
  /\ target' = [target EXCEPT ![t] = l]
  /\ Goto(t, IF l \in published THEN "lock" ELSE "want")
  /\ blocks' = [blocks EXCEPT ![t] = IF path = "enter" /\ l \notin published
                                     THEN @ + 1 ELSE @]
  /\ UNCHANGED <<path, started, global, published, ready, race>>
  /\ UNCHANGED mutexVars /\ UNCHANGED listVars

TakeGlobal(t) ==
  /\ phase[t] = "want" /\ global = NoThread
  /\ global' = t
  /\ Goto(t, "inside")
  /\ UNCHANGED <<path, started, published, ready, blocks, target, race>>
  /\ UNCHANGED mutexVars /\ UNCHANGED listVars

\* The second test: in the meantime another thread has set it.
FindPublished(t) ==
  /\ phase[t] = "inside" /\ target[t] \in published
  /\ Goto(t, "leaving")
  /\ UNCHANGED <<path, started, global, published, ready, blocks, target, race>>
  /\ UNCHANGED mutexVars /\ UNCHANGED listVars

\* _d_monitor_create: allocated, initialised, and published last, so that no
\* thread can see the steps.
Create(t) ==
  /\ path = "create" /\ phase[t] = "inside" /\ target[t] \notin published
  /\ published' = published \cup {target[t]}
  /\ ready' = ready \cup {target[t]}
  /\ Goto(t, "leaving")
  /\ UNCHANGED <<path, started, global, blocks, target, race>>
  /\ UNCHANGED mutexVars /\ UNCHANGED listVars

\* No second test.
Publish_Unchecked(t) ==
  /\ path # "create" /\ phase[t] = "inside"
  /\ published' = published \cup {target[t]}
  /\ blocks' = [blocks EXCEPT ![t] = IF path = "enter" THEN @ - 1 ELSE @]
  /\ list' = IF Critical THEN <<target[t]>> \o list ELSE list
  /\ Goto(t, "published")
  /\ UNCHANGED <<path, started, global, ready, target, race, ended>>
  /\ UNCHANGED mutexVars

\* The others publish first ...
Publish(t) ==
  /\ path # "create" /\ phase[t] = "inside" /\ target[t] \notin published
  /\ published' = published \cup {target[t]}
  /\ blocks' = [blocks EXCEPT ![t] = IF path = "enter" THEN @ - 1 ELSE @]
  /\ list' = IF Critical THEN <<target[t]>> \o list ELSE list
  /\ Goto(t, "published")
  /\ UNCHANGED <<path, started, global, ready, target, race, ended>>
  /\ UNCHANGED mutexVars

\* ... and then make the mutex, free and not entered, whoever may be inside.
Initialise(t) ==
  /\ phase[t] = "published"
  /\ ready' = ready \cup {target[t]}
  /\ owner' = [owner EXCEPT ![target[t]] = NoThread]
  /\ depth' = [depth EXCEPT ![target[t]] = 0]
  /\ Goto(t, "leaving")
  /\ UNCHANGED <<path, started, global, published, blocks, target, race>>
  /\ UNCHANGED listVars

\* A thread that has not used its block forgets to free it.
LeaveGlobal_Leaks(t) ==
  /\ phase[t] = "leaving"
  /\ global' = NoThread
  /\ Goto(t, "lock")
  /\ UNCHANGED <<path, started, published, ready, blocks, target, race>>
  /\ UNCHANGED mutexVars /\ UNCHANGED listVars

\* The global lock is left, and a block that was not used is freed.
LeaveGlobal(t) ==
  /\ phase[t] = "leaving"
  /\ global' = NoThread
  /\ blocks' = [blocks EXCEPT ![t] = 0]
  /\ Goto(t, "lock")
  /\ UNCHANGED <<path, started, published, ready, target, race>>
  /\ UNCHANGED mutexVars /\ UNCHANGED listVars

\* EnterCriticalSection, pthread_mutex_lock: both kinds are recursive.  A lock
\* that was supplied enters such a section too.
LockMutex(t) ==
  LET l == target[t]
  IN  /\ phase[t] = "lock" /\ l \in ready
      /\ owner[l] \in {NoThread, t}
      /\ owner' = [owner EXCEPT ![l] = t]
      /\ depth' = [depth EXCEPT ![l] = @ + 1]
      /\ Goto(t, "held")
      /\ UNCHANGED <<path, started, global, published, ready, blocks, target, race>>
      /\ UNCHANGED listVars

\* The same on memory that is no mutex yet: zeros, which pthreads may take for
\* a free mutex, and which Windows may take for one that is never released.
LockRawMemory(t) ==
  LET l == target[t]
  IN  /\ phase[t] = "lock" /\ l \notin ready
      /\ race' = TRUE
      /\ \/ /\ owner[l] \in {NoThread, t}
            /\ owner' = [owner EXCEPT ![l] = t]
            /\ depth' = [depth EXCEPT ![l] = @ + 1]
            /\ Goto(t, "held")
         \/ /\ Goto(t, "hung")
            /\ UNCHANGED mutexVars
      /\ UNCHANGED <<path, started, global, published, ready, blocks, target>>
      /\ UNCHANGED listVars

\* A nested entry: the test succeeds, and the mutex is the thread's own.
EnterAgain(t) ==
  /\ phase[t] = "held" /\ owner[target[t]] = t
  /\ depth[target[t]] < MaxDepth
  /\ depth' = [depth EXCEPT ![target[t]] = @ + 1]
  /\ UNCHANGED <<path, started, global, published, ready, owner, blocks, phase,
                 target, race>>
  /\ UNCHANGED listVars

\* _monitorexit, _d_monitor_unlock, _d_criticalexit.  (A thread whose mutex
\* has been made anew under it unlocks what it does not own: left out.)
Exit(t) ==
  LET l == target[t]
  IN  /\ phase[t] = "held" /\ owner[l] = t
      /\ depth' = [depth EXCEPT ![l] = @ - 1]
      /\ IF depth[l] = 1
         THEN /\ owner' = [owner EXCEPT ![l] = NoThread]
              /\ Goto(t, "idle")
              /\ target' = [target EXCEPT ![t] = NoLock]
         ELSE UNCHANGED <<owner, phase, target>>
      /\ UNCHANGED <<path, started, global, published, ready, blocks, race>>
      /\ UNCHANGED listVars

\* An object may be given a lock of the program's own, which object_.d calls in
\* place of the runtime's: the constructors of sync.d's Мютекс, also a critical
\* section, do so before any thread uses the object.
Supply(l) ==
  /\ path = "create" /\ l \notin published
  /\ \A t \in Threads : target[t] # l
  /\ published' = published \cup {l}
  /\ ready' = ready \cup {l}
  /\ UNCHANGED <<path, started, global, blocks, phase, target, race>>
  /\ UNCHANGED mutexVars /\ UNCHANGED listVars

\* _d_monitorrelease and _d_monitor_destroy: the object is unreachable, so no
\* thread is on its way to it.  Its memory may serve another object later.
Destroy(l) ==
  /\ ~Critical /\ l \in published
  /\ \A t \in Threads : target[t] # l
  /\ published' = published \ {l}
  /\ ready' = ready \ {l}
  /\ UNCHANGED <<path, started, global, blocks, phase, target, race>>
  /\ UNCHANGED mutexVars /\ UNCHANGED listVars

\* _STD_critical_term, when the threads are done: every section on the list is
\* destroyed, and the global one, the last of the list.
Terminate ==
  /\ Critical /\ ~ended /\ \A t \in Threads : phase[t] = "idle"
  /\ ended' = TRUE
  /\ ready' = ready \ {list[i] : i \in DOMAIN list}
  /\ list' = <<>>
  /\ started' = FALSE
  /\ UNCHANGED <<path, global, published, blocks, phase, target, race>>
  /\ UNCHANGED mutexVars

\* The static constructors have run, except that linux leaves the one of
\* critical.c to the first entry.
RuntimeInit ==
  /\ path \in Paths
  /\ started = (path # "lazy")
  /\ global = NoThread
  /\ published = {} /\ ready = {}
  /\ owner = [l \in Locks |-> NoThread] /\ depth = [l \in Locks |-> 0]
  /\ list = <<>>
  /\ blocks = [t \in Threads |-> 0]
  /\ phase = [t \in Threads |-> "idle"]
  /\ target = [t \in Threads |-> NoLock]
  /\ race = FALSE /\ ended = FALSE

RuntimeNext ==
  \/ \E t \in Threads :
       \/ \E l \in Locks : FindNothingStarted(t, l) \/ Look(t, l)
       \/ MakeGlobal(t) \/ TakeGlobal(t) \/ FindPublished(t) \/ Create(t)
       \/ Publish(t) \/ Initialise(t) \/ LeaveGlobal(t)
       \/ LockMutex(t) \/ LockRawMemory(t) \/ EnterAgain(t) \/ Exit(t)
  \/ \E l \in Locks : Supply(l) \/ Destroy(l)
  \/ Terminate

RuntimeSpec == RuntimeInit /\ [][RuntimeNext]_runtimeVars
------------------------------------------------------------------------------
HoldersOf(l) == {t \in Threads : phase[t] = "held" /\ target[t] = l}

(* `synchronized` admits one thread.  The way through _d_monitor_create that*)
(* object_.d takes keeps this always; the other three keep it as long as no *)
(* thread has come between the publication of a lock and its initialisation *)
(* or, on linux, between the two halves of _STI_critical_init.              *)
Exclusion ==
  /\ race => path # "create"
  /\ ~race => \A l \in Locks : \A s, t \in HoldersOf(l) : s = t /\ owner[l] = t

(* Nothing is lost between racing creators: the loser frees its monitor, a  *)
(* section is initialised exactly when it is on the list, and so none is    *)
(* left when the static destructor has walked the list.                     *)
NothingLost ==
  /\ \A t \in Threads : phase[t] \in {"idle", "lock", "held"} => blocks[t] = 0
  /\ Critical /\ ~race =>
       /\ \A l \in Locks : l \in ready => Contains(list, l)
       /\ \A l \in Range(list) :
            l \in ready \/ \E t \in Threads : phase[t] = "published" /\ target[t] = l
       /\ ended => ready = {}
==============================================================================
