-------------------------- MODULE FIFOReadWriteLock --------------------------
(***************************************************************************)
(* readwritelockutils.d: ЧЗЗамокПВПВ, composed with the СемафорПВПВ of     *)
(* QueuedSemaphore that it is built on.  The entry's one permit is held by *)
(* a reader while it counts itself in, and by a writer until it releases   *)
(* the lock.  A writer waits, with the permit, until all who have entered  *)
(* as readers have left; the lock's own monitor covers эксчитатели and that*)
(* wait, but not читатели, which belongs to whoever has the permit.        *)
(***************************************************************************)
EXTENDS QueuedSemaphore

CONSTANTS Uses,     (* subset of {"alone", "lock"}: the semaphore by itself,*)
                    (* or as the entry of a lock                           *)
          Wrap,     (* the counters are numbers modulo Wrap (2^32 in code) *)
          LockNodes (* bound: nodes alive at once at the entry of a lock   *)

ASSUME FIFOAssumption ==
  /\ Uses \subseteq {"alone", "lock"}
  /\ Wrap \in Nat \ {0} /\ LockNodes \in Nat

VARIABLES
  chitateli,    (* читатели: readers that have entered, never reset        *)
  ekschitateli, (* эксчитатели: readers that have left                     *)
  r,            (* a writer's copy of читатели                             *)
  monitor,      (* the wait set of the lock                                *)
  role,         (* what a thread enters for, until it has it               *)
  place,        (* where it is once it has the permit                      *)
  use           (* what the semaphore is used for; never changes           *)

entryVars == vars
lockVars  == <<chitateli, ekschitateli, r, monitor, role, place, use>>
counters  == <<chitateli, ekschitateli>>

Roles == {"none", "read", "write", "tryWrite"}
LockPlaces == {"out", "reading", "looked", "waiting", "writing"}

LockTypeOK ==
  /\ TypeOK
  /\ chitateli \in 0..(Wrap - 1) /\ ekschitateli \in 0..(Wrap - 1)
  /\ r \in [Threads -> 0..(Wrap - 1)]
  /\ WaitSetOK(monitor, Threads)
  /\ role \in [Threads -> Roles] /\ place \in [Threads -> LockPlaces]
  /\ use \in Uses

Incremented(n) == (n + 1) % Wrap

Put(t, p) == place' = [place EXCEPT ![t] = p]

------------------------------------------------------------------------------
\* обрети and пытайся of either side begin with the same call on the entry.
Begin(t, for) ==
  /\ place[t] = "out"
  /\ prava_ <= 0 => Cardinality(Nodes \ Unreferenced) < LockNodes
  /\ \E call \in CASE for = "read"     -> {"acquire", "attempt"}
                   [] for = "write"    -> {"acquire"}
                   [] for = "tryWrite" -> {"attempt"} :
       PreCheck(t, call)
  /\ role' = [role EXCEPT ![t] = for]
  /\ UNCHANGED <<counters, r, monitor, place, use>>

\* A step inside the entry's обрети, пытайся or отпусти.  When it refuses or
\* fails, so does the call on the lock.
EntryStep(t) ==
  /\ \/ \E call \in {"acquire", "attempt"} :
          Recheck(t, call) \/ Passes(t, call) \/ WaitAgain(t, call)
     \/ GiveUp(t) \/ WaitFailed(t) \/ KernelStep(t)
     \/ GetSignaller(t) \/ Signal(t)
  /\ role' = IF phase'[t] = "idle" THEN [role EXCEPT ![t] = "none"] ELSE role
  /\ UNCHANGED <<counters, r, monitor, place, use>>

Entered(t, for) == phase[t] = "held" /\ place[t] = "out" /\ role[t] = for

\* обретиЧтение, пытайсяЧитать: ++читатели; then the entry's отпусти begins.
CountIn(t) ==
  /\ Entered(t, "read")
  /\ chitateli' = Incremented(chitateli)
  /\ Release(t)
  /\ Put(t, "reading")
  /\ UNCHANGED <<ekschitateli, r, monitor, role, use>>

\* отпустиЧтение that tells nobody.
EndRead_Silent(t) ==
  /\ place[t] = "reading" /\ phase[t] = "idle"
  /\ ekschitateli' = Incremented(ekschitateli)
  /\ Put(t, "out")
  /\ UNCHANGED <<chitateli, r, monitor, role, use>> /\ UNCHANGED entryVars

\* отпустиЧтение.  It compares with читатели as it is now: a reader on its way
\* in may have counted itself already.
EndRead(t) ==
  /\ place[t] = "reading" /\ phase[t] = "idle"
  /\ ekschitateli' = Incremented(ekschitateli)
  /\ monitor' \in IF ekschitateli' = chitateli THEN Uvedomi(monitor) ELSE {monitor}
  /\ Put(t, "out")
  /\ UNCHANGED <<chitateli, r, role, use>> /\ UNCHANGED entryVars

\* обретиЗапись, пытайсяПисать: r = читатели, under no monitor.
Look(t) ==
  /\ Entered(t, "write") \/ Entered(t, "tryWrite")
  /\ r' = [r EXCEPT ![t] = chitateli]
  /\ Put(t, "looked")
  /\ UNCHANGED <<counters, monitor, role, use>> /\ UNCHANGED entryVars

\* At the head of the loop, under the lock's monitor.
AtTest(t) ==
  place[t] = "looked" \/ (place[t] = "waiting" /\ monitor.at[t] = "awake")

MayWrite(t) == ekschitateli = r[t]

\* A loop that believes what woke it.
StartWrite_If(t) ==
  /\ AtTest(t) /\ (place[t] = "looked" => MayWrite(t))
  /\ monitor' = Resume(monitor, t)
  /\ Put(t, "writing")
  /\ UNCHANGED <<counters, r, role, use>> /\ UNCHANGED entryVars

StartWrite(t) ==
  /\ AtTest(t) /\ MayWrite(t)
  /\ monitor' = Resume(monitor, t)
  /\ Put(t, "writing")
  /\ UNCHANGED <<counters, r, role, use>> /\ UNCHANGED entryVars

AwaitReaders(t) ==
  /\ AtTest(t) /\ ~MayWrite(t)
  /\ monitor' = Zhdi(monitor, t)
  /\ Put(t, "waiting")
  /\ UNCHANGED <<counters, r, role, use>> /\ UNCHANGED entryVars

\* The entry's отпусти begins, and the thread has nothing more.
Leave(t) ==
  /\ Release(t)
  /\ Put(t, "out")
  /\ role' = [role EXCEPT ![t] = "none"]
  /\ r' = [r EXCEPT ![t] = 0]
  /\ UNCHANGED <<counters, use>>

\* пытайсяПисать gives up.  (It still has the lock's monitor while it gives the
\* entry back, which keeps readers from leaving, and nothing else.)
GiveUpWrite(t) ==
  /\ AtTest(t) /\ ~MayWrite(t) /\ role[t] = "tryWrite"
  /\ monitor' = Resume(monitor, t)
  /\ Leave(t)

\* The catch clauses.
WriteFailed(t) ==
  /\ monitor.at[t] = "failed"
  /\ monitor' = Resume(monitor, t)
  /\ Leave(t)

\* отпустиЗапись
EndWrite(t) ==
  /\ place[t] = "writing"
  /\ Leave(t)
  /\ UNCHANGED monitor

LockKernelStep(t) ==
  /\ monitor' \in KernelSteps(monitor, t, role[t] = "tryWrite")
  /\ UNCHANGED <<counters, r, role, place, use>> /\ UNCHANGED entryVars

------------------------------------------------------------------------------
LockInit ==
  /\ use \in Uses
  /\ Init /\ (use = "lock" => prava_ = 1)
  /\ chitateli = 0 /\ ekschitateli = 0
  /\ r = [t \in Threads |-> 0]
  /\ \E n \in Nodes : monitor = NewWaitSet(OS(n), Threads)
  /\ role = [t \in Threads |-> "none"] /\ place = [t \in Threads |-> "out"]

LockNext ==
  \E t \in Threads :
    \/ \E for \in {"read", "write", "tryWrite"} : Begin(t, for)
    \/ EntryStep(t)
    \/ CountIn(t) \/ EndRead(t)
    \/ Look(t) \/ StartWrite(t) \/ AwaitReaders(t) \/ GiveUpWrite(t)
    \/ WriteFailed(t) \/ EndWrite(t) \/ LockKernelStep(t)

\* The semaphore in the hands of anybody, or in the lock's.
UseNext ==
  \/ use = "alone" /\ Next /\ UNCHANGED lockVars
  \/ use = "lock" /\ LockNext

UseSpec == LockInit /\ [][UseNext]_<<entryVars, lockVars>>
------------------------------------------------------------------------------
At(p) == {t \in Threads : place[t] = p}

(* A writer is alone: once it is past its wait there is no reader that has  *)
(* entered and not left, and no other writer, although nothing but the      *)
(* entry's permit keeps читатели from changing after it has been copied.    *)
WriterAlone ==
  At("writing") # {} => At("reading") = {} /\ Cardinality(At("writing")) = 1

(* "We will never miss an opportunity to send a notification when it is     *)
(* actually needed": a writer that waits for readers is the only one, and   *)
(* sleeps only while a reader is inside, although a reader that leaves      *)
(* compares with a count that may change meanwhile.                         *)
NeverMissed ==
  /\ Cardinality(At("waiting")) <= 1
  /\ At("waiting") # {} /\ At("reading") = {} => Alert(monitor)
=============================================================================
