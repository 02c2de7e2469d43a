------------------------------ MODULE Semaphore ------------------------------
(***************************************************************************)
(* semaphore.d and fairsemaphore.d: Семафор and its subclass ЯсныйСемафор, *)
(* which makes newcomers wait behind those already waiting.  Methods are   *)
(* synchronized and modelled as in Mutex, with one exception: the          *)
(* отпусти(n) of Семафор itself takes no monitor.  Its read and write of   *)
(* права_ and each of its уведоми are steps of their own, and a thread that*)
(* has found no permit still owns the monitor until it is in жди, which    *)
(* stops synchronized methods but not that one.                            *)
(*                                                                         *)
(* A thread holds at most one permit.  A semaphore has no owner: отпусти   *)
(* and отпусти(n) may be called by a thread that holds none, which issues  *)
(* new permits.                                                            *)
(***************************************************************************)
EXTENDS Integers, FiniteSets, WaitNotify

CONSTANTS Threads,    (* the threads that use the semaphore                *)
          Systems,    (* platforms                                         *)
          Classes,    (* subset of {"plain", "fair"}                       *)
          Seeds,      (* arguments of the constructor, perhaps negative    *)
          MaxIssued   (* bound: permits ever issued                        *)

NoThread == "none"

ASSUME SemaphoreAssumption ==
  /\ Systems \subseteq Platforms
  /\ Classes \subseteq {"plain", "fair"}
  /\ Seeds \subseteq Int
  /\ MaxIssued \in Int
  /\ NoThread \notin Threads

VARIABLES
  prava_,    (* available permits                                          *)
  zhdut_,    (* ждут_: the waiting threads, as ЯсныйСемафор counts them    *)
  monitor,   (* the wait set of the object's monitor                       *)
  parking,   (* the thread that found no permit and still owns the monitor *)
  phase,     (* the call each thread is in                                 *)
  seen,      (* отпусти(n) without monitor: the value of права_ it read    *)
  left,      (* ... and its n, then the уведоми still to be called         *)
  issued,    (* history: the seed and the permits issued by non-holders    *)
  unsync,    (* history: has an отпусти(n) without monitor written, and    *)
             (* did права_ change between its read and its write?          *)
  cls        (* the class of the object; never changes                     *)

vars ==
  <<prava_, zhdut_, monitor, parking, phase, seen, left, issued, unsync, cls>>

Phases == {"idle", "acquire", "attempt", "held", "add", "notify"}

TypeOK ==
  /\ prava_ \in Int /\ zhdut_ \in Nat /\ issued \in Int
  /\ WaitSetOK(monitor, Threads)
  /\ parking \in Threads \cup {NoThread}
  /\ phase \in [Threads -> Phases]
  /\ seen \in [Threads -> Int] /\ left \in [Threads -> Nat]
  /\ unsync \in {"none", "clean", "raced"} /\ cls \in Classes

Goto(t, p) == phase' = [phase EXCEPT ![t] = p]

bulkVars == <<seen, left, issued, unsync, cls>>

\* t enters a synchronized method, or comes back from жди in one.
Entering(t) == parking = NoThread /\ phase[t] = "idle"
Returning(t, call) ==
  parking = NoThread /\ phase[t] = call /\ monitor.at[t] = "awake"

\* A newcomer to ЯсныйСемафор leaves the permits of those who wait alone.
MayPass == IF cls = "fair" THEN prava_ > zhdut_ ELSE prava_ > 0

\* ++ждут_ before the waiting loop and --ждут_ on every way out of it.
JoinQueue  == zhdut_' = zhdut_ + (IF cls = "fair" THEN 1 ELSE 0)
LeaveQueue == zhdut_' = zhdut_ - (IF cls = "fair" THEN 1 ELSE 0)

\* The newcomer's test and, if it fails, the first жди.  (A пытайся that is
\* given no time and finds no permit changes nothing, and is left out.)
Enter(t, call) ==
  /\ Entering(t)
  /\ \/ /\ MayPass
        /\ prava_' = prava_ - 1
        /\ Goto(t, "held")
        /\ UNCHANGED <<zhdut_, monitor, parking>>
     \/ /\ ~MayPass
        /\ JoinQueue
        /\ Goto(t, call)
        /\ parking' = t
        /\ UNCHANGED <<prava_, monitor>>
  /\ UNCHANGED bulkVars

\* жди releases the monitor.
Park(t) ==
  /\ parking = t
  /\ monitor' = Zhdi(monitor, t)
  /\ parking' = NoThread
  /\ UNCHANGED <<prava_, zhdut_, phase>> /\ UNCHANGED bulkVars

\* The waiting loop with `if` for `while`.
Retry_If(t, call) ==
  /\ Returning(t, call)
  /\ monitor' = Resume(monitor, t)
  /\ prava_' = prava_ - 1
  /\ LeaveQueue
  /\ Goto(t, "held")
  /\ UNCHANGED parking /\ UNCHANGED bulkVars

\* The waiting loop: take a permit, or wait again.
Retry(t, call) ==
  /\ Returning(t, call)
  /\ monitor' = Resume(monitor, t)
  /\ \/ /\ prava_ > 0
        /\ prava_' = prava_ - 1
        /\ LeaveQueue
        /\ Goto(t, "held")
        /\ UNCHANGED parking
     \/ /\ prava_ <= 0
        /\ parking' = t
        /\ UNCHANGED <<prava_, zhdut_, phase>>
  /\ UNCHANGED bulkVars

\* A timed wait that gives up without --ждут_.
GiveUp_Queued(t) ==
  /\ Returning(t, "attempt")
  /\ prava_ <= 0
  /\ monitor' = Resume(monitor, t)
  /\ Goto(t, "idle")
  /\ UNCHANGED <<zhdut_, prava_, parking>> /\ UNCHANGED bulkVars

\* The end of пытайся when the time is up: the permits are looked at first.
GiveUp(t) ==
  /\ Returning(t, "attempt")
  /\ prava_ <= 0
  /\ monitor' = Resume(monitor, t)
  /\ LeaveQueue
  /\ Goto(t, "idle")
  /\ UNCHANGED <<prava_, parking>> /\ UNCHANGED bulkVars

\* A failed wait that returns a permit it never took.
WaitFailed_Returns(t) ==
  /\ parking = NoThread
  /\ monitor.at[t] = "failed"
  /\ monitor' \in Uvedomi(Resume(monitor, t))
  /\ prava_' = prava_ + 1
  /\ LeaveQueue
  /\ Goto(t, "idle")
  /\ UNCHANGED parking /\ UNCHANGED bulkVars

\* The catch clauses.
WaitFailed(t) ==
  /\ parking = NoThread
  /\ monitor.at[t] = "failed"
  /\ monitor' \in Uvedomi(Resume(monitor, t))
  /\ LeaveQueue
  /\ Goto(t, "idle")
  /\ UNCHANGED <<prava_, parking>> /\ UNCHANGED bulkVars

\* отпусти() by a thread that holds a permit.
Release(t) ==
  /\ parking = NoThread
  /\ phase[t] = "held"
  /\ prava_' = prava_ + 1
  /\ monitor' \in Uvedomi(monitor)
  /\ Goto(t, "idle")
  /\ UNCHANGED <<zhdut_, parking>> /\ UNCHANGED bulkVars

\* Several permits, one уведоми.
ReleaseN_One(t, n) ==
  /\ cls = "fair" \/ n = 1
  /\ Entering(t)
  /\ prava_' = prava_ + n
  /\ monitor' \in Uvedomi(monitor)
  /\ issued' = issued + n
  /\ UNCHANGED <<zhdut_, parking, phase, seen, left, unsync, cls>>

\* отпусти(n) of ЯсныйСемафор, synchronized; with n = 1 also отпусти() of
\* either class by a thread that holds no permit.
ReleaseN(t, n) ==
  /\ cls = "fair" \/ n = 1
  /\ Entering(t)
  /\ prava_' = prava_ + n
  /\ monitor' \in UvedomiN(monitor, n)
  /\ issued' = issued + n
  /\ UNCHANGED <<zhdut_, parking, phase, seen, left, unsync, cls>>

\* отпусти(n) of Семафор: the read of `права_ += n` ...
UnsyncRead(t, n) ==
  /\ cls = "plain" /\ phase[t] = "idle"
  /\ seen' = [seen EXCEPT ![t] = prava_]
  /\ left' = [left EXCEPT ![t] = n]
  /\ Goto(t, "add")
  /\ UNCHANGED <<prava_, zhdut_, monitor, parking, issued, unsync, cls>>

\* ... its write: over a concurrent update of права_ either may survive ...
UnsyncWrite(t) ==
  /\ phase[t] = "add"
  /\ \/ prava_' = seen[t] + left[t]
     \/ prava_ # seen[t] /\ prava_' = prava_
  /\ issued' = issued + left[t]
  /\ unsync' = IF prava_ # seen[t] \/ unsync = "raced" THEN "raced" ELSE "clean"
  /\ Goto(t, "notify")
  /\ UNCHANGED <<zhdut_, monitor, parking, seen, left, cls>>

\* ... and the loop of уведоми.
UnsyncNotify(t) ==
  /\ phase[t] = "notify"
  /\ \/ /\ left[t] > 0
        /\ monitor' \in Uvedomi(monitor)
        /\ left' = [left EXCEPT ![t] = @ - 1]
        /\ UNCHANGED phase
     \/ /\ left[t] = 0
        /\ Goto(t, "idle")
        /\ UNCHANGED <<monitor, left>>
  /\ UNCHANGED <<prava_, zhdut_, parking, seen, issued, unsync, cls>>

KernelStep(t) ==
  /\ monitor' \in KernelSteps(monitor, t, phase[t] = "attempt")
  /\ UNCHANGED <<prava_, zhdut_, parking, phase>> /\ UNCHANGED bulkVars

Init ==
  /\ cls \in Classes
  /\ prava_ \in Seeds
  /\ issued = prava_
  /\ zhdut_ = 0
  /\ monitor \in {NewWaitSet(os, Threads) : os \in Systems}
  /\ parking = NoThread
  /\ phase = [t \in Threads |-> "idle"]
  /\ seen = [t \in Threads |-> 0] /\ left = [t \in Threads |-> 0]
  /\ unsync = "none"

Acquire(t) == Enter(t, "acquire") \/ Retry(t, "acquire")
Attempt(t) == Enter(t, "attempt") \/ Retry(t, "attempt") \/ GiveUp(t)

\* The permits of unfinished отпусти(n) are within the bound too.
Pending == FoldSet(LAMBDA t, sum : sum + left[t], 0, {t \in Threads : phase[t] = "add"})

Donate(t) ==
  \E n \in 1..(MaxIssued - issued - Pending) : ReleaseN(t, n) \/ UnsyncRead(t, n)

Next ==
  \E t \in Threads :
    \/ Acquire(t) \/ Attempt(t) \/ Park(t) \/ WaitFailed(t)
    \/ Release(t) \/ Donate(t) \/ UnsyncWrite(t) \/ UnsyncNotify(t)
    \/ KernelStep(t)

Spec == Init /\ [][Next]_vars
------------------------------------------------------------------------------
Holders == {t \in Threads : phase[t] = "held"}
InLoop  == {t \in Threads : phase[t] \in {"acquire", "attempt"}}

(* Every permit issued is available or held, through timeouts, failed waits *)
(* and bulk releases; only two updates of права_ that overlap because       *)
(* отпусти(n) of Семафор takes no monitor can break this.                   *)
PermitsConserved == unsync # "raced" => prava_ + Cardinality(Holders) = issued

(* ЯсныйСемафор's ждут_ is the number of threads in its waiting loops: a    *)
(* path out of a loop that forgot --ждут_ would bar newcomers for ever.     *)
QueueCounted ==
  zhdut_ = IF cls = "fair" THEN Cardinality(InLoop) ELSE 0

(* Wakeups.  On linux enough threads are on their way back to the monitor   *)
(* for all available permits as long as anybody sleeps.  A Windows event    *)
(* holds one notification at most, so there a sleeper can be overlooked,    *)
(* but only while some other thread holds a permit, whose отпусти will      *)
(* notify again.                                                            *)
EnoughAwake == prava_ <= Cardinality(Resuming(monitor))

NoLostWakeup ==
  (unsync = "none" /\ Asleep(monitor) # {}) =>
    IF monitor.os = "linux"
    THEN EnoughAwake
    ELSE prava_ > 0 => (Alert(monitor) \/ Holders # {})

Contract ==
  INSTANCE SyncContract
  WITH permits <- issued,
       passed  <- issued - prava_,
       phase   <- [t \in Threads |->
                     IF phase[t] \in {"add", "notify"} THEN "idle" ELSE phase[t]]

(* Both classes do what sync.d allows and nothing else, as long as no       *)
(* unsynchronized отпусти(n) has raced: nobody passes without a permit.     *)
KeepsContract ==
  [][unsync' = "raced" \/ Contract!Next \/ UNCHANGED Contract!vars]_vars
==============================================================================
