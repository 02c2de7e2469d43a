---------------------------- MODULE SyncContract ----------------------------
(***************************************************************************)
(* What sync.d promises of a Синх, for the classes whose passage is counted*)
(* (Мютекс, Семафор and its subclasses): a normal return of обрети means   *)
(* that the permit was acquired, a failed wait and a refused пытайся mean  *)
(* that it was not, and no more threads pass than there are permits.       *)
(***************************************************************************)
EXTENDS Integers

CONSTANT Threads     (* the threads that use the object                    *)

VARIABLES phase,     (* the call each thread is in                         *)
          passed,    (* how many threads are past обрети                   *)
          permits    (* how many may be: a release by a thread that has    *)
                     (* acquired nothing adds to them                      *)

vars == <<phase, passed, permits>>

Goto(t, p) == phase' = [phase EXCEPT ![t] = p]

Init ==
  /\ phase = [t \in Threads |-> "idle"]
  /\ passed = 0
  /\ permits \in Int

\* The call has to wait.
Call(t) ==
  /\ phase[t] = "idle"
  /\ \E p \in {"acquire", "attempt"} : Goto(t, p)
  /\ UNCHANGED <<passed, permits>>

\* The call returns and the permit is the caller's, at once or after a wait.
Pass(t) ==
  /\ phase[t] \in {"idle", "acquire", "attempt"}
  /\ passed < permits
  /\ passed' = passed + 1
  /\ Goto(t, "held")
  /\ UNCHANGED permits

\* пытайся returns false, or the wait fails with ИсклОжидания.
Fail(t) ==
  /\ phase[t] \in {"acquire", "attempt"}
  /\ Goto(t, "idle")
  /\ UNCHANGED <<passed, permits>>

Release(t) ==
  /\ phase[t] = "held"
  /\ passed' = passed - 1
  /\ Goto(t, "idle")
  /\ UNCHANGED permits

\* A release without an acquire.
Donate ==
  /\ permits' \in Int /\ permits' > permits
  /\ UNCHANGED <<phase, passed>>

Next ==
  \/ \E t \in Threads : Call(t) \/ Pass(t) \/ Fail(t) \/ Release(t)
  \/ Donate

Spec == Init /\ [][Next]_vars
=============================================================================
