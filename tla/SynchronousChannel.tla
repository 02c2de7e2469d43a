------------------------- MODULE SynchronousChannel -------------------------
(***************************************************************************)
(* synchronouschannel.d: СинхронныйКанал, where each put meets one take.   *)
(* Whoever comes first leaves a node in one of two queues and waits on it; *)
(* whoever comes second takes the node out and then, under the node's own  *)
(* monitor, fills it (the slot of a taker) or empties it (the item of a    *)
(* putter) and notifies.  A node that its owner has cancelled in between   *)
(* sends the second thread back to the queues.                             *)
(*                                                                         *)
(* Items are all alike: what matters is that puts and takes meet one to    *)
(* one.  A queue is a sequence of nodes, the oldest first.  A taker whose  *)
(* wait fails erases the следщ of its slot outside the channel's monitor,  *)
(* perhaps while the slot is queued, which cuts off the nodes behind it:   *)
(* `cut` has the nodes that this has happened to.                          *)
(***************************************************************************)
EXTENDS Meetings, FiniteSets, SequencesExt

CONSTANTS Nodes,       (* bound: nodes that exist at one time              *)
          MaxFailures  (* bound: waits of a take that fail                 *)

NoNode == "no node"
NoCall == "none"

ASSUME SynchronousAssumption ==
  /\ MaxFailures \in Nat
  /\ NoNode \notin Nodes

VARIABLES
  queues,       (* ждущиеРазмещения and ждущиеВымещения, by side           *)
  cut,          (* nodes whose следщ has been erased while they were queued*)
  full,         (* nodes whose значение is not T.init                      *)
  otmenyon,     (* nodes whose отменён is set                              *)
  waits,        (* the wait set of the node each thread is the owner of; no*)
                (* other thread waits on a node                            *)
  call,         (* the call each thread is in: помести, предложи, возьми,  *)
                (* запроси                                                 *)
  place,        (* where it is there: "start", about to enter the channel's*)
                (* monitor; "meet", with a partner's node; "own" or "wait",*)
                (* at its own node, before or in жди                       *)
  node,         (* the node it is at: its own, or its partner's            *)
  balance,      (* history: puts that returned, less takes that did        *)
  failedTakes   (* history: takes whose wait failed                        *)

vars == <<queues, cut, full, otmenyon, waits, call, place, node,
          balance, failedTakes>>

Sides == {"put", "take"}
Calls == {"put", "offer", "take", "poll"}

Side(c) == IF c \in {"put", "offer"} THEN "put" ELSE "take"
Timed(c) == c \in {"offer", "poll"}

OtherSide(c) == IF Side(c) = "put" THEN "take" ELSE "put"

history == <<balance, failedTakes>>

\* The nodes some thread or queue still refers to.
Referenced ==
  {node[t] : t \in Threads} \cup UNION {ToSet(queues[s]) : s \in Sides}

\* A put that returns and a take that returns an item.
Count(c) == balance' = balance + (IF Side(c) = "put" THEN 1 ELSE -1)

Move(t, c, p, n) ==
  /\ call' = [call EXCEPT ![t] = c]
  /\ place' = [place EXCEPT ![t] = p]
  /\ node' = [node EXCEPT ![t] = n]

Leave(t) == Move(t, NoCall, "idle", NoNode)

\* A thread leaves its own node, which nobody will wait on again.
Abandon(t) == waits' = [waits EXCEPT ![t] = NewWaitSet(@.os, {t})]

AtOwn == {t \in Threads : place[t] \in {"own", "wait"}}
Owners(n) == {t \in AtOwn : node[t] = n}

\* уведоми on a node, whose owner may have left.
Notify(n) ==
  \/ /\ Owners(n) = {}
     /\ UNCHANGED waits
  \/ \E t \in Owners(n) : \E w \in Uvedomi(waits[t]) :
       waits' = [waits EXCEPT ![t] = w]

------------------------------------------------------------------------------
\* A call begins, or starts again.
Starts(t, c) == place[t] = "idle" \/ (place[t] = "start" /\ call[t] = c)

\* Очередь.deq: behind a node whose следщ is пусто there is nothing.
Dequeued(q) == IF Head(q) \in cut THEN <<>> ELSE Tail(q)

\* A partner waits: its node is taken out.
Match(t, c) ==
  LET s == OtherSide(c)
  IN  /\ Starts(t, c) /\ queues[s] # <<>>
      /\ queues' = [queues EXCEPT ![s] = Dequeued(@)]
      /\ cut' = cut \ {Head(queues[s])}
      /\ Move(t, c, "meet", Head(queues[s]))
      /\ UNCHANGED <<full, otmenyon, waits>> /\ UNCHANGED history

\* Nobody waits: a new node is queued.  Очередь.enq sets the следщ of the last
\* node, also of one whose следщ had been erased.
Enqueue(t, c) ==
  LET s == Side(c)
      q == queues[s]
  IN  /\ Starts(t, c) /\ queues[OtherSide(c)] = <<>>
      /\ \E n \in Nodes \ Referenced :
           /\ queues' = [queues EXCEPT ![s] = Append(@, n)]
           /\ cut' = IF q = <<>> THEN cut ELSE cut \ {Last(q)}
           /\ full' = IF s = "put" THEN full \cup {n} ELSE full \ {n}
           /\ otmenyon' = otmenyon \ {n}
           /\ Move(t, c, "own", n)
      /\ UNCHANGED waits /\ UNCHANGED history

\* A timed call that has started again finds nobody and has no time left.  (One
\* without any time at the start changes nothing and is left out.)
Refused(t) ==
  /\ place[t] = "start" /\ Timed(call[t]) /\ queues[OtherSide(call[t])] = <<>>
  /\ Leave(t)
  /\ UNCHANGED <<queues, cut, full, otmenyon, waits>> /\ UNCHANGED history

\* A hand-over without the notification.
Meet_Silent(t) ==
  LET n == node[t]
  IN  /\ place[t] = "meet" /\ n \notin otmenyon
      /\ full' = IF Side(call[t]) = "put" THEN full \cup {n} ELSE full \ {n}
      /\ Count(call[t])
      /\ Leave(t)
      /\ UNCHANGED <<queues, cut, otmenyon, waits, failedTakes>>

\* Under the partner's node: hand over ...
Meet(t) ==
  LET n == node[t]
  IN  /\ place[t] = "meet" /\ n \notin otmenyon
      /\ full' = IF Side(call[t]) = "put" THEN full \cup {n} ELSE full \ {n}
      /\ Notify(n)
      /\ Count(call[t])
      /\ Leave(t)
      /\ UNCHANGED <<queues, cut, otmenyon, failedTakes>>

\* ... or start again.  (Nobody refers to the node any more: it is taken out of
\* the sets.)
MeetCancelled(t) ==
  LET n == node[t]
  IN  /\ place[t] = "meet" /\ n \in otmenyon
      /\ Move(t, call[t], "start", NoNode)
      /\ full' = full \ {n} /\ otmenyon' = otmenyon \ {n}
      /\ UNCHANGED <<queues, cut, waits>> /\ UNCHANGED history

\* The partner has done its part.
Settled(t) == (node[t] \in full) <=> (Side(call[t]) = "take")

\* The thread has the monitor of its own node, for the first time or again.
AtOwnNode(t) ==
  place[t] = "own" \/ (place[t] = "wait" /\ waits[t].at[t] = "awake")

Finish(t) ==
  /\ AtOwnNode(t) /\ Settled(t)
  /\ Abandon(t)
  /\ full' = full \ {node[t]}
  /\ Count(call[t])
  /\ Leave(t)
  /\ UNCHANGED <<queues, cut, otmenyon, failedTakes>>

Wait(t) ==
  /\ AtOwnNode(t) /\ ~Settled(t)
  /\ waits' = [waits EXCEPT ![t] = Zhdi(@, t)]
  /\ Move(t, call[t], "wait", node[t])
  /\ UNCHANGED <<queues, cut, full, otmenyon>> /\ UNCHANGED history

\* A timed call that gives up without a look at what the partner has done.
GiveUp_Unchecked(t) ==
  /\ AtOwnNode(t) /\ Timed(call[t])
  /\ otmenyon' = otmenyon \cup {node[t]}
  /\ Abandon(t)
  /\ Leave(t)
  /\ UNCHANGED <<queues, cut, full>> /\ UNCHANGED history

\* The time of a предложи or запроси is up.
GiveUp(t) ==
  /\ AtOwnNode(t) /\ Timed(call[t]) /\ ~Settled(t)
  /\ otmenyon' = otmenyon \cup {node[t]}
  /\ Abandon(t)
  /\ Leave(t)
  /\ UNCHANGED <<queues, cut, full>> /\ UNCHANGED history

\* The catch clauses of помести and предложи.
PutFails(t) ==
  LET n == node[t]
  IN  /\ place[t] = "wait" /\ Side(call[t]) = "put" /\ waits[t].at[t] = "failed"
      /\ IF Settled(t) THEN Count(call[t]) /\ UNCHANGED otmenyon
                       ELSE otmenyon' = otmenyon \cup {n} /\ UNCHANGED balance
      /\ Abandon(t)
      /\ Leave(t)
      /\ UNCHANGED <<queues, cut, full, failedTakes>>

\* That of возьми tests отменён, which only its own thread would have set, the
\* wrong way round: the slot is emptied, left as it is, and its следщ erased;
\* what was in it, or T.init, is returned.
TakeFails(t) ==
  LET n == node[t]
  IN  /\ place[t] = "wait" /\ call[t] = "take" /\ waits[t].at[t] = "failed"
      /\ failedTakes < MaxFailures /\ failedTakes' = failedTakes + 1
      /\ IF Settled(t) THEN Count(call[t]) ELSE UNCHANGED balance
      /\ full' = full \ {n}
      /\ cut' = IF Contains(queues["take"], n) THEN cut \cup {n} ELSE cut
      /\ Abandon(t)
      /\ Leave(t)
      /\ UNCHANGED <<queues, otmenyon>>

\* That of запроси cancels and throws, whatever the slot holds.
PollFails(t) ==
  LET n == node[t]
  IN  /\ place[t] = "wait" /\ call[t] = "poll" /\ waits[t].at[t] = "failed"
      /\ failedTakes < MaxFailures /\ failedTakes' = failedTakes + 1
      /\ otmenyon' = otmenyon \cup {n}
      /\ Abandon(t)
      /\ Leave(t)
      /\ UNCHANGED <<queues, cut, full, balance>>

KernelStep(t) ==
  /\ place[t] = "wait"
  /\ \E w \in KernelSteps(waits[t], t, Timed(call[t])) :
       waits' = [waits EXCEPT ![t] = w]
  /\ UNCHANGED <<queues, cut, full, otmenyon, call, place, node>>
  /\ UNCHANGED history

Init ==
  /\ queues = [s \in Sides |-> <<>>]
  /\ cut = {} /\ full = {} /\ otmenyon = {}
  /\ \E os \in Systems : waits = [t \in Threads |-> NewWaitSet(os, {t})]
  /\ call = [t \in Threads |-> NoCall]
  /\ place = [t \in Threads |-> "idle"]
  /\ node = [t \in Threads |-> NoNode]
  /\ balance = 0 /\ failedTakes = 0

Next ==
  \E t \in Threads :
    \/ \E c \in Calls : Match(t, c) \/ Enqueue(t, c)
    \/ Refused(t) \/ Meet(t) \/ MeetCancelled(t)
    \/ Finish(t) \/ Wait(t) \/ GiveUp(t)
    \/ PutFails(t) \/ TakeFails(t) \/ PollFails(t) \/ KernelStep(t)

Spec == Init /\ [][Next]_vars
------------------------------------------------------------------------------
\* Hand-overs one half of which has returned.
HalfDone(s) == {t \in AtOwn : Side(call[t]) = s /\ Settled(t)}
Outstanding == Cardinality(HalfDone("take")) - Cardinality(HalfDone("put"))

(* Puts and takes meet one to one: a put that has returned has a take that  *)
(* has the item, at the latest when it wakes, and the other way round.  An  *)
(* item is lost only where the wait of a take has failed, one at most for   *)
(* each; none is handed over twice, or by a put that reports failure.       *)
HandOver == balance - Outstanding \in 0..failedTakes

(* As long as no take has failed, whoever waits will be found: its node is  *)
(* queued, or a partner has it in hand, or the partner is done and the      *)
(* notification is not lost; and a put and a take never wait past each      *)
(* other.                                                                   *)
NobodyMissed ==
  /\ failedTakes = 0 =>
       \A t \in AtOwn :
         \/ Settled(t) /\ (t \in Asleep(waits[t]) => Alert(waits[t]))
         \/ ~Settled(t) /\ node[t] \notin otmenyon
              /\ \/ Contains(queues[Side(call[t])], node[t])
                 \/ \E u \in Threads : place[u] = "meet" /\ node[u] = node[t]
  /\ \E s \in Sides : queues[s] = <<>>
==============================================================================
