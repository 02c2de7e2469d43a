--------------------------- MODULE CommonTheorems ---------------------------
(***************************************************************************)
(* What the proofs of the components share, for any set of threads.        *)
(*                                                                         *)
(* Wait sets: each operation leaves a well-formed wait set on either       *)
(* platform, none but Zhdi and Resume changes who waits, and a notification*)
(* leaves the set alert.                                                   *)
(*                                                                         *)
(* Finite sets: induction over the subsets of a finite set, as the search  *)
(* for a least counterexample; and from it what FoldSet computes when it   *)
(* adds up a number of each thread.                                        *)
(***************************************************************************)
EXTENDS Integers, Sequences, SequencesExt, WaitNotify, Folds, FiniteSetTheorems, SequenceTheorems,
        WellFoundedInduction, TLAPS

LEMMA NewWaitSetOK ==
  ASSUME NEW T, NEW os \in Platforms
  PROVE  /\ WaitSetOK(NewWaitSet(os, T), T)
         /\ Waiting(NewWaitSet(os, T)) = {}
  BY DEF WaitSetOK, NewWaitSet, WaitSets, AtPlace, Waiting, Places, Platforms

LEMMA ZhdiOK ==
  ASSUME NEW T, NEW w, WaitSetOK(w, T), NEW t \in T
  PROVE  /\ WaitSetOK(Zhdi(w, t), T)
         /\ \A s \in T : s # t => Zhdi(w, t).at[s] = w.at[s]
         /\ Zhdi(w, t).at[t] \in {"gap", "blocked"}
         /\ Zhdi(w, t).os = w.os
  BY DEF WaitSetOK, Zhdi, WaitSets, AtPlace, Places, Platforms

LEMMA ResumeOK ==
  ASSUME NEW T, NEW w, WaitSetOK(w, T), NEW t \in T
  PROVE  /\ WaitSetOK(Resume(w, t), T)
         /\ \A s \in T : s # t => Resume(w, t).at[s] = w.at[s]
         /\ Resume(w, t).at[t] = "running"
         /\ Resume(w, t).os = w.os /\ Asleep(Resume(w, t)) \subseteq Asleep(w)
  BY DEF WaitSetOK, Resume, WaitSets, AtPlace, Places, Platforms, Asleep

LEMMA UvedomiOK ==
  ASSUME NEW T, NEW w, WaitSetOK(w, T), NEW x \in Uvedomi(w)
  PROVE  /\ WaitSetOK(x, T)
         /\ \A s \in T : \/ x.at[s] = w.at[s]
                         \/ w.at[s] = "blocked" /\ x.at[s] = "awake"
  <1>1. CASE AtPlace(w, {"blocked"}) = {}
    <2>1. x = [w EXCEPT !.event = (w.os = "windows")]
      BY <1>1 DEF Uvedomi
    <2> QED
      BY <1>1, <2>1 DEF WaitSetOK, WaitSets, AtPlace, Places, Platforms
  <1>2. CASE AtPlace(w, {"blocked"}) # {}
    <2>1. PICK t \in AtPlace(w, {"blocked"}) : x = [w EXCEPT !.at[t] = "awake"]
      BY <1>2 DEF Uvedomi
    <2> QED
      BY <2>1 DEF WaitSetOK, WaitSets, AtPlace, Places, Platforms
  <1> QED BY <1>1, <1>2

\* The same for several notifications in a row.
LEMMA UvedomiNOK ==
  ASSUME NEW T, IsFiniteSet(T), NEW w, WaitSetOK(w, T), NEW n \in Nat,
         NEW x \in UvedomiN(w, n)
  PROVE  /\ WaitSetOK(x, T)
         /\ \A s \in T : \/ x.at[s] = w.at[s]
                         \/ w.at[s] = "blocked" /\ x.at[s] = "awake"
  <1> DEFINE sleepers == AtPlace(w, {"blocked"})
             k == IF n < Cardinality(sleepers) THEN n ELSE Cardinality(sleepers)
  <1>1. IsFiniteSet(sleepers) /\ Cardinality(sleepers) \in Nat /\ sleepers \subseteq T
    <2>1. sleepers \subseteq T
      BY DEF AtPlace, WaitSetOK, WaitSets
    <2> QED
      BY <2>1, FS_Subset, FS_CardinalityType
  <1>2. PICK S \in kSubset(k, sleepers) :
          x = [w EXCEPT !.at = [t \in DOMAIN w.at |-> IF t \in S THEN "awake" ELSE w.at[t]],
                        !.event = @ \/ (k < n /\ w.os = "windows")]
    BY DEF UvedomiN
  <1>3. S \subseteq sleepers /\ Cardinality(S) = k
    BY DEF kSubset
  <1>4. k < n => S = sleepers
    BY <1>1, <1>3, FS_Subset
  <1>5. \A s \in sleepers : w.at[s] = "blocked"
    BY DEF AtPlace
  <1> HIDE DEF sleepers, k
  <1>6. /\ x.os = w.os /\ x \in WaitSets(T)
        /\ \A t \in T : x.at[t] = IF t \in S THEN "awake" ELSE w.at[t]
        /\ x.event <=> w.event \/ (k < n /\ w.os = "windows")
    BY <1>2 DEF WaitSetOK, WaitSets, Places
  <1>7. x.event => AtPlace(x, {"blocked"}) = {}
    <2>1. CASE w.event
      BY <1>6, <2>1 DEF WaitSetOK, WaitSets, AtPlace
    <2>2. CASE k < n
      BY <1>6, <1>4, <2>2 DEF AtPlace, WaitSetOK, WaitSets, sleepers
    <2> QED BY <1>6, <2>1, <2>2
  <1>8. x.os = "linux" => ~x.event /\ AtPlace(x, {"gap"}) = {}
    BY <1>6 DEF WaitSetOK, WaitSets, AtPlace
  <1> QED
    BY <1>3, <1>5, <1>6, <1>7, <1>8 DEF WaitSetOK

\* A notification given while anybody waits is not lost.
LEMMA UvedomiAlerts ==
  ASSUME NEW T, NEW w, WaitSetOK(w, T), NEW x \in Uvedomi(w), Waiting(w) # {}
  PROVE  Alert(x)
  <1>1. CASE AtPlace(w, {"blocked"}) = {}
    <2>1. x = [w EXCEPT !.event = (w.os = "windows")]
      BY <1>1 DEF Uvedomi
    <2> QED
      BY <1>1, <2>1
      DEF WaitSetOK, WaitSets, Waiting, Alert, Resuming, AtPlace, Places, Platforms
  <1>2. CASE AtPlace(w, {"blocked"}) # {}
    <2>1. PICK t \in AtPlace(w, {"blocked"}) : x = [w EXCEPT !.at[t] = "awake"]
      BY <1>2 DEF Uvedomi
    <2> QED
      BY <2>1 DEF WaitSetOK, WaitSets, Alert, Resuming, AtPlace, Places
  <1> QED BY <1>1, <1>2

\* уведомиВсех wakes whoever is blocked, which on linux is everybody asleep.
LEMMA UvedomiVsehOK ==
  ASSUME NEW T, NEW w, WaitSetOK(w, T)
  PROVE  LET x == UvedomiVseh(w) IN
         /\ WaitSetOK(x, T)
         /\ \A s \in T : \/ x.at[s] = w.at[s]
                         \/ w.at[s] = "blocked" /\ x.at[s] = "awake"
         /\ x.os = w.os /\ Asleep(x) \subseteq Asleep(w)
         /\ w.os = "linux" => Asleep(x) = {}
  BY DEF WaitSetOK, UvedomiVseh, WaitSets, AtPlace, Places, Platforms, Asleep

\* What the kernel does to a waiter keeps the set well formed, who waits in it,
\* and its alertness.
LEMMA KernelStepOK ==
  ASSUME NEW T, NEW w, WaitSetOK(w, T), NEW t \in T, NEW timed,
         NEW x \in KernelSteps(w, t, timed)
  PROVE  /\ WaitSetOK(x, T)
         /\ Waiting(x) = Waiting(w)
         /\ Alert(w) => Alert(x)
         /\ \A s \in T : s # t => x.at[s] = w.at[s]
         /\ t \in Waiting(w)
         /\ x.os = w.os /\ Asleep(x) \subseteq Asleep(w)
  <1> USE DEF WaitSetOK, WaitSets, AtPlace, Places, Platforms, Waiting, Alert,
              Resuming, Asleep
  <1>1. CASE x = EnterKernelWait(w, t) /\ MayEnterKernelWait(w, t)
    BY <1>1 DEF EnterKernelWait, MayEnterKernelWait
  <1>2. CASE x = ReturnUnnotified(w, t) /\ MayReturnUnnotified(w, t, timed)
    BY <1>2 DEF ReturnUnnotified, MayReturnUnnotified
  <1>3. CASE x = WaitError(w, t) /\ MayFail(w, t)
    BY <1>3 DEF WaitError, MayFail
  <1> QED BY <1>1, <1>2, <1>3 DEF KernelSteps

------------------------------------------------------------------------------
\* What the two operations of a queue do to the set of its elements.
LEMMA AppendSet ==
  ASSUME NEW S, NEW s \in Seq(S), NEW e \in S
  PROVE  /\ Append(s, e) \in Seq(S)
         /\ ToSet(Append(s, e)) = ToSet(s) \cup {e}
         /\ IsInjective(s) /\ e \notin ToSet(s) => IsInjective(Append(s, e))
  <1>1. /\ Append(s, e) \in Seq(S) /\ DOMAIN Append(s, e) = 1..(Len(s) + 1)
        /\ DOMAIN s = 1..Len(s) /\ Len(s) \in Nat
        /\ \A i \in 1..Len(s) : Append(s, e)[i] = s[i]
        /\ Append(s, e)[Len(s) + 1] = e
    BY AppendProperties
  <1>2. ToSet(Append(s, e)) = ToSet(s) \cup {e}
    <2>1. \A i \in 1..(Len(s) + 1) : i \in 1..Len(s) \/ i = Len(s) + 1
      BY <1>1
    <2> QED BY <1>1, <2>1 DEF ToSet
  <1>3. IsInjective(s) /\ e \notin ToSet(s) => IsInjective(Append(s, e))
    BY <1>1 DEF IsInjective, ToSet
  <1> QED BY <1>1, <1>2, <1>3

LEMMA TailSet ==
  ASSUME NEW S, NEW s \in Seq(S), s # <<>>, IsInjective(s)
  PROVE  /\ Tail(s) \in Seq(S) /\ Head(s) \in S /\ Head(s) \in ToSet(s)
         /\ ToSet(Tail(s)) = ToSet(s) \ {Head(s)}
         /\ IsInjective(Tail(s))
  <1>1. /\ Tail(s) \in Seq(S) /\ Head(s) = s[1] /\ Len(s) \in Nat \ {0}
        /\ DOMAIN s = 1..Len(s) /\ DOMAIN Tail(s) = 1..(Len(s) - 1)
        /\ \A i \in 1..(Len(s) - 1) : Tail(s)[i] = s[i + 1]
        /\ \A i \in 1..Len(s) : s[i] \in S
    OBVIOUS
  <1>2. \A i \in 2..Len(s) : s[i] # s[1] /\ Tail(s)[i - 1] = s[i]
    BY <1>1 DEF IsInjective
  <1>3. \A x : x \in ToSet(Tail(s)) <=> x \in ToSet(s) /\ x # s[1]
    <2> TAKE x
    <2>1. ASSUME x \in ToSet(Tail(s)) PROVE x \in ToSet(s) /\ x # s[1]
      <3>1. PICK i \in 1..(Len(s) - 1) : x = Tail(s)[i]
        BY <1>1, <2>1 DEF ToSet
      <3> QED BY <1>1, <1>2, <3>1 DEF ToSet
    <2>2. ASSUME x \in ToSet(s), x # s[1] PROVE x \in ToSet(Tail(s))
      <3>1. PICK i \in 1..Len(s) : x = s[i]
        BY <1>1, <2>2 DEF ToSet
      <3>2. i - 1 \in 1..(Len(s) - 1) /\ x = Tail(s)[i - 1]
        BY <1>1, <1>2, <2>2, <3>1
      <3> QED BY <1>1, <3>2 DEF ToSet
    <2> QED BY <2>1, <2>2
  <1>4. IsInjective(Tail(s))
    BY <1>1 DEF IsInjective
  <1>5. Head(s) \in S /\ Head(s) \in ToSet(s)
    BY <1>1 DEF ToSet
  <1>6. ToSet(Tail(s)) = ToSet(s) \ {Head(s)}
    <2> HIDE DEF ToSet
    <2> QED BY <1>1, <1>3
  <1> QED BY <1>1, <1>4, <1>5, <1>6

------------------------------------------------------------------------------
\* A nonempty set of natural numbers has a least element.
LEMMA LeastNat ==
  ASSUME NEW T, T \subseteq Nat, T # {}
  PROVE  \E m \in T : \A n \in T : m <= n
  <1> DEFINE R == OpToRel(<, Nat)
  <1>1. IsWellFoundedOn(R, Nat)
    BY NatLessThanWellFounded
  <1> HIDE DEF R
  <1>2. PICK m \in T : \A n \in T : ~ (<<n, m>> \in R)
    BY <1>1, WFMin
  <1>3. \A n \in T : ~ (n < m)
    BY <1>2 DEF R, OpToRel
  <1> QED BY <1>3

\* It is about a thread that sleeps.
LEMMA KernelStepMoves ==
  ASSUME NEW T, NEW w, WaitSetOK(w, T), NEW t \in T, NEW timed,
         NEW x \in KernelSteps(w, t, timed)
  PROVE  w.at[t] \in {"gap", "blocked"} /\ x.at[t] \in {"blocked", "awake", "failed"}
  <1> USE DEF WaitSetOK, WaitSets
  <1>1. CASE x = EnterKernelWait(w, t) /\ MayEnterKernelWait(w, t)
    BY <1>1 DEF EnterKernelWait, MayEnterKernelWait
  <1>2. CASE x = ReturnUnnotified(w, t) /\ MayReturnUnnotified(w, t, timed)
    BY <1>2 DEF ReturnUnnotified, MayReturnUnnotified
  <1>3. CASE x = WaitError(w, t) /\ MayFail(w, t)
    BY <1>3 DEF WaitError, MayFail
  <1> QED BY <1>1, <1>2, <1>3 DEF KernelSteps

------------------------------------------------------------------------------
\* How one thread moves in and out of a counted set.
One(b) == IF b THEN 1 ELSE 0

LEMMA CountMoves ==
  ASSUME NEW T, IsFiniteSet(T), NEW A, A \subseteq T, NEW B, B \subseteq T, NEW t \in T,
         \A s \in T : s # t => (s \in A <=> s \in B)
  PROVE  /\ Cardinality(A) \in Nat /\ Cardinality(B) \in Nat
         /\ Cardinality(B) + One(t \in A) = Cardinality(A) + One(t \in B)
  <1>1. /\ IsFiniteSet(A) /\ IsFiniteSet(B)
        /\ Cardinality(A) \in Nat /\ Cardinality(B) \in Nat
    BY FS_Subset, FS_CardinalityType
  <1>2. B = IF t \in B THEN A \cup {t} ELSE A \ {t}
    OBVIOUS
  <1>3. CASE t \in B
    BY <1>1, <1>2, <1>3, FS_AddElement DEF One
  <1>4. CASE t \notin B
    BY <1>1, <1>2, <1>4, FS_RemoveElement DEF One
  <1> QED BY <1>1, <1>3, <1>4

\* How one thread, or a set of sleepers, moves into and out of those resuming.
LEMMA ResumingMoves ==
  ASSUME NEW T, IsFiniteSet(T), NEW w, WaitSetOK(w, T), NEW x, WaitSetOK(x, T),
         NEW t \in T, \A s \in T : s # t => x.at[s] = w.at[s]
  PROVE  /\ Cardinality(Resuming(w)) \in Nat /\ Cardinality(Resuming(x)) \in Nat
         /\ Cardinality(Resuming(x)) + One(w.at[t] \in {"awake", "failed"})
              = Cardinality(Resuming(w)) + One(x.at[t] \in {"awake", "failed"})
  <1>1. /\ Resuming(w) \subseteq T /\ Resuming(x) \subseteq T
        /\ (t \in Resuming(w) <=> w.at[t] \in {"awake", "failed"})
        /\ (t \in Resuming(x) <=> x.at[t] \in {"awake", "failed"})
        /\ \A s \in T : s # t => (s \in Resuming(w) <=> s \in Resuming(x))
    BY DEF Resuming, AtPlace, WaitSetOK, WaitSets
  <1> HIDE DEF Resuming
  <1>2. /\ Cardinality(Resuming(w)) \in Nat /\ Cardinality(Resuming(x)) \in Nat
        /\ Cardinality(Resuming(x)) + One(t \in Resuming(w))
             = Cardinality(Resuming(w)) + One(t \in Resuming(x))
    BY <1>1, CountMoves
  <1> QED BY <1>1, <1>2 DEF One

\* On linux уведоми wakes one more thread, if there is any to wake.
LEMMA UvedomiWakes ==
  ASSUME NEW T, IsFiniteSet(T), NEW w, WaitSetOK(w, T), NEW x \in Uvedomi(w)
  PROVE  /\ x.os = w.os
         /\ w.os = "linux" =>
              \/ Asleep(x) = {}
              \/ Cardinality(Resuming(x)) = Cardinality(Resuming(w)) + 1
  <1>1. CASE AtPlace(w, {"blocked"}) = {}
    <2>1. x = [w EXCEPT !.event = (w.os = "windows")]
      BY <1>1 DEF Uvedomi
    <2> QED BY <1>1, <2>1 DEF WaitSetOK, WaitSets, Asleep, AtPlace
  <1>2. CASE AtPlace(w, {"blocked"}) # {}
    <2>1. PICK t \in AtPlace(w, {"blocked"}) : x = [w EXCEPT !.at[t] = "awake"]
      BY <1>2 DEF Uvedomi
    <2>2. /\ t \in T /\ w.at[t] = "blocked" /\ x.at[t] = "awake" /\ x.os = w.os
          /\ \A s \in T : s # t => x.at[s] = w.at[s]
      BY <2>1 DEF WaitSetOK, WaitSets, AtPlace
    <2>3. WaitSetOK(x, T)
      BY UvedomiOK
    <2> QED BY <2>2, <2>3, ResumingMoves DEF One
  <1> QED BY <1>1, <1>2

\* n calls of it wake n threads, or all who sleep; on either platform somebody
\* will come back.
LEMMA UvedomiNWakes ==
  ASSUME NEW T, IsFiniteSet(T), NEW w, WaitSetOK(w, T), NEW n \in Nat \ {0},
         NEW x \in UvedomiN(w, n)
  PROVE  /\ x.os = w.os
         /\ Waiting(w) # {} => Alert(x)
         /\ Cardinality(Resuming(w)) \in Nat /\ Cardinality(Resuming(x)) \in Nat
         /\ w.os = "linux" =>
              \/ Asleep(x) = {}
              \/ Cardinality(Resuming(x)) = Cardinality(Resuming(w)) + n
  <1> DEFINE sleepers == AtPlace(w, {"blocked"})
             k == IF n < Cardinality(sleepers) THEN n ELSE Cardinality(sleepers)
  <1>1. /\ sleepers \subseteq T /\ IsFiniteSet(sleepers) /\ Cardinality(sleepers) \in Nat
        /\ Resuming(w) \subseteq T /\ IsFiniteSet(Resuming(w)) /\ sleepers \cap Resuming(w) = {}
    <2>1. sleepers \subseteq T /\ Resuming(w) \subseteq T /\ sleepers \cap Resuming(w) = {}
      BY DEF AtPlace, Resuming, WaitSetOK, WaitSets
    <2> QED BY <2>1, FS_Subset, FS_CardinalityType
  <1>2. PICK S \in kSubset(k, sleepers) :
          x = [w EXCEPT !.at = [t \in DOMAIN w.at |-> IF t \in S THEN "awake" ELSE w.at[t]],
                        !.event = @ \/ (k < n /\ w.os = "windows")]
    BY DEF UvedomiN
  <1>3. S \subseteq sleepers /\ Cardinality(S) = k
    BY DEF kSubset
  <1>4. /\ IsFiniteSet(S)
        /\ k < n => S = sleepers
        /\ k >= n => k = n
    BY <1>1, <1>3, FS_Subset
  <1>5. /\ DOMAIN w.at = T /\ \A s \in T : w.at[s] \in Places
        /\ \A s \in T : s \in sleepers <=> w.at[s] = "blocked"
        /\ w.os = "linux" => \A s \in T : w.at[s] # "gap"
        /\ w.event \in BOOLEAN /\ w.os \in Platforms
    BY DEF AtPlace, WaitSetOK, WaitSets
  <1> HIDE DEF sleepers, k
  <1>6. /\ x.os = w.os /\ DOMAIN x.at = T
        /\ \A t \in T : x.at[t] = IF t \in S THEN "awake" ELSE w.at[t]
        /\ x.event <=> w.event \/ (k < n /\ w.os = "windows")
    BY <1>2, <1>5 DEF WaitSetOK, WaitSets
  <1>7. Resuming(x) = Resuming(w) \cup S
    BY <1>1, <1>3, <1>5, <1>6 DEF Resuming, AtPlace
  <1>8. /\ Cardinality(Resuming(w)) \in Nat /\ Cardinality(Resuming(x)) \in Nat
        /\ Cardinality(Resuming(x)) = Cardinality(Resuming(w)) + Cardinality(S)
    <2>1. Resuming(w) \cap S = {} /\ Cardinality({}) = 0
      BY <1>1, <1>3, FS_EmptySet
    <2> HIDE DEF Resuming
    <2>2. Cardinality(Resuming(w) \cup S)
            = Cardinality(Resuming(w)) + Cardinality(S) - Cardinality(Resuming(w) \cap S)
      BY <1>1, <1>4, FS_Union
    <2>3. Cardinality(Resuming(w)) \in Nat /\ Cardinality(S) \in Nat
      BY <1>1, <1>4, FS_CardinalityType
    <2>4. Cardinality(Resuming(w) \cap S) = 0
      BY <2>1
    <2>5. Cardinality(Resuming(x)) = Cardinality(Resuming(w) \cup S)
      BY <1>7
    <2> QED BY <2>2, <2>3, <2>4, <2>5
  <1>9. CASE k < n
    <2>1. \A t \in T : x.at[t] # "blocked"
      BY <1>4, <1>5, <1>6, <1>9
    <2>2. w.os = "linux" => Asleep(x) = {}
      BY <1>5, <1>6, <2>1 DEF Asleep, AtPlace
    <2>3. Waiting(w) # {} => Alert(x)
      <3> SUFFICES ASSUME NEW t \in Waiting(w) PROVE Alert(x)
        OBVIOUS
      <3>1. t \in T /\ w.at[t] \in {"gap", "blocked", "awake", "failed"}
        BY <1>5 DEF Waiting, AtPlace
      <3>2. CASE x.at[t] \in {"awake", "failed"}
        BY <1>6, <3>1, <3>2 DEF Alert, Resuming, AtPlace
      <3>3. CASE x.at[t] = "gap"
        <4>1. w.at[t] = "gap" /\ w.os = "windows"
          BY <1>5, <1>6, <3>1, <3>3 DEF Platforms
        <4> QED BY <1>6, <1>9, <3>1, <3>3, <4>1 DEF Alert, AtPlace
      <3> QED BY <1>6, <2>1, <3>1, <3>2, <3>3
    <2> QED BY <1>6, <1>8, <2>2, <2>3
  <1>10. CASE k >= n
    <2>1. Cardinality(S) = n /\ S # {}
      BY <1>3, <1>4, <1>10, FS_EmptySet
    <2>2. Alert(x)
      BY <1>7, <2>1 DEF Alert
    <2> QED BY <1>6, <1>8, <2>1, <2>2
  <1>11. k \in Nat
    BY <1>1 DEF k
  <1> QED BY <1>9, <1>10, <1>11

------------------------------------------------------------------------------
\* The element FoldSet takes first.
Pick(s) == CHOOSE x \in s : TRUE

LEMMA PickOK ==
  ASSUME NEW S, IsFiniteSet(S), NEW s \in SUBSET S, s # {}
  PROVE  /\ Pick(s) \in s /\ s \ {Pick(s)} \in SUBSET S
         /\ Cardinality(s) \in Nat /\ Cardinality(s \ {Pick(s)}) = Cardinality(s) - 1
         /\ Cardinality(s) >= 1
  <1>1. Pick(s) \in s
    BY DEF Pick
  <1>2. IsFiniteSet(s)
    BY FS_Subset
  <1>3. Cardinality(s) \in Nat /\ Cardinality(s \ {Pick(s)}) = Cardinality(s) - 1
    BY <1>1, <1>2, FS_CardinalityType, FS_RemoveElement
  <1>4. Cardinality(s) # 0
    BY <1>1, <1>2, FS_EmptySet
  <1> QED BY <1>1, <1>3, <1>4

\* What holds of {} and of a set once it holds without its first element holds
\* of every finite set: least-counterexample induction, the property being given
\* as the set of those that have it.
LEMMA SubsetInduction ==
  ASSUME NEW S, IsFiniteSet(S), NEW good, {} \in good,
         \A s \in SUBSET S : s # {} /\ s \ {Pick(s)} \in good => s \in good
  PROVE  \A s \in SUBSET S : s \in good
  <1> DEFINE sizes == {n \in Nat : \E s \in SUBSET S : Cardinality(s) = n /\ s \notin good}
  <1>1. CASE sizes = {}
    <2>1. \A s \in SUBSET S : Cardinality(s) \in Nat
      BY FS_Subset, FS_CardinalityType
    <2> QED BY <1>1, <2>1
  <1>2. CASE sizes # {}
    <2>1. PICK m \in sizes : \A n \in sizes : m <= n
      <3>1. sizes \subseteq Nat
        OBVIOUS
      <3> HIDE DEF sizes
      <3> QED BY <1>2, <3>1, LeastNat
    <2>2. PICK s \in SUBSET S : Cardinality(s) = m /\ s \notin good
      BY <2>1
    <2>3. s # {}
      BY <2>2
    <2>4. /\ s \ {Pick(s)} \in SUBSET S /\ Cardinality(s) \in Nat /\ Cardinality(s) >= 1
          /\ Cardinality(s \ {Pick(s)}) = Cardinality(s) - 1
      BY <2>3, PickOK
    <2>5. s \ {Pick(s)} \in good
      BY <2>1, <2>2, <2>4
    <2> QED BY <2>2, <2>3, <2>5
  <1> QED BY <1>1, <1>2

\* The sum of f over S, and the recursion equation that FoldSet unfolds to.
SumEq(g, f, S) ==
  g = [s \in SUBSET S |-> IF s = {} THEN 0 ELSE g[s \ {Pick(s)}] + f[Pick(s)]]

Total(f, S) == FoldSet(LAMBDA t, sum : sum + f[t], 0, S)

LEMMA TotalIs ==
  ASSUME NEW f, NEW S
  PROVE  Total(f, S) = (CHOOSE g : SumEq(g, f, S))[S]
  BY DEF Total, FoldSet, MapThenFoldSet, SumEq, Pick

Upto(S, n) == {s \in SUBSET S : Cardinality(s) <= n}

\* a function that satisfies the equation on the sets of at most n elements
PartSum(g, f, S, n) ==
  \A s \in Upto(S, n) : g[s] = IF s = {} THEN 0 ELSE g[s \ {Pick(s)}] + f[Pick(s)]

LEMMA PartSumExists ==
  ASSUME NEW S, IsFiniteSet(S), NEW f \in [S -> Int]
  PROVE  \A n \in Nat : \E g \in [Upto(S, n) -> Int] : PartSum(g, f, S, n)
  <1> DEFINE bad == {n \in Nat : ~ \E g \in [Upto(S, n) -> Int] : PartSum(g, f, S, n)}
  <1> SUFFICES ASSUME bad # {} PROVE FALSE
    OBVIOUS
  <1>1. PICK m \in bad : \A n \in bad : m <= n
    BY LeastNat
  <1>2. CASE m = 0
    <2> DEFINE g == [s \in Upto(S, 0) |-> 0]
    <2>1. \A s \in Upto(S, 0) : s = {}
      <3> TAKE s \in Upto(S, 0)
      <3>1. IsFiniteSet(s) /\ Cardinality(s) <= 0
        BY FS_Subset DEF Upto
      <3> QED BY <3>1, FS_CardinalityType, FS_EmptySet
    <2>2. g \in [Upto(S, 0) -> Int] /\ PartSum(g, f, S, 0)
      BY <2>1 DEF PartSum
    <2> QED BY <1>2, <2>2
  <1>3. CASE m # 0
    <2>1. m - 1 \in Nat /\ m - 1 \notin bad
      BY <1>1, <1>3
    <2>2. PICK g \in [Upto(S, m - 1) -> Int] : PartSum(g, f, S, m - 1)
      BY <2>1
    <2> DEFINE h == [s \in Upto(S, m) |->
                       IF s = {} THEN 0 ELSE g[s \ {Pick(s)}] + f[Pick(s)]]
    <2>3. \A s \in Upto(S, m) : s # {} =>
             /\ Pick(s) \in S /\ s \ {Pick(s)} \in Upto(S, m - 1)
             /\ s \ {Pick(s)} \in Upto(S, m)
      <3> SUFFICES ASSUME NEW s \in Upto(S, m), s # {}
                   PROVE  /\ Pick(s) \in S /\ s \ {Pick(s)} \in Upto(S, m - 1)
                          /\ s \ {Pick(s)} \in Upto(S, m)
        OBVIOUS
      <3>1. s \in SUBSET S /\ Cardinality(s) <= m
        BY DEF Upto
      <3>2. Cardinality(s) \in Nat /\ Cardinality(s \ {Pick(s)}) = Cardinality(s) - 1
            /\ Pick(s) \in s
        BY <3>1, PickOK
      <3> QED BY <3>1, <3>2 DEF Upto
    <2>4. h \in [Upto(S, m) -> Int]
      BY <2>3
    <2>5. \A s \in Upto(S, m - 1) : h[s] = g[s]
      <3> TAKE s \in Upto(S, m - 1)
      <3>1. s \in Upto(S, m)
        <4>1. s \in SUBSET S /\ Cardinality(s) <= m - 1 /\ Cardinality(s) \in Nat
          BY FS_Subset, FS_CardinalityType DEF Upto
        <4> QED BY <4>1 DEF Upto
      <3> QED BY <2>2, <3>1 DEF PartSum
    <2>6. PartSum(h, f, S, m)
      <3> SUFFICES ASSUME NEW s \in Upto(S, m)
                   PROVE h[s] = IF s = {} THEN 0 ELSE h[s \ {Pick(s)}] + f[Pick(s)]
        BY DEF PartSum
      <3>1. CASE s = {}
        BY <3>1
      <3>2. CASE s # {}
        BY <3>2, <2>3, <2>5
      <3> QED BY <3>1, <3>2
    <2> QED BY <2>4, <2>6
  <1> QED BY <1>2, <1>3

LEMMA SumExists ==
  ASSUME NEW S, IsFiniteSet(S), NEW f \in [S -> Int]
  PROVE  \E g : SumEq(g, f, S) /\ g \in [SUBSET S -> Int]
  <1> DEFINE n == Cardinality(S)
  <1>1. n \in Nat /\ Upto(S, n) = SUBSET S
    <2>1. \A s \in SUBSET S : Cardinality(s) <= Cardinality(S)
      BY FS_Subset
    <2> QED BY <2>1, FS_CardinalityType DEF Upto
  <1> HIDE DEF n
  <1>2. PICK g \in [SUBSET S -> Int] : PartSum(g, f, S, n)
    BY <1>1, PartSumExists
  <1>3. SumEq(g, f, S)
    BY <1>1, <1>2 DEF PartSum, SumEq
  <1> QED BY <1>2, <1>3

\* The sum itself
SumFn(f, S) == CHOOSE g : SumEq(g, f, S)

LEMMA SumFnIs ==
  ASSUME NEW S, IsFiniteSet(S), NEW f \in [S -> Int]
  PROVE  /\ DOMAIN SumFn(f, S) = SUBSET S
         /\ SumFn(f, S)[{}] = 0
         /\ \A s \in SUBSET S : s # {} =>
              SumFn(f, S)[s] = SumFn(f, S)[s \ {Pick(s)}] + f[Pick(s)]
  <1>1. SumEq(SumFn(f, S), f, S)
    BY SumExists DEF SumFn
  <1> QED BY <1>1 DEF SumEq

LEMMA TotalType ==
  ASSUME NEW S, IsFiniteSet(S), NEW f \in [S -> Int]
  PROVE  /\ Total(f, S) \in Int
         /\ f \in [S -> Nat] => Total(f, S) \in Nat
         /\ (\A s \in S : f[s] = 0) => Total(f, S) = 0
  <1> DEFINE F == SumFn(f, S)
  <1>0. Total(f, S) = F[S]
    BY TotalIs DEF SumFn
  <1>1. /\ F[{}] = 0
        /\ \A s \in SUBSET S : s # {} =>
             /\ F[s] = F[s \ {Pick(s)}] + f[Pick(s)]
             /\ Pick(s) \in S
    BY SumFnIs DEF Pick
  <1> HIDE DEF F
  <1> DEFINE good == {s \in SUBSET S :
                        /\ F[s] \in Int
                        /\ f \in [S -> Nat] => F[s] \in Nat
                        /\ (\A x \in S : f[x] = 0) => F[s] = 0}
  <1>2. {} \in good
    BY <1>1
  <1>3. ASSUME NEW s \in SUBSET S, s # {}, s \ {Pick(s)} \in good
        PROVE  s \in good
    <2> DEFINE x == Pick(s)
    <2>1. x \in S /\ F[s] = F[s \ {x}] + f[x] /\ f[x] \in Int
      BY <1>1, <1>3
    <2>2. /\ F[s \ {x}] \in Int
          /\ f \in [S -> Nat] => F[s \ {x}] \in Nat
          /\ (\A y \in S : f[y] = 0) => F[s \ {x}] = 0
      BY <1>3
    <2>3. f \in [S -> Nat] => f[x] \in Nat
      BY <2>1
    <2> HIDE DEF x
    <2> QED BY <2>1, <2>2, <2>3
  <1>4. \A s \in SUBSET S : s \in good
    <2> HIDE DEF good
    <2> QED BY <1>2, <1>3, SubsetInduction
  <1> QED BY <1>0, <1>4

\* The sum changes by what one summand changes.
LEMMA TotalUpdate ==
  ASSUME NEW S, IsFiniteSet(S), NEW f \in [S -> Int], NEW g \in [S -> Int], NEW t \in S,
         \A s \in S : s # t => g[s] = f[s]
  PROVE  Total(g, S) = Total(f, S) + (g[t] - f[t])
  <1> DEFINE F == SumFn(f, S)
             G == SumFn(g, S)
  <1>0. Total(f, S) = F[S] /\ Total(g, S) = G[S]
    BY TotalIs DEF SumFn
  <1>1. /\ F[{}] = 0 /\ G[{}] = 0
        /\ \A s \in SUBSET S : s # {} =>
             /\ F[s] = F[s \ {Pick(s)}] + f[Pick(s)] /\ G[s] = G[s \ {Pick(s)}] + g[Pick(s)]
             /\ Pick(s) \in s
    <2>1. /\ F[{}] = 0
          /\ \A s \in SUBSET S : s # {} => F[s] = F[s \ {Pick(s)}] + f[Pick(s)]
      BY SumFnIs
    <2>2. /\ G[{}] = 0
          /\ \A s \in SUBSET S : s # {} => G[s] = G[s \ {Pick(s)}] + g[Pick(s)]
      BY SumFnIs
    <2>3. \A s \in SUBSET S : s # {} => Pick(s) \in s
      BY DEF Pick
    <2> HIDE DEF F, G
    <2> QED BY <2>1, <2>2, <2>3
  <1> HIDE DEF F, G
  <1> DEFINE good == {s \in SUBSET S :
                        /\ F[s] \in Int /\ G[s] \in Int
                        /\ G[s] = F[s] + (IF t \in s THEN g[t] - f[t] ELSE 0)}
  <1>2. {} \in good
    BY <1>1
  <1>3. ASSUME NEW s \in SUBSET S, s # {}, s \ {Pick(s)} \in good
        PROVE  s \in good
    <2> DEFINE x == Pick(s)
    <2>1. x \in s /\ F[s] = F[s \ {x}] + f[x] /\ G[s] = G[s \ {x}] + g[x]
      BY <1>1, <1>3
    <2>2. /\ F[s \ {x}] \in Int /\ G[s \ {x}] \in Int
          /\ G[s \ {x}] = F[s \ {x}] + (IF t \in s \ {x} THEN g[t] - f[t] ELSE 0)
      BY <1>3
    <2>3. f[x] \in Int /\ g[x] \in Int /\ f[t] \in Int /\ g[t] \in Int
      BY <2>1
    <2> HIDE DEF x
    <2> QED BY <2>1, <2>2, <2>3
  <1>4. \A s \in SUBSET S : s \in good
    <2> HIDE DEF good
    <2> QED BY <1>2, <1>3, SubsetInduction
  <1> QED BY <1>0, <1>4

\* One member of a sum, or the only one.
LEMMA TotalOne ==
  ASSUME NEW S, IsFiniteSet(S), NEW f \in [S -> Nat], NEW t \in S
  PROVE  /\ f[t] <= Total(f, S) /\ Total(f, S) \in Nat
         /\ (\A u \in S : u # t => f[u] = 0) => Total(f, S) = f[t]
  <1> DEFINE g == [f EXCEPT ![t] = 0]
  <1>1. /\ f \in [S -> Int] /\ g \in [S -> Int] /\ g \in [S -> Nat] /\ f[t] \in Nat
        /\ g[t] = 0 /\ (\A s \in S : s # t => g[s] = f[s])
        /\ (\A u \in S : u # t => f[u] = 0) => \A u \in S : g[u] = 0
    OBVIOUS
  <1> HIDE DEF g
  <1>2. /\ Total(f, S) \in Nat /\ Total(g, S) \in Nat
        /\ (\A u \in S : g[u] = 0) => Total(g, S) = 0
    BY <1>1, TotalType
  <1>3. Total(g, S) = Total(f, S) + (g[t] - f[t])
    BY <1>1, TotalUpdate
  <1> QED BY <1>1, <1>2, <1>3

\* Two members of a sum.
LEMMA TotalPair ==
  ASSUME NEW S, IsFiniteSet(S), NEW f \in [S -> Nat], NEW t \in S, NEW u \in S, t # u
  PROVE  f[t] + f[u] <= Total(f, S)
  <1> DEFINE g == [f EXCEPT ![t] = 0]
             h == [g EXCEPT ![u] = 0]
  <1>1. /\ f \in [S -> Int] /\ g \in [S -> Int] /\ h \in [S -> Int] /\ h \in [S -> Nat]
        /\ g[t] = 0 /\ g[u] = f[u] /\ h[u] = 0
        /\ (\A s \in S : s # t => g[s] = f[s]) /\ (\A s \in S : s # u => h[s] = g[s])
    OBVIOUS
  <1> HIDE DEF g, h
  <1>2. Total(f, S) \in Int /\ Total(g, S) \in Int /\ Total(h, S) \in Nat
    BY <1>1, TotalType
  <1>3. Total(g, S) = Total(f, S) + (g[t] - f[t])
    BY <1>1, TotalUpdate
  <1>4. Total(h, S) = Total(g, S) + (h[u] - g[u])
    BY <1>1, TotalUpdate
  <1> QED BY <1>1, <1>2, <1>3, <1>4

LEMMA CountPair ==
  ASSUME NEW A, IsFiniteSet(A), NEW t, NEW u, t # u
  PROVE  One(t \in A) + One(u \in A) <= Cardinality(A)
  <1> DEFINE B == A \ {t}
             C == B \ {u}
  <1>1. IsFiniteSet(B) /\ IsFiniteSet(C)
    BY FS_Subset
  <1>2. Cardinality(A) \in Nat /\ Cardinality(B) \in Nat /\ Cardinality(C) \in Nat
    BY <1>1, FS_CardinalityType
  <1>3. Cardinality(B) = IF t \in A THEN Cardinality(A) - 1 ELSE Cardinality(A)
    BY FS_RemoveElement
  <1>4. Cardinality(C) = IF u \in B THEN Cardinality(B) - 1 ELSE Cardinality(B)
    BY <1>1, FS_RemoveElement
  <1>5. u \in B <=> u \in A
    OBVIOUS
  <1> HIDE DEF B, C
  <1> QED BY <1>2, <1>3, <1>4, <1>5 DEF One
=============================================================================
