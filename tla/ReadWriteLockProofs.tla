-------------------------- MODULE ReadWriteLockProofs --------------------------
(***************************************************************************)
(* The readers-writer locks on monitors: any finite number of threads, each*)
(* class, either platform, any bound on the holds.  Three invariants, each *)
(* inductive on the one before.                                            *)
(*                                                                         *)
(* HoldsAndPhases: who holds what.  The controller's counts are sums over  *)
(* the threads (SumIs takes them to Total of CommonTheorems), a thread in  *)
(* a call holds nothing it could be waiting for itself, and then Exclusion *)
(* says why whoever may start finds nobody in the way.                     *)
(*                                                                         *)
(* PlacesInv: who waits where.  Every action is one of a few moves of a    *)
(* thread between phases, and a move changes the count of a side by what it*)
(* changes the set of threads inside.                                      *)
(*                                                                         *)
(* ServedInv: why nobody is overlooked.  What keeps a reader asleep is a   *)
(* writer, active or waiting; when it goes, the one who took it away is    *)
(* about to signal.  A writer asleep with nothing in its way needs somebody*)
(* to come, and each of those who might come leaves a successor: a woken   *)
(* writer that finds the lock taken makes the hypothesis false, one that   *)
(* gives up passes its notification on, a signal wakes somebody.  In the   *)
(* class that prefers readers the successor may be a reader.               *)
(***************************************************************************)
EXTENDS ReadWriteLock, CommonTheorems

Finite == IsFiniteSet(Threads)

Phases == {Idle, Signalling} \cup (Sides \X Calls)

\* The phases of the waiting loop of a side, and those of its wait.
Inner(s) == {s} \X Calls
Waits(s) == {s} \X {"acquire", "attempt"}

TypesOK ==
  /\ aktivnyeChitateli_ \in Nat /\ aktivnyePisateli_ \in Threads \cup {NoThread}
  /\ zaderzhkiZapisi_ \in Nat
  /\ held \in [Threads -> [Sides -> Nat]]
  /\ cls \in Classes

\* Who is in a call holds nothing, or is a re-entrant reader.
CallersHold == \A t \in Threads :
  phase[t] \in Sides \X Calls => held[t]["write"] = 0 /\ (~Reentrant => held[t]["read"] = 0)

\* The classes that are not re-entrant do not count write holds.
Single == ~Reentrant => zaderzhkiZapisi_ = 0 /\ \A t \in Threads : held[t]["write"] <= 1

HoldsInv == TypesOK /\ CallersHold /\ Single /\ Exclusion

\* The holds of one kind, as the function that is summed.
Holds(s) == [t \in Threads |-> held[t][s]]

LEMMA SumIs ==
  ASSUME NEW s
  PROVE  SumHolds(s) = Total(Holds(s), Threads)
  <1> DEFINE P(g) == g = [x \in SUBSET Threads |->
                            IF x = {} THEN 0 ELSE g[x \ {Pick(x)}] + held[Pick(x)][s]]
             Q(g) == SumEq(g, Holds(s), Threads)
  <1>1. SumHolds(s) = (CHOOSE g : P(g))[Threads]
    BY DEF SumHolds, FoldSet, MapThenFoldSet, Pick
  <1>2. \A g : P(g) <=> Q(g)
    <2> TAKE g
    <2>1. \A x \in SUBSET Threads : x # {} => Holds(s)[Pick(x)] = held[Pick(x)][s]
      BY DEF Holds, Pick
    <2> HIDE DEF Holds
    <2> QED BY <2>1 DEF SumEq
  <1> HIDE DEF P, Q
  <1>3. (CHOOSE g : P(g)) = (CHOOSE g : Q(g))
    BY <1>2, Zenon
  <1>4. Total(Holds(s), Threads) = (CHOOSE g : Q(g))[Threads]
    BY TotalIs DEF Q
  <1> QED BY <1>1, <1>3, <1>4

SumsOK == \A s \in Sides : \A f : f = Holds(s) => SumHolds(s) = Total(f, Threads)

LEMMA SumsAre == SumsOK
  BY SumIs DEF SumsOK

LEMMA SumFacts ==
  ASSUME Finite, held \in [Threads -> [Sides -> Nat]], NEW s \in Sides, NEW t \in Threads
  PROVE  /\ SumHolds(s) \in Nat /\ held[t][s] <= SumHolds(s)
         /\ (\A u \in Threads : u # t => held[u][s] = 0) => SumHolds(s) = held[t][s]
  <1>1. /\ Holds(s) \in [Threads -> Nat]
        /\ \A u \in Threads : Holds(s)[u] = held[u][s]
    BY DEF Holds
  <1> HIDE DEF Holds
  <1> QED BY <1>1, SumIs, TotalOne DEF Finite

\* A step that changes the holds of one thread.
LEMMA SumMoves ==
  ASSUME Finite, held \in [Threads -> [Sides -> Nat]], held' \in [Threads -> [Sides -> Nat]],
         NEW t \in Threads, \A u \in Threads : u # t => held'[u] = held[u], NEW s \in Sides
  PROVE  SumHolds(s)' = SumHolds(s) + (held'[t][s] - held[t][s])
  <1> DEFINE f == Holds(s)
             g == Holds(s)'
  <1>1. /\ f \in [Threads -> Int] /\ g \in [Threads -> Int]
        /\ f[t] = held[t][s] /\ g[t] = held'[t][s]
        /\ \A u \in Threads : u # t => g[u] = f[u]
    BY DEF Holds
  <1>2. SumHolds(s) = Total(f, Threads)
    BY SumIs
  <1>3. SumHolds(s)' = Total(g, Threads)
    <2>1. SumsOK'
      BY SumsAre, PTL
    <2>2. \A x : x = Holds(s)' => SumHolds(s)' = Total(x, Threads)
      BY <2>1 DEF SumsOK
    <2> QED BY <2>2
  <1> HIDE DEF f, g
  <1>4. Total(g, Threads) = Total(f, Threads) + (g[t] - f[t])
    BY ZenonT(60), <1>1, TotalUpdate DEF Finite
  <1> QED BY <1>1, <1>2, <1>3, <1>4

LEMMA ClassIs == cls \in Classes => cls \in {"writers", "readers", "reentrant"}
  BY ReadWriteAssumption

\* When nobody may be in the way, nobody is.
LEMMA FreeMeansFree ==
  ASSUME Finite, HoldsInv
  PROVE  /\ aktivnyeChitateli_ = 0 => \A t \in Threads : held[t]["read"] = 0
         /\ aktivnyePisateli_ = NoThread => \A t \in Threads : held[t]["write"] = 0
         /\ Reentrant /\ zaderzhkiZapisi_ = 0 => \A t \in Threads : held[t]["write"] = 0
  <1>1. \A t \in Threads, s \in Sides : held[t][s] \in Nat /\ held[t][s] <= SumHolds(s)
    BY SumFacts DEF HoldsInv, TypesOK
  <1>2. \A t \in Threads : aktivnyePisateli_ = NoThread => ~ (held[t]["write"] > 0)
    BY ReadWriteAssumption DEF HoldsInv, Exclusion
  <1> QED BY <1>1, <1>2 DEF Sides, HoldsInv, Exclusion

LEMMA StartHolds ==
  ASSUME Finite, HoldsInv, NEW t \in Threads, NEW s \in Sides,
         MayStart(t, s), Start(t, s), UNCHANGED cls,
         ~Reentrant => \A x \in Sides : held[t][x] = 0
  PROVE  TypesOK' /\ Single' /\ Exclusion'
  <1>1. /\ held \in [Threads -> [Sides -> Nat]] /\ t # NoThread /\ s \in {"read", "write"}
        /\ held' = [held EXCEPT ![t][s] = @ + 1]
        /\ held' \in [Threads -> [Sides -> Nat]] /\ Reentrant' = Reentrant
    BY ReadWriteAssumption DEF HoldsInv, TypesOK, Start, Sides, Reentrant
  <1>2. /\ held'[t][s] = held[t][s] + 1
        /\ \A x \in Sides : x # s => held'[t][x] = held[t][x]
        /\ \A u \in Threads : u # t => held'[u] = held[u]
    BY <1>1
  <1>3. \A x \in Sides : SumHolds(x)' = SumHolds(x) + (held'[t][x] - held[t][x])
    BY <1>1, <1>2, SumMoves
  <1>4. \A x \in Sides : SumHolds(x) \in Nat /\ held[t][x] \in Nat
    BY <1>1, SumFacts
  <1>5. /\ \A u \in Threads : held[u]["write"] > 0 => aktivnyePisateli_ = u
        /\ aktivnyePisateli_ \in Threads => held[aktivnyePisateli_]["write"] > 0
        /\ \A u \in Threads, x \in Sides : held[u][x] \in Nat
        /\ "read" \in Sides /\ "write" \in Sides
    BY <1>1 DEF HoldsInv, Exclusion, Sides
  <1>6. CASE s = "read"
    <2>1. /\ aktivnyeChitateli_' = aktivnyeChitateli_ + 1
          /\ UNCHANGED <<aktivnyePisateli_, zaderzhkiZapisi_>>
      BY <1>6 DEF Start
    <2>2. TypesOK' /\ Single'
      BY <1>1, <1>2, <1>6, <2>1 DEF HoldsInv, TypesOK, Single, Sides
    \* A reader starts beside no writer but itself.
    <2>3. \A u \in Threads : u # t => held[u]["write"] = 0
      <3>1. AllowReader(t) \/ t \in Readers
        BY <1>6 DEF MayStart, MayRead
      <3>2. CASE AllowReader(t)
        <4>1. aktivnyePisateli_ = NoThread \/ aktivnyePisateli_ = t
          BY <3>2 DEF AllowReader
        <4> QED BY <1>5, <4>1, ReadWriteAssumption
      <3>3. CASE t \in Readers
        BY <1>5, <3>3 DEF Readers, HoldsInv, Exclusion
      <3> QED BY <3>1, <3>2, <3>3
    <2>4. \A u, v \in Threads :
            held'[u]["write"] > 0 /\ v # u => \A x \in Sides : held'[v][x] = 0
      BY <1>2, <1>6, <2>3, <1>5 DEF HoldsInv, Exclusion
    <2>5. \A u \in Threads : held'[u]["write"] > 0 <=> aktivnyePisateli_' = u
      BY <1>2, <1>6, <2>1, <1>5 DEF HoldsInv, Exclusion
    <2>6. /\ Reentrant' => zaderzhkiZapisi_' = SumHolds("write")'
          /\ aktivnyeChitateli_' = SumHolds("read")'
      BY <1>1, <1>2, <1>3, <1>4, <1>5, <1>6, <2>1 DEF HoldsInv, Exclusion
    <2>7. Exclusion'
      BY <2>4, <2>5, <2>6 DEF Exclusion
    <2> QED BY <2>2, <2>7
  <1>7. CASE s = "write"
    <2>1. /\ aktivnyePisateli_' = t
          /\ zaderzhkiZapisi_' = IF Reentrant THEN zaderzhkiZapisi_ + 1 ELSE 0
          /\ UNCHANGED aktivnyeChitateli_
      BY <1>7 DEF Start
    <2>2. TypesOK'
      BY <1>1, <2>1 DEF HoldsInv, TypesOK
    \* A writer starts when nobody else holds anything.
    <2>3. \A u \in Threads : u # t => \A x \in Sides : held[u][x] = 0
      <3>1. CASE aktivnyePisateli_ = t
        BY <1>5, <3>1 DEF HoldsInv, Exclusion
      <3>2. CASE Reentrant /\ zaderzhkiZapisi_ = 0 /\ Readers = {t}
        <4>1. \A u \in Threads : u # t => ~ (held[u]["read"] > 0)
          BY <3>2 DEF Readers
        <4>2. \A u \in Threads : held[u]["write"] = 0
          BY <3>2, FreeMeansFree
        <4> QED BY <1>5, <4>1, <4>2 DEF Sides
      <3>3. CASE aktivnyePisateli_ = NoThread /\ aktivnyeChitateli_ = 0
        BY <3>3, FreeMeansFree DEF Sides
      <3> QED BY <1>7, <3>1, <3>2, <3>3 DEF MayStart, MayWrite
    <2>4. \A u, v \in Threads :
            held'[u]["write"] > 0 /\ v # u => \A x \in Sides : held'[v][x] = 0
      BY <1>2, <2>3, <1>5
    <2>5. \A u \in Threads : held'[u]["write"] > 0 <=> aktivnyePisateli_' = u
      BY <1>2, <1>5, <1>7, <2>1, <2>3
    <2>6. /\ Reentrant' => zaderzhkiZapisi_' = SumHolds("write")'
          /\ aktivnyeChitateli_' = SumHolds("read")'
      BY <1>1, <1>2, <1>3, <1>4, <1>5, <1>7, <2>1 DEF HoldsInv, Exclusion
    <2>7. Exclusion'
      BY <2>4, <2>5, <2>6 DEF Exclusion
    <2>8. Single'
      <3> SUFFICES ASSUME ~Reentrant'
                   PROVE  zaderzhkiZapisi_' = 0 /\ \A u \in Threads : held'[u]["write"] <= 1
        BY DEF Single
      <3>1. held[t]["write"] = 0
        BY <1>1, <1>5
      <3> QED BY <1>1, <1>2, <1>5, <1>7, <2>1, <2>3, <3>1
    <2> QED BY <2>2, <2>7, <2>8
  <1> QED BY <1>1, <1>6, <1>7

LEMMA EndReadHolds ==
  ASSUME Finite, HoldsInv, NEW t \in Threads, EndRead(t)
  PROVE  TypesOK' /\ Single' /\ Exclusion'
  <1>1. /\ held \in [Threads -> [Sides -> Nat]] /\ held[t]["read"] > 0
        /\ held' = [held EXCEPT ![t]["read"] = @ - 1]
        /\ aktivnyeChitateli_' = aktivnyeChitateli_ - 1
        /\ UNCHANGED <<aktivnyePisateli_, zaderzhkiZapisi_, cls>> /\ Reentrant' = Reentrant
        /\ "read" \in Sides /\ "write" \in Sides
    BY DEF HoldsInv, TypesOK, EndRead, Reentrant, Sides
  <1>2. \A x \in Sides : SumHolds(x) \in Nat /\ held[t][x] \in Nat /\ held[t][x] <= SumHolds(x)
    BY <1>1, SumFacts
  <1>3. /\ held'[t]["read"] = held[t]["read"] - 1 /\ held'[t]["read"] \in Nat
        /\ held'[t]["write"] = held[t]["write"]
        /\ \A u \in Threads : u # t => held'[u] = held[u]
        /\ held' \in [Threads -> [Sides -> Nat]]
    <2>1. held[t]["read"] - 1 \in Nat
      BY <1>1, <1>2
    <2> QED BY <1>1, <2>1 DEF Sides
  <1>4. \A x \in Sides : SumHolds(x)' = SumHolds(x) + (held'[t][x] - held[t][x])
    BY <1>1, <1>3, SumMoves
  <1>5. /\ Reentrant' => zaderzhkiZapisi_' = SumHolds("write")'
        /\ aktivnyeChitateli_' = SumHolds("read")' /\ aktivnyeChitateli_' \in Nat
    BY <1>1, <1>2, <1>3, <1>4 DEF HoldsInv, Exclusion
  <1>6. TypesOK' /\ Single'
    BY <1>1, <1>3, <1>5 DEF HoldsInv, TypesOK, Single
  <1>7. \A u, v \in Threads :
          held'[u]["write"] > 0 /\ v # u => \A x \in Sides : held'[v][x] = 0
    <2> SUFFICES ASSUME NEW u \in Threads, NEW v \in Threads, held'[u]["write"] > 0, v # u,
                        NEW x \in Sides
                 PROVE  held'[v][x] = 0
      OBVIOUS
    <2>1. held[u]["write"] > 0
      BY <1>3
    <2>2. \A y \in Sides : held[v][y] = 0
      BY <2>1 DEF HoldsInv, Exclusion
    <2>3. v # t
      BY <1>1, <2>2
    <2> QED BY <1>3, <2>2, <2>3
  <1>8. \A u \in Threads : held'[u]["write"] > 0 <=> aktivnyePisateli_' = u
    BY <1>1, <1>3 DEF HoldsInv, Exclusion
  <1> QED BY <1>5, <1>6, <1>7, <1>8 DEF Exclusion

LEMMA EndWriteHolds ==
  ASSUME Finite, HoldsInv, NEW t \in Threads, EndWrite(t)
  PROVE  TypesOK' /\ Single' /\ Exclusion'
  <1> DEFINE last == ~Reentrant \/ zaderzhkiZapisi_ = 1
  <1>1. /\ held \in [Threads -> [Sides -> Nat]] /\ held[t]["write"] > 0
        /\ held' = [held EXCEPT ![t]["write"] = @ - 1]
        /\ aktivnyePisateli_' = IF last THEN NoThread ELSE aktivnyePisateli_
        /\ zaderzhkiZapisi_' = IF Reentrant THEN zaderzhkiZapisi_ - 1 ELSE 0
        /\ UNCHANGED <<aktivnyeChitateli_, cls>> /\ Reentrant' = Reentrant
        /\ "read" \in Sides /\ "write" \in Sides /\ t # NoThread
    BY ReadWriteAssumption DEF HoldsInv, TypesOK, EndWrite, Reentrant, Sides
  <1>2. \A x \in Sides : SumHolds(x) \in Nat /\ held[t][x] \in Nat /\ held[t][x] <= SumHolds(x)
    BY <1>1, SumFacts
  <1>3. /\ held'[t]["write"] = held[t]["write"] - 1 /\ held'[t]["write"] \in Nat
        /\ held'[t]["read"] = held[t]["read"]
        /\ \A u \in Threads : u # t => held'[u] = held[u]
        /\ held' \in [Threads -> [Sides -> Nat]]
    <2>1. held[t]["write"] - 1 \in Nat
      BY <1>1, <1>2
    <2> QED BY <1>1, <2>1 DEF Sides
  <1>4. \A x \in Sides : SumHolds(x)' = SumHolds(x) + (held'[t][x] - held[t][x])
    BY <1>1, <1>3, SumMoves
  \* The writer is alone, so its holds are all there are.
  <1>5. /\ \A u \in Threads : u # t => \A x \in Sides : held[u][x] = 0
        /\ SumHolds("write") = held[t]["write"] /\ aktivnyePisateli_ = t
    <2>1. \A u \in Threads : u # t => \A x \in Sides : held[u][x] = 0
      BY <1>1 DEF HoldsInv, Exclusion
    <2> QED BY <1>1, <2>1, SumFacts DEF HoldsInv, Exclusion
  <1>6. last <=> held[t]["write"] = 1
    BY <1>1, <1>2, <1>5 DEF HoldsInv, Exclusion, Single
  <1> HIDE DEF last
  <1>7. /\ Reentrant' => zaderzhkiZapisi_' = SumHolds("write")' /\ zaderzhkiZapisi_' \in Nat
        /\ aktivnyeChitateli_' = SumHolds("read")'
    BY <1>1, <1>2, <1>3, <1>4, <1>5 DEF HoldsInv, Exclusion
  <1>8. TypesOK' /\ Single'
    BY <1>1, <1>3, <1>5, <1>6, <1>7 DEF HoldsInv, TypesOK, Single
  <1>9. \A u, v \in Threads :
          held'[u]["write"] > 0 /\ v # u => \A x \in Sides : held'[v][x] = 0
    BY <1>1, <1>3, <1>5
  <1>10. \A u \in Threads : held'[u]["write"] > 0 <=> aktivnyePisateli_' = u
    <2>1. /\ held[t]["write"] \in Nat /\ \A u \in Threads : u # NoThread
          /\ \A u \in Threads : u # t => held'[u]["write"] = 0
      BY <1>1, <1>2, <1>3, <1>5, ReadWriteAssumption
    <2>2. CASE last
      BY <1>1, <1>3, <1>6, <2>1, <2>2
    <2>3. CASE ~last
      BY <1>1, <1>3, <1>5, <1>6, <2>1, <2>3
    <2> QED BY <2>2, <2>3
  <1> QED BY <1>7, <1>8, <1>9, <1>10 DEF Exclusion

LEMMA NoCountHolds ==
  ASSUME HoldsInv, UNCHANGED counts, UNCHANGED cls
  PROVE  TypesOK' /\ Single' /\ Exclusion'
  <1>1. UNCHANGED <<aktivnyeChitateli_, aktivnyePisateli_, zaderzhkiZapisi_, held, cls>>
    BY DEF counts
  <1>2. \A s \in Sides : SumHolds(s)' = SumHolds(s)
    <2> TAKE s \in Sides
    <2>1. Holds(s)' = Holds(s)
      BY <1>1 DEF Holds
    <2>2. SumHolds(s) = Total(Holds(s), Threads)
      BY SumIs
    <2>3. SumHolds(s)' = Total(Holds(s)', Threads)
      <3>1. SumsOK'
        BY SumsAre, PTL
      <3> QED BY <3>1 DEF SumsOK
    <2> QED BY <2>1, <2>2, <2>3
  <1>3. SumHolds("read")' = SumHolds("read") /\ SumHolds("write")' = SumHolds("write")
    BY <1>2 DEF Sides
  <1> QED BY <1>1, <1>3 DEF HoldsInv, TypesOK, Single, Exclusion, Reentrant

\* The invariant of the holds, with the phases it speaks of.
HoldsAndPhases == phase \in [Threads -> Phases] /\ HoldsInv

\* Only a call that begins puts anybody where it may hold nothing.
LEMMA CallersMove ==
  ASSUME HoldsAndPhases, NEW t \in Threads, NEW p \in Phases, Goto(t, p), UNCHANGED cls,
         \A u \in Threads : u # t => held'[u] = held[u],
         p \in Sides \X Calls => held'[t]["write"] = 0 /\ (~Reentrant => held'[t]["read"] = 0)
  PROVE  phase' \in [Threads -> Phases] /\ CallersHold'
  BY DEF HoldsAndPhases, HoldsInv, CallersHold, Goto, Reentrant

LEMMA HoldsStep ==
  ASSUME Finite, HoldsAndPhases, [Next]_vars
  PROVE  HoldsAndPhases'
  <1> USE DEF HoldsAndPhases, HoldsInv
  <1>1. CASE UNCHANGED vars
    <2>1. UNCHANGED counts /\ UNCHANGED cls /\ UNCHANGED phase
      BY <1>1 DEF vars, counts
    <2>2. CallersHold'
      BY <2>1 DEF CallersHold, counts, Reentrant
    <2> QED BY <2>1, <2>2, NoCountHolds
  <1>2. ASSUME NEW t \in Threads, NEW s \in Sides, NEW call \in {"acquire", "attempt"},
               Enter(t, s, call)
        PROVE  HoldsAndPhases'
    <2>1. /\ MayCall(t, s) /\ UNCHANGED cls /\ <<s, call>> \in Phases
          /\ ~Reentrant => \A x \in Sides : held[t][x] = 0
      BY <1>2 DEF Enter, MayCall, Phases, Calls
    <2>2. CASE MayStart(t, s) /\ Start(t, s) /\ UNCHANGED phase
      <3>1. TypesOK' /\ Single' /\ Exclusion'
        BY <2>1, <2>2, StartHolds
      <3>2. CallersHold'
        <4>1. \A u \in Threads : u # t => held'[u] = held[u]
          BY <2>2 DEF Start, TypesOK
        <4>2. phase[t] = Idle /\ Idle \notin Sides \X Calls
          BY <2>1 DEF MayCall, Idle, NoSide, Sides
        <4> QED BY <2>1, <2>2, <4>1, <4>2 DEF CallersHold, Reentrant
      <3> QED BY <2>2, <3>1, <3>2
    <2>3. CASE ~MayStart(t, s) /\ Goto(t, <<s, call>>) /\ UNCHANGED counts
      <3>1. held[t]["write"] = 0
        <4>1. CASE Reentrant
          <5>1. aktivnyePisateli_ # t
            BY <2>3, <4>1 DEF MayStart, MayRead, MayWrite, AllowReader
          <5>2. held[t]["write"] \in Nat
            BY DEF TypesOK, Sides
          <5> QED BY <5>1, <5>2 DEF Exclusion
        <4> QED BY <2>1, <4>1 DEF Sides
      <3>2. ~Reentrant => held[t]["read"] = 0
        BY <2>1 DEF Sides
      <3>3. held' = held
        BY <2>3 DEF counts
      <3> QED BY <2>1, <2>3, <3>1, <3>2, <3>3, NoCountHolds, CallersMove
    <2> QED BY <1>2, <2>2, <2>3 DEF Enter
  <1>3. ASSUME NEW t \in Threads, NEW s \in Sides, NEW call \in {"acquire", "attempt"},
               Retry(t, s, call)
        PROVE  HoldsAndPhases'
    <2>1. /\ UNCHANGED cls
          /\ ~Reentrant => \A x \in Sides : held[t][x] = 0
      <3>1. UNCHANGED cls /\ phase[t] = <<s, call>> /\ <<s, call>> \in Sides \X Calls
        BY <1>3 DEF Retry, Back, Calls
      <3> QED BY <3>1 DEF CallersHold, Sides
    <2>2. CASE MayStart(t, s) /\ Start(t, s) /\ Goto(t, Idle)
      <3>1. TypesOK' /\ Single' /\ Exclusion'
        BY <2>1, <2>2, StartHolds
      <3>2. \A u \in Threads : u # t => held'[u] = held[u]
        BY <2>2 DEF Start, TypesOK
      <3>3. Idle \in Phases /\ Idle \notin Sides \X Calls
        BY DEF Phases, Idle, NoSide, Sides
      <3> QED BY <2>1, <2>2, <3>1, <3>2, <3>3, CallersMove
    <2>3. CASE UNCHANGED phase /\ UNCHANGED counts
      <3>1. CallersHold'
        BY <2>1, <2>3 DEF CallersHold, counts, Reentrant
      <3> QED BY <2>1, <2>3, <3>1, NoCountHolds
    <2> QED BY <1>3, <2>2, <2>3 DEF Retry
  <1>4. ASSUME NEW t \in Threads, NEW s \in Sides, RunsOut(t, s)
        PROVE  HoldsAndPhases'
    <2>1. /\ UNCHANGED cls /\ UNCHANGED counts /\ Goto(t, <<s, "quit">>)
          /\ <<s, "quit">> \in Phases /\ phase[t] \in Sides \X Calls
      BY <1>4 DEF RunsOut, Back, Phases, Calls
    <2>2. held' = held /\ held[t]["write"] = 0 /\ (~Reentrant => held[t]["read"] = 0)
      BY <2>1 DEF CallersHold, counts
    <2> QED BY <2>1, <2>2, NoCountHolds, CallersMove
  <1>5. ASSUME NEW t \in Threads, NEW s \in Sides, Quit(t, s) \/ WaitFailed(t, s)
        PROVE  HoldsAndPhases'
    <2>1. UNCHANGED cls /\ UNCHANGED counts /\ Goto(t, Signalling) /\ held' = held
      BY <1>5 DEF Quit, WaitFailed, counts
    <2>2. Signalling \in Phases /\ Signalling \notin Sides \X Calls
      BY DEF Phases, Signalling, NoSide, Sides
    <2> QED BY <2>1, <2>2, NoCountHolds, CallersMove
  <1>6. ASSUME NEW t \in Threads, NEW s \in Sides, KernelStep(t, s)
        PROVE  HoldsAndPhases'
    <2>1. UNCHANGED cls /\ UNCHANGED counts /\ UNCHANGED phase
      BY <1>6 DEF KernelStep
    <2>2. CallersHold'
      BY <2>1 DEF CallersHold, counts, Reentrant
    <2> QED BY <2>1, <2>2, NoCountHolds
  <1>7. ASSUME NEW t \in Threads, EndRead(t) \/ EndWrite(t)
        PROVE  HoldsAndPhases'
    <2>1. TypesOK' /\ Single' /\ Exclusion'
      BY <1>7, EndReadHolds, EndWriteHolds
    <2>2. /\ UNCHANGED cls /\ \A u \in Threads : u # t => held'[u] = held[u]
          /\ \E p \in {Idle, Signalling} : Goto(t, p)
      BY <1>7 DEF EndRead, EndWrite, Choose, TypesOK
    <2>3. \A p \in {Idle, Signalling} : p \in Phases /\ p \notin Sides \X Calls
      BY DEF Phases, Idle, Signalling, NoSide, Sides
    <2> QED BY <2>1, <2>2, <2>3, CallersMove
  <1>8. ASSUME NEW t \in Threads, Signal(t)
        PROVE  HoldsAndPhases'
    <2>1. UNCHANGED cls /\ UNCHANGED counts /\ Goto(t, Idle) /\ held' = held
      BY <1>8 DEF Signal, Choose, counts
    <2>2. Idle \in Phases /\ Idle \notin Sides \X Calls
      BY DEF Phases, Idle, NoSide, Sides
    <2> QED BY <2>1, <2>2, NoCountHolds, CallersMove
  <1> QED BY <1>1, <1>2, <1>3, <1>4, <1>5, <1>6, <1>7, <1>8 DEF Next

LEMMA HoldsStart ==
  ASSUME Finite, Init
  PROVE  HoldsAndPhases
  <1>1. /\ held \in [Threads -> [Sides -> Nat]]
        /\ \A t \in Threads, s \in Sides : held[t][s] = 0
        /\ aktivnyeChitateli_ = 0 /\ aktivnyePisateli_ = NoThread /\ zaderzhkiZapisi_ = 0
        /\ phase \in [Threads -> Phases] /\ cls \in Classes
        /\ "read" \in Sides /\ "write" \in Sides
    BY DEF Init, Phases, Sides
  <1>2. \A s \in Sides : SumHolds(s) = 0
    <2> TAKE s \in Sides
    <2>1. /\ Holds(s) \in [Threads -> Int] /\ \A t \in Threads : Holds(s)[t] = 0
      BY <1>1 DEF Holds
    <2> HIDE DEF Holds
    <2> QED BY <2>1, SumIs, TotalType DEF Finite
  <1>3. Exclusion
    BY <1>1, <1>2, ReadWriteAssumption DEF Exclusion
  <1> QED BY <1>1, <1>3 DEF HoldsAndPhases, HoldsInv, TypesOK, CallersHold, Single

\* A writer is alone but for its own read holds, and the controller's counts
\* are what the threads hold, in each of the classes and for any number of
\* threads.
THEOREM ExclusionHolds ==
  ASSUME Finite
  PROVE  Spec => []Exclusion
  <1>1. Init => HoldsAndPhases
    BY HoldsStart
  <1>2. HoldsAndPhases /\ [Next]_vars => HoldsAndPhases'
    BY HoldsStep
  <1>3. HoldsAndPhases => Exclusion
    BY DEF HoldsAndPhases, HoldsInv
  <1> QED BY <1>1, <1>2, <1>3, PTL DEF Spec

------------------------------------------------------------------------------
\* Where everybody is: a thread is in the wait set of the side on which it waits.
Located == \A t \in Threads, s \in Sides : monitors[s].at[t] # "running" <=> phase[t] \in Waits(s)

PlaceTypes ==
  /\ phase \in [Threads -> Phases]
  /\ signal \in [Threads -> Sides \cup {NoSide}]
  /\ zhdushchie_ \in [Sides -> Nat]
  /\ DOMAIN monitors = Sides
  /\ \A s \in Sides : WaitSetOK(monitors[s], Threads)
  /\ monitors["read"].os = monitors["write"].os
  /\ \A t \in Threads : phase[t] = Signalling <=> signal[t] \in Sides

PlacesInv == PlaceTypes /\ Located /\ WaitersCounted

\* A step of thread t to phase p, for each side: who waits, and how many.
MonitorsMove(t, p) ==
  /\ DOMAIN monitors' = Sides
  /\ \A s \in Sides :
       /\ WaitSetOK(monitors'[s], Threads) /\ monitors'[s].os = monitors[s].os
       /\ \A u \in Threads : u # t =>
            (monitors'[s].at[u] = "running" <=> monitors[s].at[u] = "running")
       /\ monitors'[s].at[t] # "running" <=> p \in Waits(s)

Moves(t, p) ==
  /\ phase' = [phase EXCEPT ![t] = p] /\ p \in Phases
  /\ signal' \in [Threads -> Sides \cup {NoSide}]
  /\ \A u \in Threads : u # t => signal'[u] = signal[u]
  /\ p = Signalling <=> signal'[t] \in Sides
  /\ zhdushchie_' \in [Sides -> Int]
  /\ \A s \in Sides : zhdushchie_'[s] + One(phase[t] \in Inner(s))
                        = zhdushchie_[s] + One(p \in Inner(s))
  /\ MonitorsMove(t, p)

LEMMA InsideMoves ==
  ASSUME Finite, PlaceTypes, NEW t \in Threads, NEW p, Moves(t, p), NEW s \in Sides
  PROVE  /\ Cardinality(Inside(s)) \in Nat /\ Cardinality(Inside(s)') \in Nat
         /\ Cardinality(Inside(s)') + One(phase[t] \in Inner(s))
              = Cardinality(Inside(s)) + One(p \in Inner(s))
  <1> DEFINE A == Inside(s)
             B == Inside(s)'
  <1>1. /\ A \subseteq Threads /\ B \subseteq Threads
        /\ t \in A <=> phase[t] \in Inner(s)
        /\ t \in B <=> p \in Inner(s)
        /\ \A u \in Threads : u # t => (u \in A <=> u \in B)
    BY DEF PlaceTypes, Moves, Inside, Inner
  <1> HIDE DEF A, B
  <1>2. /\ Cardinality(A) \in Nat /\ Cardinality(B) \in Nat
        /\ Cardinality(B) + One(t \in A) = Cardinality(A) + One(t \in B)
    BY <1>1, CountMoves DEF Finite
  <1>3. /\ One(t \in A) = One(phase[t] \in Inner(s))
        /\ One(t \in B) = One(p \in Inner(s))
    BY <1>1 DEF One
  <1>4. Cardinality(Inside(s)') = Cardinality(B) /\ Cardinality(Inside(s)) = Cardinality(A)
    BY DEF A, B
  <1> QED BY <1>2, <1>3, <1>4

LEMMA PlacesMove ==
  ASSUME Finite, PlacesInv, NEW t \in Threads, NEW p, Moves(t, p)
  PROVE  PlacesInv'
  <1>1. \A s \in Sides : zhdushchie_'[s] = Cardinality(Inside(s)') /\ zhdushchie_'[s] \in Nat
    <2> SUFFICES ASSUME NEW s \in Sides
                 PROVE  zhdushchie_'[s] = Cardinality(Inside(s)') /\ zhdushchie_'[s] \in Nat
      OBVIOUS
    <2>1. /\ zhdushchie_[s] = Cardinality(Inside(s))
          /\ zhdushchie_'[s] \in Int
          /\ zhdushchie_'[s] + One(phase[t] \in Inner(s))
               = zhdushchie_[s] + One(p \in Inner(s))
      BY DEF PlacesInv, WaitersCounted, Moves
    <2>2. /\ Cardinality(Inside(s)) \in Nat /\ Cardinality(Inside(s)') \in Nat
          /\ Cardinality(Inside(s)') + One(phase[t] \in Inner(s))
               = Cardinality(Inside(s)) + One(p \in Inner(s))
      BY InsideMoves DEF PlacesInv
    <2>3. One(phase[t] \in Inner(s)) \in Int /\ One(p \in Inner(s)) \in Int
      BY DEF One
    <2> QED BY <2>1, <2>2, <2>3
  <1>2. WaitersCounted'
    BY <1>1 DEF WaitersCounted
  <1>3. zhdushchie_' \in [Sides -> Nat]
    BY <1>1 DEF Moves
  <1>4. Located'
    BY DEF Moves, MonitorsMove, Located, PlacesInv, PlaceTypes
  <1>5. PlaceTypes'
    BY <1>3 DEF Moves, MonitorsMove, PlaceTypes, PlacesInv, Sides
  <1> QED BY <1>2, <1>4, <1>5 DEF PlacesInv

\* The monitors of a step on one side.
OneSide(t, p, s, w) ==
  /\ monitors' = [monitors EXCEPT ![s] = w]
  /\ WaitSetOK(w, Threads) /\ w.os = monitors[s].os
  /\ \A u \in Threads : u # t => (w.at[u] = "running" <=> monitors[s].at[u] = "running")
  /\ w.at[t] # "running" <=> p \in Waits(s)
  /\ \A x \in Sides : x # s => (p \in Waits(x) <=> phase[t] \in Waits(x))

LEMMA OneMonitor ==
  ASSUME PlacesInv, NEW t \in Threads, NEW p, NEW s \in Sides, NEW w, OneSide(t, p, s, w)
  PROVE  MonitorsMove(t, p)
  BY DEF OneSide, MonitorsMove, PlacesInv, PlaceTypes, Located

LEMMA NoMonitor ==
  ASSUME PlacesInv, NEW t \in Threads, NEW p, UNCHANGED monitors,
         \A x \in Sides : p \in Waits(x) <=> phase[t] \in Waits(x)
  PROVE  MonitorsMove(t, p)
  BY DEF MonitorsMove, PlacesInv, PlaceTypes, Located

\* A notification passed on, or sent.
LEMMA WriterWoken ==
  ASSUME NEW w, WaitSetOK(w, Threads), NEW x \in Uvedomi(w), Finite
  PROVE  /\ WaitSetOK(x, Threads) /\ x.os = w.os
         /\ \A u \in Threads : x.at[u] = "running" <=> w.at[u] = "running"
         /\ w.os = "linux" => Asleep(x) = {} \/ Resuming(x) # {}
  <1>1. /\ WaitSetOK(x, Threads) /\ x.os = w.os
        /\ \A u \in Threads : x.at[u] = w.at[u] \/ (w.at[u] = "blocked" /\ x.at[u] = "awake")
    BY UvedomiOK, UvedomiWakes DEF Finite
  <1>2. CASE Waiting(w) = {}
    BY <1>1, <1>2 DEF Waiting, Asleep, AtPlace, WaitSetOK, WaitSets
  <1>3. CASE Waiting(w) # {}
    <2>1. Alert(x)
      BY <1>3, UvedomiAlerts
    <2> QED BY <1>1, <2>1 DEF Alert, WaitSetOK
  <1> QED BY <1>1, <1>2, <1>3

LEMMA PassOnOK ==
  ASSUME NEW w, WaitSetOK(w, Threads), NEW s \in Sides, NEW x \in PassOn(w, s), Finite
  PROVE  /\ WaitSetOK(x, Threads) /\ x.os = w.os
         /\ \A u \in Threads : x.at[u] = "running" <=> w.at[u] = "running"
         /\ s = "read" => x = w
         /\ s = "write" /\ w.os = "linux" => Asleep(x) = {} \/ Resuming(x) # {}
  <1>1. CASE s = "write"
    BY <1>1, WriterWoken DEF PassOn
  <1>2. CASE s # "write"
    BY <1>2 DEF PassOn
  <1> QED BY <1>1, <1>2

LEMMA PhaseFacts ==
  /\ Idle \in Phases /\ Signalling \in Phases /\ Idle # Signalling
  /\ \A s \in Sides : /\ Idle \notin Inner(s) /\ Signalling \notin Inner(s)
                      /\ Idle \notin Waits(s) /\ Signalling \notin Waits(s)
                      /\ \A q \in Waits(s) : q \in Inner(s)
                      /\ \A q \in Inner(s) : q \in Phases
                      /\ OtherSide(s) \in Sides /\ OtherSide(s) # s
  /\ \A s, x \in Sides : s # x => \A q \in Inner(s) : q \notin Inner(x)
  /\ NoSide \notin Sides
  <1> USE DEF Idle, Signalling, NoSide, Sides, Phases, Calls, OtherSide, Inner, Waits
  <1>1. \A s \in Sides : \A q \in Inner(s) : q \in Phases
    OBVIOUS
  <1> QED BY <1>1

LEMMA CallFacts ==
  ASSUME NEW s \in Sides
  PROVE  /\ <<s, "quit">> \in Inner(s) /\ <<s, "quit">> \notin Waits(s)
         /\ <<s, "acquire">> \in Waits(s) /\ <<s, "attempt">> \in Waits(s)
         /\ \A c \in Calls : <<s, c>> \in Inner(s) /\ <<s, c>> \in Phases /\ <<s, c>> # Signalling
  BY DEF Inner, Signalling, NoSide, Sides, Phases, Calls, Waits

\* What each action is of these moves.
StartWait(t, s, call) ==
  /\ phase[t] = Idle /\ ~MayStart(t, s)
  /\ zhdushchie_' = [zhdushchie_ EXCEPT ![s] = @ + 1]
  /\ monitors' = [monitors EXCEPT ![s] = Zhdi(@, t)]
  /\ Goto(t, <<s, call>>) /\ UNCHANGED counts /\ UNCHANGED signal

LEMMA StartWaitMoves ==
  ASSUME Finite, PlacesInv, NEW t \in Threads, NEW s \in Sides,
         NEW call \in {"acquire", "attempt"}, StartWait(t, s, call)
  PROVE  Moves(t, <<s, call>>)
  <1> DEFINE p == <<s, call>>
             w == Zhdi(monitors[s], t)
  <1>1. /\ phase[t] = Idle /\ phase' = [phase EXCEPT ![t] = p] /\ signal' = signal
        /\ zhdushchie_' = [zhdushchie_ EXCEPT ![s] = @ + 1]
        /\ monitors' = [monitors EXCEPT ![s] = w]
    BY DEF StartWait, Goto
  <1>2. /\ p \in Phases /\ p # Signalling /\ p \in Waits(s) /\ p \in Inner(s)
        /\ \A x \in Sides : x # s => p \notin Inner(x) /\ p \notin Waits(x)
        /\ \A x \in Sides : Idle \notin Inner(x) /\ Idle \notin Waits(x)
    BY PhaseFacts, CallFacts DEF Calls, Waits
  <1>3. WaitSetOK(monitors[s], Threads)
    BY DEF PlacesInv, PlaceTypes
  <1>4. /\ WaitSetOK(w, Threads) /\ w.os = monitors[s].os
        /\ \A u \in Threads : u # t => w.at[u] = monitors[s].at[u]
        /\ w.at[t] # "running"
    BY <1>3, ZhdiOK
  <1>5. zhdushchie_ \in [Sides -> Nat]
    BY DEF PlacesInv, PlaceTypes
  <1>6. /\ signal' \in [Threads -> Sides \cup {NoSide}]
        /\ \A u \in Threads : u # t => signal'[u] = signal[u]
        /\ p = Signalling <=> signal'[t] \in Sides
    BY <1>1, <1>2, PhaseFacts DEF PlacesInv, PlaceTypes
  <1> HIDE DEF p, w
  <1>7. /\ zhdushchie_' \in [Sides -> Int]
        /\ \A x \in Sides : zhdushchie_'[x] + One(phase[t] \in Inner(x))
                              = zhdushchie_[x] + One(p \in Inner(x))
    BY <1>1, <1>2, <1>5 DEF One
  <1>8. MonitorsMove(t, p)
    <2>1. OneSide(t, p, s, w)
      BY <1>1, <1>2, <1>4 DEF OneSide
    <2> QED BY <2>1, OneMonitor
  <1>9. Moves(t, p)
    BY <1>1, <1>2, <1>6, <1>7, <1>8 DEF Moves
  <1> QED BY <1>9 DEF p

\* The phase and the counts stay.
Stay(t, s, w) ==
  /\ UNCHANGED <<phase, signal, zhdushchie_>>
  /\ monitors' = [monitors EXCEPT ![s] = w]
  /\ WaitSetOK(w, Threads) /\ w.os = monitors[s].os
  /\ \A u \in Threads : w.at[u] = "running" <=> monitors[s].at[u] = "running"

LEMMA StayMoves ==
  ASSUME Finite, PlacesInv, NEW t \in Threads, NEW s \in Sides, NEW w, Stay(t, s, w)
  PROVE  Moves(t, phase[t])
  <1> DEFINE p == phase[t]
  <1>1. /\ phase' = [phase EXCEPT ![t] = p] /\ signal' = signal /\ p \in Phases
        /\ zhdushchie_' = zhdushchie_ /\ zhdushchie_ \in [Sides -> Int]
        /\ monitors' = [monitors EXCEPT ![s] = w]
        /\ p = Signalling <=> signal'[t] \in Sides
        /\ signal' \in [Threads -> Sides \cup {NoSide}]
    BY DEF Stay, PlacesInv, PlaceTypes
  <1>2. /\ WaitSetOK(w, Threads) /\ w.os = monitors[s].os
        /\ \A u \in Threads : w.at[u] = "running" <=> monitors[s].at[u] = "running"
    BY DEF Stay
  <1>3. w.at[t] # "running" <=> p \in Waits(s)
    BY <1>2 DEF PlacesInv, Located
  <1> HIDE DEF p
  <1>4. p = phase[t]
    BY DEF p
  <1>5. MonitorsMove(t, p)
    <2>1. OneSide(t, p, s, w)
      BY <1>1, <1>2, <1>3, <1>4 DEF OneSide
    <2> QED BY <2>1, OneMonitor
  <1> QED BY <1>1, <1>4, <1>5 DEF Moves

\* A thread leaves side s: the count falls if it was in the loop and goes out.
Leave(t, s, p, w, n) ==
  /\ phase[t] \in Inner(s) /\ p \notin Waits(s)
  /\ phase' = [phase EXCEPT ![t] = p]
  /\ zhdushchie_' = [zhdushchie_ EXCEPT ![s] = @ - n]
  /\ n = 1 - One(p \in Inner(s))
  /\ p \in {Idle, Signalling, <<s, "quit">>}
  /\ signal' = [signal EXCEPT ![t] = IF p = Signalling THEN OtherSide(s) ELSE @]
  /\ monitors' = [monitors EXCEPT ![s] = w]
  /\ WaitSetOK(w, Threads) /\ w.os = monitors[s].os
  /\ \A u \in Threads : u # t => (w.at[u] = "running" <=> monitors[s].at[u] = "running")
  /\ w.at[t] = "running"

LEMMA LeaveMoves ==
  ASSUME Finite, PlacesInv, NEW t \in Threads, NEW s \in Sides, NEW w, NEW p, NEW n,
         Leave(t, s, p, w, n)
  PROVE  Moves(t, p)
  <1>1. /\ phase[t] \in Inner(s) /\ p \notin Waits(s) /\ p \in Phases
        /\ phase' = [phase EXCEPT ![t] = p]
        /\ \A x \in Sides : x # s => /\ p \notin Inner(x) /\ p \notin Waits(x)
                                     /\ phase[t] \notin Inner(x) /\ phase[t] \notin Waits(x)
    <2>1. /\ phase[t] \in Inner(s) /\ p \notin Waits(s)
          /\ phase' = [phase EXCEPT ![t] = p]
          /\ p \in {Idle, Signalling, <<s, "quit">>}
      BY DEF Leave
    <2>2. <<s, "quit">> \in Inner(s)
      BY CallFacts
    <2>3. \A x \in Sides : x # s => \A q \in Inner(s) : q \notin Inner(x) /\ q \notin Waits(x)
      BY PhaseFacts
    <2>4. p \in Phases /\ \A x \in Sides : x # s => p \notin Inner(x) /\ p \notin Waits(x)
      <3>1. CASE p = <<s, "quit">>
        BY <2>2, <2>3, <3>1, PhaseFacts
      <3>2. CASE p \in {Idle, Signalling}
        BY <3>2, PhaseFacts
      <3> QED BY <2>1, <3>1, <3>2
    <2> QED BY <2>1, <2>3, <2>4
  <1>2. /\ signal' \in [Threads -> Sides \cup {NoSide}]
        /\ \A u \in Threads : u # t => signal'[u] = signal[u]
        /\ p = Signalling <=> signal'[t] \in Sides
    <2>1. /\ signal \in [Threads -> Sides \cup {NoSide}] /\ phase[t] # Signalling
          /\ signal[t] \notin Sides /\ OtherSide(s) \in Sides
      BY <1>1, PhaseFacts DEF PlacesInv, PlaceTypes
    <2> QED BY <2>1 DEF Leave
  <1>3. /\ zhdushchie_' \in [Sides -> Int]
        /\ \A x \in Sides : zhdushchie_'[x] + One(phase[t] \in Inner(x))
                              = zhdushchie_[x] + One(p \in Inner(x))
    <2>1. /\ zhdushchie_ \in [Sides -> Int] /\ n \in Int
          /\ zhdushchie_' = [zhdushchie_ EXCEPT ![s] = @ - n]
          /\ n = 1 - One(p \in Inner(s))
      BY DEF Leave, PlacesInv, PlaceTypes, One
    <2> QED BY <1>1, <2>1 DEF One
  <1>4. MonitorsMove(t, p)
    <2>1. OneSide(t, p, s, w)
      BY <1>1 DEF OneSide, Leave
    <2> QED BY <2>1, OneMonitor
  <1> QED BY <1>1, <1>2, <1>3, <1>4 DEF Moves

\* A thread that waits on no side and changes no wait set.
Aside(t, p, x) ==
  /\ phase[t] \in {Idle, Signalling} /\ p \in {Idle, Signalling}
  /\ phase' = [phase EXCEPT ![t] = p] /\ signal' = [signal EXCEPT ![t] = x]
  /\ x \in Sides \cup {NoSide} /\ (p = Signalling <=> x \in Sides)
  /\ UNCHANGED zhdushchie_

LEMMA AsideMoves ==
  ASSUME Finite, PlacesInv, NEW t \in Threads, NEW p, NEW x, Aside(t, p, x),
         \/ UNCHANGED monitors
         \/ \E s \in Sides : \E w : /\ monitors' = [monitors EXCEPT ![s] = w]
                                    /\ WaitSetOK(w, Threads) /\ w.os = monitors[s].os
                                    /\ \A u \in Threads : w.at[u] = "running"
                                                            <=> monitors[s].at[u] = "running"
  PROVE  Moves(t, p)
  <1>1. /\ p \in Phases /\ phase' = [phase EXCEPT ![t] = p]
        /\ \A y \in Sides : /\ p \notin Inner(y) /\ p \notin Waits(y)
                            /\ phase[t] \notin Inner(y) /\ phase[t] \notin Waits(y)
    BY PhaseFacts DEF Aside
  <1>2. /\ signal' \in [Threads -> Sides \cup {NoSide}]
        /\ \A u \in Threads : u # t => signal'[u] = signal[u]
        /\ p = Signalling <=> signal'[t] \in Sides
    BY PhaseFacts DEF Aside, PlacesInv, PlaceTypes
  <1>3. /\ zhdushchie_' \in [Sides -> Int]
        /\ \A y \in Sides : zhdushchie_'[y] + One(phase[t] \in Inner(y))
                              = zhdushchie_[y] + One(p \in Inner(y))
    BY <1>1 DEF One, Aside, PlacesInv, PlaceTypes
  <1>4. MonitorsMove(t, p)
    <2>1. CASE UNCHANGED monitors
      BY <1>1, <2>1, NoMonitor
    <2>2. ASSUME NEW s \in Sides, NEW w,
                 monitors' = [monitors EXCEPT ![s] = w],
                 WaitSetOK(w, Threads), w.os = monitors[s].os,
                 \A u \in Threads : w.at[u] = "running" <=> monitors[s].at[u] = "running"
          PROVE  MonitorsMove(t, p)
      <3>1. w.at[t] # "running" <=> p \in Waits(s)
        BY <1>1, <2>2 DEF PlacesInv, Located
      <3>2. OneSide(t, p, s, w)
        BY <1>1, <2>2, <3>1 DEF OneSide
      <3> QED BY <3>2, OneMonitor
    <2> QED BY <2>1, <2>2
  <1> QED BY <1>1, <1>2, <1>3, <1>4 DEF Moves

LEMMA EnterEffect ==
  ASSUME PlacesInv, NEW t \in Threads, NEW s \in Sides,
         NEW call \in {"acquire", "attempt"}, Enter(t, s, call)
  PROVE  \/ /\ MayStart(t, s) /\ Start(t, s)
            /\ UNCHANGED <<phase, signal, zhdushchie_, monitors>>
         \/ StartWait(t, s, call)
  BY DEF Enter, MayCall, StartWait

Resumed(w, s, t) ==
  /\ WaitSetOK(w, Threads) /\ w.os = monitors[s].os /\ w.at[t] = "running"
  /\ \A u \in Threads : u # t => w.at[u] = monitors[s].at[u]

LEMMA RetryEffect ==
  ASSUME PlacesInv, NEW t \in Threads, NEW s \in Sides,
         NEW call \in {"acquire", "attempt"}, Retry(t, s, call)
  PROVE  \/ /\ Start(t, s) /\ MayStart(t, s)
            /\ Leave(t, s, Idle, Resume(monitors[s], t), 1)
         \/ /\ ~MayStart(t, s) /\ Stay(t, s, Zhdi(monitors[s], t)) /\ UNCHANGED counts
  <1>1. /\ phase[t] = <<s, call>> /\ monitors[s].at[t] = "awake" /\ UNCHANGED signal
        /\ WaitSetOK(monitors[s], Threads) /\ signal \in [Threads -> Sides \cup {NoSide}]
    BY DEF Retry, Back, PlacesInv, PlaceTypes
  <1>2. phase[t] \in Inner(s)
    BY <1>1, CallFacts DEF Calls
  <1>3. CASE MayStart(t, s)
    <2>1. /\ zhdushchie_' = [zhdushchie_ EXCEPT ![s] = @ - 1]
          /\ monitors' = [monitors EXCEPT ![s] = Resume(monitors[s], t)]
          /\ phase' = [phase EXCEPT ![t] = Idle] /\ Start(t, s)
      BY <1>3 DEF Retry, Goto
    <2>2. signal' = [signal EXCEPT ![t] = IF Idle = Signalling THEN OtherSide(s) ELSE @]
      BY <1>1, PhaseFacts
    <2>3. 1 = 1 - One(Idle \in Inner(s)) /\ Idle \notin Waits(s)
      BY PhaseFacts DEF One
    <2>4. Resumed(Resume(monitors[s], t), s, t)
      BY <1>1, ResumeOK DEF Resumed
    <2>5. Leave(t, s, Idle, Resume(monitors[s], t), 1)
      BY <1>1, <1>2, <2>1, <2>2, <2>3, <2>4 DEF Leave, Resumed
    <2> QED BY <1>3, <2>1, <2>5
  <1>4. CASE ~MayStart(t, s)
    <2>1. /\ monitors' = [monitors EXCEPT ![s] = Zhdi(monitors[s], t)]
          /\ UNCHANGED <<zhdushchie_, phase>> /\ UNCHANGED counts
      BY <1>4 DEF Retry
    <2>2. \A u \in Threads :
            Zhdi(monitors[s], t).at[u] = "running" <=> monitors[s].at[u] = "running"
      BY <1>1, ZhdiOK
    <2> QED BY <1>1, <1>4, <2>1, <2>2, ZhdiOK DEF Stay
  <1> QED BY <1>3, <1>4

LEMMA RunsOutEffect ==
  ASSUME PlacesInv, NEW t \in Threads, NEW s \in Sides, RunsOut(t, s)
  PROVE  Leave(t, s, <<s, "quit">>, Resume(monitors[s], t), 0) /\ UNCHANGED counts
  <1>1. /\ phase[t] = <<s, "attempt">> /\ UNCHANGED signal /\ UNCHANGED counts
        /\ WaitSetOK(monitors[s], Threads) /\ signal \in [Threads -> Sides \cup {NoSide}]
        /\ zhdushchie_' = zhdushchie_ /\ zhdushchie_ \in [Sides -> Nat]
        /\ monitors' = [monitors EXCEPT ![s] = Resume(monitors[s], t)]
        /\ phase' = [phase EXCEPT ![t] = <<s, "quit">>]
    BY DEF RunsOut, Back, PlacesInv, PlaceTypes, Goto
  <1>2. /\ phase[t] \in Inner(s) /\ <<s, "quit">> \in Inner(s) /\ <<s, "quit">> \notin Waits(s)
        /\ <<s, "quit">> # Signalling
    BY <1>1, CallFacts DEF Calls
  <1>3. /\ 0 = 1 - One(<<s, "quit">> \in Inner(s))
        /\ signal' = [signal EXCEPT ![t] = IF <<s, "quit">> = Signalling
                                             THEN OtherSide(s) ELSE @]
        /\ zhdushchie_' = [zhdushchie_ EXCEPT ![s] = @ - 0]
    BY <1>1, <1>2 DEF One
  <1>4. Resumed(Resume(monitors[s], t), s, t)
    BY <1>1, ResumeOK DEF Resumed
  <1> QED BY <1>1, <1>2, <1>3, <1>4 DEF Leave, Resumed

\* A thread that gives up leaves word for the other side.
GivesUp(t, s, w) ==
  /\ Leave(t, s, Signalling, w, 1) /\ UNCHANGED counts
  /\ signal'[t] = OtherSide(s)
  /\ s = "read" => Asleep(w) = Asleep(monitors[s])
  /\ s = "write" /\ w.os = "linux" => Asleep(w) = {} \/ Resuming(w) # {}

LEMMA QuitEffect ==
  ASSUME Finite, PlacesInv, NEW t \in Threads, NEW s \in Sides, Quit(t, s)
  PROVE  \E w : GivesUp(t, s, w)
  <1>1. /\ phase[t] = <<s, "quit">> /\ UNCHANGED counts
        /\ zhdushchie_' = [zhdushchie_ EXCEPT ![s] = @ - 1]
        /\ WaitSetOK(monitors[s], Threads) /\ signal \in [Threads -> Sides \cup {NoSide}]
        /\ signal' = [signal EXCEPT ![t] = OtherSide(s)]
        /\ phase' = [phase EXCEPT ![t] = Signalling]
    BY DEF Quit, PlacesInv, PlaceTypes, Goto
  <1>2. PICK w \in PassOn(monitors[s], s) : monitors' = [monitors EXCEPT ![s] = w]
    BY DEF Quit
  <1>3. /\ phase[t] \in Inner(s) /\ Signalling \notin Waits(s)
        /\ phase[t] \notin Waits(s)
        /\ 1 = 1 - One(Signalling \in Inner(s))
    <2>1. phase[t] \in Inner(s) /\ phase[t] \notin Waits(s)
      BY <1>1, CallFacts
    <2>2. Signalling \notin Inner(s) /\ Signalling \notin Waits(s)
      BY PhaseFacts
    <2> QED BY <2>1, <2>2 DEF One
  <1>4. monitors[s].at[t] = "running"
    BY <1>3 DEF PlacesInv, Located
  <1>5. /\ WaitSetOK(w, Threads) /\ w.os = monitors[s].os
        /\ \A u \in Threads : w.at[u] = "running" <=> monitors[s].at[u] = "running"
        /\ s = "read" => w = monitors[s]
        /\ s = "write" /\ w.os = "linux" => Asleep(w) = {} \/ Resuming(w) # {}
    BY <1>1, <1>2, PassOnOK
  <1>6. Leave(t, s, Signalling, w, 1)
    BY <1>1, <1>2, <1>3, <1>4, <1>5 DEF Leave
  <1> QED BY <1>1, <1>5, <1>6 DEF GivesUp

LEMMA WaitFailedEffect ==
  ASSUME Finite, PlacesInv, NEW t \in Threads, NEW s \in Sides, WaitFailed(t, s)
  PROVE  \E w : GivesUp(t, s, w)
  <1> DEFINE m == Resume(monitors[s], t)
  <1>1. /\ monitors[s].at[t] = "failed" /\ UNCHANGED counts
        /\ zhdushchie_' = [zhdushchie_ EXCEPT ![s] = @ - 1]
        /\ WaitSetOK(monitors[s], Threads) /\ signal \in [Threads -> Sides \cup {NoSide}]
        /\ signal' = [signal EXCEPT ![t] = OtherSide(s)]
        /\ phase' = [phase EXCEPT ![t] = Signalling]
    BY DEF WaitFailed, PlacesInv, PlaceTypes, Goto
  <1>2. PICK w \in PassOn(m, s) : monitors' = [monitors EXCEPT ![s] = w]
    BY DEF WaitFailed
  <1>3. phase[t] \in Waits(s)
    BY <1>1 DEF PlacesInv, Located
  <1>4. /\ phase[t] \in Inner(s) /\ Signalling \notin Waits(s)
        /\ 1 = 1 - One(Signalling \in Inner(s))
    BY <1>3, PhaseFacts DEF One
  <1>5. /\ WaitSetOK(m, Threads) /\ m.os = monitors[s].os /\ m.at[t] = "running"
        /\ \A u \in Threads : u # t => m.at[u] = monitors[s].at[u]
        /\ Asleep(m) = Asleep(monitors[s])
    <2>1. Asleep(m) = Asleep(monitors[s])
      BY <1>1 DEF Asleep, AtPlace, Resume, WaitSetOK, WaitSets
    <2> HIDE DEF m
    <2>2. m = Resume(monitors[s], t)
      BY DEF m
    <2> QED BY <1>1, <2>1, <2>2, ResumeOK
  <1> HIDE DEF m
  <1>6. /\ WaitSetOK(w, Threads) /\ w.os = m.os
        /\ \A u \in Threads : w.at[u] = "running" <=> m.at[u] = "running"
        /\ s = "read" => w = m
        /\ s = "write" /\ m.os = "linux" => Asleep(w) = {} \/ Resuming(w) # {}
    BY <1>2, <1>5, PassOnOK
  <1>7. Leave(t, s, Signalling, w, 1)
    BY <1>1, <1>2, <1>4, <1>5, <1>6 DEF Leave
  <1> QED BY <1>1, <1>5, <1>6, <1>7 DEF GivesUp

LEMMA ChooseAside ==
  ASSUME PlacesInv, NEW t \in Threads, NEW x \in Sides \cup {NoSide}, Choose(t, x),
         phase[t] \in {Idle, Signalling}, UNCHANGED zhdushchie_
  PROVE  Aside(t, IF x = NoSide THEN Idle ELSE Signalling, x)
  BY PhaseFacts DEF Choose, Goto, Aside

LEMMA EndEffect ==
  ASSUME PlacesInv, NEW t \in Threads, EndRead(t) \/ EndWrite(t)
  PROVE  /\ UNCHANGED monitors
         /\ \E x \in Sides \cup {NoSide} : Aside(t, IF x = NoSide THEN Idle ELSE Signalling, x)
  <1>1. phase[t] = Idle /\ UNCHANGED monitors /\ UNCHANGED zhdushchie_
    BY DEF EndRead, EndWrite
  <1>2. \E x \in Sides \cup {NoSide} : Choose(t, x)
    BY DEF EndRead, EndWrite, Sides
  <1> QED BY <1>1, <1>2, ChooseAside

\* Who is signalled on linux: all readers, or a writer if there is any.
LEMMA SignalEffect ==
  ASSUME Finite, PlacesInv, NEW t \in Threads, Signal(t)
  PROVE  /\ UNCHANGED counts /\ Aside(t, Idle, NoSide) /\ phase[t] = Signalling
         /\ signal[t] \in Sides
         /\ \E w : /\ monitors' = [monitors EXCEPT ![signal[t]] = w]
                   /\ WaitSetOK(w, Threads) /\ w.os = monitors[signal[t]].os
                   /\ \A u \in Threads : w.at[u] = "running"
                                           <=> monitors[signal[t]].at[u] = "running"
                   /\ w.os = "linux" => IF signal[t] = "read" THEN Asleep(w) = {}
                                        ELSE Asleep(w) = {} \/ Resuming(w) # {}
  <1>1. /\ phase[t] = Signalling /\ signal[t] \in Sides /\ Choose(t, NoSide)
        /\ UNCHANGED zhdushchie_ /\ UNCHANGED counts
    BY DEF Signal, PlacesInv, PlaceTypes
  <1>2. Aside(t, Idle, NoSide)
    BY <1>1, ChooseAside
  <1>3. PICK w \in IF signal[t] = "read" THEN {UvedomiVseh(monitors["read"])}
                                         ELSE Uvedomi(monitors["write"]) :
          monitors' = [monitors EXCEPT ![signal[t]] = w]
    BY DEF Signal
  <1>4. WaitSetOK(monitors["read"], Threads) /\ WaitSetOK(monitors["write"], Threads)
    BY DEF PlacesInv, PlaceTypes, Sides
  <1>5. CASE signal[t] = "read"
    <2>1. w = UvedomiVseh(monitors["read"])
      BY <1>3, <1>5
    <2>2. /\ WaitSetOK(w, Threads) /\ w.os = monitors["read"].os
          /\ \A u \in Threads : \/ w.at[u] = monitors["read"].at[u]
                                \/ /\ monitors["read"].at[u] = "blocked"
                                   /\ w.at[u] = "awake"
          /\ w.os = "linux" => Asleep(w) = {}
      BY <1>4, <2>1, UvedomiVsehOK
    <2>3. \A u \in Threads : w.at[u] = "running" <=> monitors["read"].at[u] = "running"
      BY <2>2
    <2>4. monitors' = [monitors EXCEPT ![signal[t]] = w]
      BY <1>3
    <2>5. signal[t] \in Sides
      BY <1>1
    <2>6. /\ WaitSetOK(w, Threads) /\ w.os = monitors[signal[t]].os
          /\ \A u \in Threads : w.at[u] = "running" <=> monitors[signal[t]].at[u] = "running"
          /\ w.os = "linux" => IF signal[t] = "read" THEN Asleep(w) = {}
                               ELSE Asleep(w) = {} \/ Resuming(w) # {}
      BY <1>5, <2>2, <2>3
    <2> QED BY <1>1, <1>2, <2>4, <2>5, <2>6
  <1>6. CASE signal[t] # "read"
    <2>1. signal[t] = "write" /\ w \in Uvedomi(monitors["write"])
      BY <1>1, <1>3, <1>6 DEF Sides
    <2>2. /\ WaitSetOK(w, Threads) /\ w.os = monitors["write"].os
          /\ \A u \in Threads : w.at[u] = "running" <=> monitors["write"].at[u] = "running"
          /\ monitors["write"].os = "linux" => Asleep(w) = {} \/ Resuming(w) # {}
      BY <1>4, <2>1, WriterWoken
    <2> QED BY <1>1, <1>2, <1>3, <2>1, <2>2
  <1> QED BY <1>5, <1>6

LEMMA KernelEffect ==
  ASSUME PlacesInv, NEW t \in Threads, NEW s \in Sides, KernelStep(t, s)
  PROVE  /\ UNCHANGED counts
         /\ \E w : /\ Stay(t, s, w)
                   /\ Asleep(w) \subseteq Asleep(monitors[s])
                   /\ Resuming(monitors[s]) \subseteq Resuming(w)
  <1>1. WaitSetOK(monitors[s], Threads)
    BY DEF PlacesInv, PlaceTypes
  <1>2. PICK w \in KernelSteps(monitors[s], t, phase[t] = <<s, "attempt">>) :
          monitors' = [monitors EXCEPT ![s] = w]
    BY DEF KernelStep
  <1>3. /\ WaitSetOK(w, Threads) /\ w.os = monitors[s].os
        /\ \A u \in Threads : u # t => w.at[u] = monitors[s].at[u]
        /\ monitors[s].at[t] \in {"gap", "blocked"} /\ w.at[t] \in {"blocked", "awake", "failed"}
        /\ Asleep(w) \subseteq Asleep(monitors[s])
    BY <1>1, <1>2, KernelStepOK, KernelStepMoves
  <1>4. Resuming(monitors[s]) \subseteq Resuming(w)
    BY <1>1, <1>3 DEF Resuming, AtPlace, WaitSetOK, WaitSets
  <1>5. UNCHANGED <<phase, signal, zhdushchie_>> /\ UNCHANGED counts
    BY DEF KernelStep
  <1>6. \A u \in Threads : w.at[u] = "running" <=> monitors[s].at[u] = "running"
    BY <1>3
  <1>7. Stay(t, s, w)
    BY <1>2, <1>3, <1>5, <1>6 DEF Stay
  <1> QED BY <1>3, <1>4, <1>5, <1>7

LEMMA PlacesStep ==
  ASSUME Finite, PlacesInv, [Next]_vars
  PROVE  PlacesInv'
  <1>1. CASE UNCHANGED <<phase, signal, zhdushchie_, monitors>>
    BY <1>1 DEF PlacesInv, PlaceTypes, Located, WaitersCounted, Inside
  <1>2. ASSUME NEW t \in Threads, NEW s \in Sides, NEW call \in {"acquire", "attempt"},
               Enter(t, s, call)
        PROVE  PlacesInv'
    BY <1>1, <1>2, EnterEffect, StartWaitMoves, PlacesMove
  <1>3. ASSUME NEW t \in Threads, NEW s \in Sides, NEW call \in {"acquire", "attempt"},
               Retry(t, s, call)
        PROVE  PlacesInv'
    BY <1>3, RetryEffect, LeaveMoves, StayMoves, PlacesMove
  <1>4. ASSUME NEW t \in Threads, NEW s \in Sides, RunsOut(t, s)
        PROVE  PlacesInv'
    BY <1>4, RunsOutEffect, LeaveMoves, PlacesMove
  <1>5. ASSUME NEW t \in Threads, NEW s \in Sides, Quit(t, s) \/ WaitFailed(t, s)
        PROVE  PlacesInv'
    <2>1. PICK w : Leave(t, s, Signalling, w, 1)
      BY <1>5, QuitEffect, WaitFailedEffect DEF GivesUp
    <2> QED BY <2>1, LeaveMoves, PlacesMove
  <1>6. ASSUME NEW t \in Threads, NEW s \in Sides, KernelStep(t, s)
        PROVE  PlacesInv'
    BY <1>6, KernelEffect, StayMoves, PlacesMove
  <1>7. ASSUME NEW t \in Threads, EndRead(t) \/ EndWrite(t)
        PROVE  PlacesInv'
    BY <1>7, EndEffect, AsideMoves, PlacesMove
  <1>8. ASSUME NEW t \in Threads, Signal(t)
        PROVE  PlacesInv'
    BY <1>8, SignalEffect, AsideMoves, PlacesMove
  <1> QED BY <1>1, <1>2, <1>3, <1>4, <1>5, <1>6, <1>7, <1>8 DEF Next, vars

LEMMA PlacesStart ==
  ASSUME Finite, Init
  PROVE  PlacesInv
  <1>1. PICK os \in Systems : monitors = [s \in Sides |-> NewWaitSet(os, Threads)]
    BY DEF Init
  <1>2. /\ WaitSetOK(NewWaitSet(os, Threads), Threads)
        /\ \A t \in Threads : NewWaitSet(os, Threads).at[t] = "running"
    BY NewWaitSetOK, ReadWriteAssumption DEF NewWaitSet
  <1>3. /\ phase = [t \in Threads |-> Idle] /\ signal = [t \in Threads |-> NoSide]
        /\ zhdushchie_ = [s \in Sides |-> 0]
    BY DEF Init
  <1>4. PlaceTypes /\ Located
    BY <1>1, <1>2, <1>3, PhaseFacts DEF PlaceTypes, Located, Sides
  <1>5. \A s \in Sides : Inside(s) = {}
    BY <1>3, PhaseFacts DEF Inside, Inner
  <1> QED BY <1>3, <1>4, <1>5, FS_EmptySet DEF PlacesInv, WaitersCounted

\* Each count of waiting threads is the number of threads in its waiting loop,
\* on whatever path they come and go.
THEOREM WaitersAreCounted ==
  ASSUME Finite
  PROVE  Spec => []WaitersCounted
  <1>1. Init => PlacesInv
    BY PlacesStart
  <1>2. PlacesInv /\ [Next]_vars => PlacesInv'
    BY PlacesStep
  <1>3. PlacesInv => WaitersCounted
    BY DEF PlacesInv
  <1> QED BY <1>1, <1>2, <1>3, PTL DEF Spec

------------------------------------------------------------------------------
\* What holds of the sleepers on linux.  A sleeping reader has something in its
\* way, or a signal to it is under way.  A sleeping writer with nothing in its
\* way has somebody else to come: a woken writer, a signal, a thread that gives
\* up, or, in the class that prefers readers, a reader that comes first.
Linux == \A s \in Sides : monitors[s].os = "linux"
Free == aktivnyePisateli_ = NoThread /\ aktivnyeChitateli_ = 0
SignalTo(s) == \E t \in Threads : phase[t] = Signalling /\ signal[t] = s
Quitting == \E t \in Threads, s \in Sides : phase[t] = <<s, "quit">>

ReadersServed ==
  Linux /\ Asleep(monitors["read"]) # {} =>
    \/ aktivnyePisateli_ # NoThread
    \/ cls # "readers" /\ zhdushchie_["write"] > 0
    \/ SignalTo("read")

WritersServed ==
  Linux /\ Asleep(monitors["write"]) # {} /\ Free =>
    \/ Resuming(monitors["write"]) # {} \/ SignalTo("write") \/ Quitting
    \/ /\ cls = "readers"
       /\ Resuming(monitors["read"]) # {} \/ (Inside("read") # {} /\ SignalTo("read"))

BothInv == HoldsAndPhases /\ PlacesInv
ServedInv == BothInv /\ ReadersServed /\ WritersServed

LEMMA MovesKeep ==
  ASSUME PlacesInv, NEW t \in Threads, NEW p, Moves(t, p)
  PROVE  /\ Linux' => Linux
         /\ \A x \in Sides : SignalTo(x) /\ ~(phase[t] = Signalling /\ signal[t] = x)
                               => SignalTo(x)'
         /\ p = Signalling => \A x \in Sides : signal'[t] = x => SignalTo(x)'
         /\ (\A s \in Sides : phase[t] # <<s, "quit">>) /\ Quitting => Quitting'
         /\ (phase[t] \in Inner("read") => p \in Inner("read")) /\ Inside("read") # {}
              => Inside("read")' # {}
  <1>1. /\ \A u \in Threads : u # t => phase'[u] = phase[u] /\ signal'[u] = signal[u]
        /\ phase'[t] = p
        /\ \A s \in Sides : monitors'[s].os = monitors[s].os
    BY DEF Moves, MonitorsMove, PlacesInv, PlaceTypes
  <1>2. Linux' => Linux
    BY <1>1 DEF Linux
  <1>3. /\ \A x \in Sides : SignalTo(x) /\ ~(phase[t] = Signalling /\ signal[t] = x)
                              => SignalTo(x)'
        /\ p = Signalling => \A x \in Sides : signal'[t] = x => SignalTo(x)'
    BY <1>1 DEF SignalTo
  <1>4. (\A s \in Sides : phase[t] # <<s, "quit">>) /\ Quitting => Quitting'
    <2> SUFFICES ASSUME \A s \in Sides : phase[t] # <<s, "quit">>, Quitting
                 PROVE  Quitting'
      OBVIOUS
    <2>1. PICK u \in Threads, s \in Sides : phase[u] = <<s, "quit">>
      BY DEF Quitting
    <2>2. phase'[u] = <<s, "quit">>
      BY <1>1, <2>1
    <2> QED BY <2>2 DEF Quitting
  <1>5. ASSUME phase[t] \in Inner("read") => p \in Inner("read"), Inside("read") # {}
        PROVE  Inside("read")' # {}
    <2>1. PICK u \in Threads : phase[u] \in Inner("read")
      BY <1>5 DEF Inside, Inner
    <2>2. phase'[u] \in Inner("read")
      BY <1>1, <1>5, <2>1
    <2> QED BY <2>2 DEF Inside, Inner
  <1> QED BY <1>2, <1>3, <1>4, <1>5

\* Steps that make nothing worse for the one side, or the other.
LEMMA ReadersKept ==
  ASSUME ReadersServed, Linux' => Linux, UNCHANGED cls,
         Asleep(monitors["read"])' \subseteq Asleep(monitors["read"]),
         aktivnyePisateli_' = aktivnyePisateli_ \/ aktivnyePisateli_' # NoThread,
         zhdushchie_["write"] > 0 => zhdushchie_'["write"] > 0,
         SignalTo("read") => SignalTo("read")'
  PROVE  ReadersServed'
  BY DEF ReadersServed

LEMMA WritersKept ==
  ASSUME WritersServed, Linux' => Linux, UNCHANGED cls, Free' => Free,
         Asleep(monitors["write"])' \subseteq Asleep(monitors["write"]),
         Resuming(monitors["write"]) \subseteq Resuming(monitors["write"])',
         Resuming(monitors["read"]) \subseteq Resuming(monitors["read"])',
         \A x \in Sides : SignalTo(x) => SignalTo(x)',
         Quitting => Quitting',
         Inside("read") # {} => Inside("read")' # {}
  PROVE  WritersServed'
  BY DEF WritersServed, Sides

LEMMA StartTaken ==
  ASSUME HoldsInv, NEW t \in Threads, NEW s \in Sides, Start(t, s)
  PROVE  /\ ~Free'
         /\ aktivnyePisateli_' = aktivnyePisateli_ \/ aktivnyePisateli_' # NoThread
  BY ReadWriteAssumption DEF Start, Free, HoldsInv, TypesOK, Sides

\* Who must wait has something in its way.
LEMMA InTheWay ==
  ASSUME BothInv, NEW t \in Threads
  PROVE  /\ ~MayStart(t, "write") => ~Free
         /\ ~MayStart(t, "read") => \/ aktivnyePisateli_ # NoThread
                                    \/ cls # "readers" /\ zhdushchie_["write"] > 0
  <1>1. zhdushchie_["write"] \in Nat
    BY DEF BothInv, PlacesInv, PlaceTypes, Sides
  <1> QED BY <1>1 DEF MayStart, MayWrite, MayRead, AllowReader, Free

LEMMA ServedTaken ==
  ASSUME ServedInv, NEW t \in Threads, NEW s \in Sides, Start(t, s), UNCHANGED cls,
         \/ UNCHANGED <<phase, signal, zhdushchie_, monitors>>
         \/ Leave(t, s, Idle, Resume(monitors[s], t), 1) /\ Moves(t, Idle)
  PROVE  ReadersServed' /\ WritersServed'
  <1>1. /\ ~Free'
        /\ aktivnyePisateli_' = aktivnyePisateli_ \/ aktivnyePisateli_' # NoThread
    BY StartTaken DEF ServedInv, BothInv, HoldsAndPhases
  <1>2. WritersServed'
    BY <1>1 DEF WritersServed
  <1>3. CASE UNCHANGED <<phase, signal, zhdushchie_, monitors>>
    <2>1. Linux' => Linux
      BY <1>3 DEF Linux
    <2>2. SignalTo("read") => SignalTo("read")'
      BY <1>3 DEF SignalTo
    <2> QED BY <1>1, <1>2, <1>3, <2>1, <2>2, ReadersKept DEF ServedInv
  <1>4. CASE Leave(t, s, Idle, Resume(monitors[s], t), 1) /\ Moves(t, Idle)
    <2>1. CASE s = "write"
      <3>1. aktivnyePisateli_' # NoThread
        BY <2>1, ReadWriteAssumption DEF Start
      <3> QED BY <1>2, <3>1 DEF ReadersServed
    <2>2. CASE s = "read"
      <3>1. /\ zhdushchie_'["write"] = zhdushchie_["write"]
            /\ monitors'["read"] = Resume(monitors["read"], t)
            /\ phase[t] \in Inner("read") /\ WaitSetOK(monitors["read"], Threads)
        BY <1>4, <2>2 DEF Leave, ServedInv, BothInv, PlacesInv, PlaceTypes, Sides
      <3>2. phase[t] # Signalling
        BY <2>2, <3>1, PhaseFacts
      <3>3. /\ Linux' => Linux
            /\ SignalTo("read") => SignalTo("read")'
        BY <1>4, <2>2, <3>2, MovesKeep DEF ServedInv, BothInv
      <3>4. Asleep(monitors["read"])' \subseteq Asleep(monitors["read"])
        BY <3>1, ResumeOK
      <3> QED BY <1>1, <1>2, <3>1, <3>3, <3>4, ReadersKept DEF ServedInv
    <2> QED BY <2>1, <2>2 DEF Sides
  <1> QED BY <1>3, <1>4

LEMMA ServedWait ==
  ASSUME Finite, ServedInv, NEW t \in Threads, NEW s \in Sides,
         NEW call \in {"acquire", "attempt"}, StartWait(t, s, call), UNCHANGED cls
  PROVE  ReadersServed' /\ WritersServed'
  <1> DEFINE p == <<s, call>>
  <1>1. Moves(t, p)
    BY StartWaitMoves DEF ServedInv, BothInv
  <1>2. /\ phase[t] = Idle /\ UNCHANGED counts /\ ~MayStart(t, s)
        /\ zhdushchie_' = [zhdushchie_ EXCEPT ![s] = @ + 1]
        /\ monitors' = [monitors EXCEPT ![s] = Zhdi(monitors[s], t)]
        /\ UNCHANGED <<aktivnyePisateli_, aktivnyeChitateli_>>
        /\ zhdushchie_ \in [Sides -> Nat] /\ DOMAIN monitors = Sides
        /\ \A x \in Sides : WaitSetOK(monitors[x], Threads)
    BY DEF StartWait, counts, ServedInv, BothInv, PlacesInv, PlaceTypes
  <1>3. /\ phase[t] # Signalling /\ \A x \in Sides : phase[t] # <<x, "quit">>
        /\ phase[t] \notin Inner("read")
    BY <1>2, PhaseFacts, CallFacts DEF Sides
  <1> HIDE DEF p
  <1>4. /\ Linux' => Linux
        /\ \A x \in Sides : SignalTo(x) => SignalTo(x)'
        /\ Quitting => Quitting'
        /\ Inside("read") # {} => Inside("read")' # {}
    BY <1>1, <1>3, MovesKeep DEF ServedInv, BothInv
  <1>5. Free' => Free
    BY <1>2 DEF Free
  <1>6. CASE s = "write"
    <2>1. ~Free'
      BY <1>2, <1>5, <1>6, InTheWay DEF ServedInv
    <2>2. WritersServed'
      BY <2>1 DEF WritersServed
    <2>3. monitors'["read"] = monitors["read"]
          /\ (zhdushchie_["write"] > 0 => zhdushchie_'["write"] > 0)
      BY <1>2, <1>6 DEF Sides
    <2> QED BY <1>2, <1>4, <2>2, <2>3, ReadersKept DEF ServedInv, Sides
  <1>7. CASE s = "read"
    <2>1. \/ aktivnyePisateli_' # NoThread
          \/ cls' # "readers" /\ zhdushchie_'["write"] > 0
      BY <1>2, <1>7, InTheWay DEF ServedInv, Sides
    <2>2. ReadersServed'
      BY <2>1 DEF ReadersServed
    <2>3. /\ monitors'["write"] = monitors["write"]
          /\ monitors["read"].at[t] = "running"
          /\ monitors'["read"] = Zhdi(monitors["read"], t)
      <3>1. phase[t] \notin Waits("read")
        BY <1>2, PhaseFacts DEF Sides
      <3> QED BY <1>2, <1>7, <3>1 DEF Sides, ServedInv, BothInv, PlacesInv, Located
    <2>4. Resuming(monitors["read"]) \subseteq Resuming(monitors["read"])'
      BY <1>2, <2>3 DEF Resuming, AtPlace, Zhdi, WaitSetOK, WaitSets, Sides
    <2> QED BY <1>4, <1>5, <2>2, <2>3, <2>4, WritersKept DEF ServedInv
  <1> QED BY <1>6, <1>7 DEF Sides

LEMMA ServedAgain ==
  ASSUME Finite, ServedInv, NEW t \in Threads, NEW s \in Sides, ~MayStart(t, s),
         Stay(t, s, Zhdi(monitors[s], t)), UNCHANGED counts, UNCHANGED cls
  PROVE  ReadersServed' /\ WritersServed'
  <1>1. /\ UNCHANGED <<phase, signal, zhdushchie_>>
        /\ monitors' = [monitors EXCEPT ![s] = Zhdi(monitors[s], t)]
        /\ Zhdi(monitors[s], t).os = monitors[s].os
        /\ UNCHANGED <<aktivnyePisateli_, aktivnyeChitateli_>>
        /\ DOMAIN monitors = Sides /\ "read" \in Sides /\ "write" \in Sides
    BY DEF Stay, counts, ServedInv, BothInv, PlacesInv, PlaceTypes, Sides
  <1>2. /\ Linux' => Linux
        /\ \A x \in Sides : SignalTo(x) => SignalTo(x)'
        /\ Quitting => Quitting'
        /\ Free' => Free
    BY <1>1 DEF Linux, SignalTo, Quitting, Free
  <1>3. CASE s = "write"
    <2>1. WritersServed'
      BY <1>2, <1>3, InTheWay DEF WritersServed, ServedInv
    <2> QED BY <1>1, <1>2, <1>3, <2>1, ReadersKept DEF ServedInv
  <1>4. CASE s = "read"
    <2>1. \/ aktivnyePisateli_ # NoThread
          \/ cls # "readers" /\ zhdushchie_["write"] > 0
      BY <1>4, InTheWay DEF ServedInv
    <2>2. monitors'["write"] = monitors["write"]
      BY <1>1, <1>4
    <2> QED BY <1>1, <1>2, <2>1, <2>2 DEF ReadersServed, WritersServed, ServedInv, Free
  <1> QED BY <1>3, <1>4 DEF Sides

LEMMA ServedRunsOut ==
  ASSUME Finite, ServedInv, NEW t \in Threads, NEW s \in Sides, RunsOut(t, s)
  PROVE  ReadersServed' /\ WritersServed'
  <1> DEFINE p == <<s, "quit">>
  <1>1. Leave(t, s, p, Resume(monitors[s], t), 0) /\ UNCHANGED counts /\ UNCHANGED cls
    BY RunsOutEffect DEF ServedInv, BothInv, RunsOut
  <1>2. Moves(t, p)
    BY <1>1, LeaveMoves DEF ServedInv, BothInv
  <1>3. /\ phase[t] \in Inner(s) /\ phase'[t] = p
        /\ monitors' = [monitors EXCEPT ![s] = Resume(monitors[s], t)]
        /\ zhdushchie_' = [zhdushchie_ EXCEPT ![s] = @ - 0]
        /\ zhdushchie_ \in [Sides -> Nat] /\ DOMAIN monitors = Sides
        /\ \A x \in Sides : WaitSetOK(monitors[x], Threads)
    BY <1>1 DEF Leave, ServedInv, BothInv, PlacesInv, PlaceTypes
  <1>4. Quitting'
    BY <1>3 DEF Quitting
  <1> HIDE DEF p
  <1>5. phase[t] # Signalling
    BY <1>3, PhaseFacts
  <1>6. /\ Linux' => Linux
        /\ \A x \in Sides : SignalTo(x) => SignalTo(x)'
    BY <1>2, <1>5, MovesKeep DEF ServedInv, BothInv
  <1>7. Asleep(monitors["read"])' \subseteq Asleep(monitors["read"])
    BY <1>3, ResumeOK DEF Sides
  <1>8. ReadersServed'
    <2>1. zhdushchie_["write"] > 0 => zhdushchie_'["write"] > 0
      BY <1>3 DEF Sides
    <2> QED BY <1>1, <1>6, <1>7, <2>1, ReadersKept DEF counts, ServedInv, Sides
  <1> QED BY <1>4, <1>8 DEF WritersServed

LEMMA ServedGivesUp ==
  ASSUME Finite, ServedInv, NEW t \in Threads, NEW s \in Sides, NEW w, GivesUp(t, s, w),
         UNCHANGED cls
  PROVE  ReadersServed' /\ WritersServed'
  <1>1. /\ Leave(t, s, Signalling, w, 1) /\ UNCHANGED counts /\ signal'[t] = OtherSide(s)
        /\ s = "read" => Asleep(w) = Asleep(monitors[s])
        /\ s = "write" /\ w.os = "linux" => Asleep(w) = {} \/ Resuming(w) # {}
    BY DEF GivesUp
  <1>2. Moves(t, Signalling)
    BY <1>1, LeaveMoves DEF ServedInv, BothInv
  <1>3. /\ phase[t] \in Inner(s) /\ monitors' = [monitors EXCEPT ![s] = w]
        /\ zhdushchie_' = [zhdushchie_ EXCEPT ![s] = @ - 1]
        /\ zhdushchie_ \in [Sides -> Nat] /\ DOMAIN monitors = Sides
        /\ "read" \in Sides /\ "write" \in Sides
    BY <1>1 DEF Leave, ServedInv, BothInv, PlacesInv, PlaceTypes, Sides
  <1>4. phase[t] # Signalling
    BY <1>3, PhaseFacts
  <1>5. /\ Linux' => Linux
        /\ \A x \in Sides : SignalTo(x) => SignalTo(x)'
        /\ SignalTo(OtherSide(s))'
    BY <1>1, <1>2, <1>4, MovesKeep, PhaseFacts DEF ServedInv, BothInv
  <1>6. CASE s = "read"
    <2>1. SignalTo("write")'
      BY <1>5, <1>6 DEF OtherSide
    <2>2. /\ Asleep(monitors["read"])' \subseteq Asleep(monitors["read"])
          /\ zhdushchie_'["write"] = zhdushchie_["write"]
      BY <1>1, <1>3, <1>6
    <2>3. ReadersServed'
      BY <1>1, <1>3, <1>5, <2>2, ReadersKept DEF counts, ServedInv
    <2> QED BY <2>1, <2>3 DEF WritersServed
  <1>7. CASE s = "write"
    <2>1. SignalTo("read")'
      BY <1>5, <1>7 DEF OtherSide, Sides
    <2>2. monitors'["write"] = w
      BY <1>3, <1>7
    <2>3. Linux' => Asleep(w) = {} \/ Resuming(w) # {}
      BY <1>1, <1>3, <1>7, <2>2 DEF Linux
    <2> QED BY <2>1, <2>2, <2>3 DEF ReadersServed, WritersServed
  <1> QED BY <1>6, <1>7 DEF Sides

LEMMA SleepersCounted ==
  ASSUME Finite, PlacesInv, NEW s \in Sides, Asleep(monitors[s]) # {}
  PROVE  zhdushchie_[s] > 0 /\ Inside(s) # {}
  <1>1. PICK t \in Threads : monitors[s].at[t] \in {"gap", "blocked"}
    BY DEF PlacesInv, PlaceTypes, WaitSetOK, WaitSets, Asleep, AtPlace
  <1>2. phase[t] \in Inner(s)
    BY <1>1, PhaseFacts DEF PlacesInv, Located
  <1>3. t \in Inside(s) /\ Inside(s) \subseteq Threads
    BY <1>2 DEF Inside, Inner
  <1> HIDE DEF Inside
  <1>4. Cardinality(Inside(s)) \in Nat /\ Cardinality(Inside(s)) # 0
    BY <1>3, FS_Subset, FS_CardinalityType, FS_EmptySet DEF Finite
  <1> QED BY <1>3, <1>4 DEF PlacesInv, WaitersCounted

LEMMA ChosenSignals ==
  ASSUME PlacesInv, NEW t \in Threads, NEW x \in Sides, Choose(t, x)
  PROVE  SignalTo(x)'
  BY PhaseFacts DEF Choose, Goto, SignalTo, PlacesInv, PlaceTypes

\* What a release leaves as it was.
LEMMA EndKeeps ==
  ASSUME Finite, ServedInv, NEW t \in Threads, EndRead(t) \/ EndWrite(t)
  PROVE  /\ UNCHANGED <<monitors, zhdushchie_, cls>>
         /\ \A x \in Sides : SignalTo(x) => SignalTo(x)'
  <1>1. phase[t] = Idle /\ UNCHANGED <<monitors, zhdushchie_, cls>>
    BY DEF EndRead, EndWrite
  <1>2. phase[t] # Signalling
    BY <1>1, PhaseFacts
  <1>3. \E p : Moves(t, p)
    BY EndEffect, AsideMoves DEF ServedInv, BothInv
  <1> QED BY <1>1, <1>2, <1>3, MovesKeep DEF ServedInv, BothInv

LEMMA ServedEndRead ==
  ASSUME Finite, ServedInv, NEW t \in Threads, EndRead(t)
  PROVE  ReadersServed' /\ WritersServed'
  <1>1. /\ UNCHANGED <<monitors, zhdushchie_, cls>>
        /\ \A x \in Sides : SignalTo(x) => SignalTo(x)'
    BY EndKeeps
  <1>2. /\ UNCHANGED aktivnyePisateli_ /\ aktivnyeChitateli_' = aktivnyeChitateli_ - 1
        /\ held[t]["read"] > 0 /\ "read" \in Sides /\ "write" \in Sides
    BY DEF EndRead, Sides
  <1>3. HoldsInv /\ PlacesInv
    BY DEF ServedInv, BothInv, HoldsAndPhases
  <1>4. ReadersServed'
    BY <1>1, <1>2, ReadersKept DEF ServedInv, Linux
  <1>5. ASSUME Asleep(monitors["write"])' # {}, Free'
        PROVE  SignalTo("write")'
    <2>1. zhdushchie_["write"] > 0
      BY <1>1, <1>2, <1>3, <1>5, SleepersCounted
    <2>2. aktivnyeChitateli_ = 1 /\ aktivnyePisateli_ = NoThread
      BY <1>2, <1>3, <1>5 DEF Free, HoldsInv, TypesOK
    <2>3. held[t]["read"] <= 1
      <3>1. /\ held[t]["read"] <= SumHolds("read") /\ SumHolds("read") \in Nat
            /\ held[t]["read"] \in Nat
        BY <1>2, <1>3, SumFacts DEF HoldsInv, TypesOK
      <3> QED BY <1>3, <2>2, <3>1 DEF HoldsInv, Exclusion
    <2>4. ~ (held[t]["read"] > 1)
      BY <1>2, <1>3, <2>3 DEF HoldsInv, TypesOK
    <2>5. Reentrant => zaderzhkiZapisi_ = 0
      <3>1. \A u \in Threads : held[u]["write"] = 0
        BY <1>3, <2>2, FreeMeansFree
      <3>2. SumHolds("write") = 0
        BY <1>2, <1>3, <3>1, SumFacts DEF HoldsInv, TypesOK
      <3> QED BY <1>3, <3>2 DEF HoldsInv, Exclusion
    <2>6. Choose(t, "write")
      BY <2>1, <2>2, <2>4, <2>5 DEF EndRead
    <2> QED BY <1>2, <1>3, <2>6, ChosenSignals
  <1> QED BY <1>4, <1>5 DEF WritersServed

LEMMA ServedEndWrite ==
  ASSUME Finite, ServedInv, NEW t \in Threads, EndWrite(t)
  PROVE  ReadersServed' /\ WritersServed'
  <1> DEFINE last == ~Reentrant \/ zaderzhkiZapisi_ = 1
             readersFirst == /\ zhdushchie_["read"] > 0
                             /\ cls = "readers" \/ zhdushchie_["write"] = 0
  <1>1. /\ UNCHANGED <<monitors, zhdushchie_, cls>>
        /\ \A x \in Sides : SignalTo(x) => SignalTo(x)'
    BY EndKeeps
  <1>2. /\ held[t]["write"] > 0 /\ "read" \in Sides /\ "write" \in Sides
        /\ aktivnyePisateli_' = IF last THEN NoThread ELSE aktivnyePisateli_
        /\ UNCHANGED aktivnyeChitateli_
        /\ Choose(t, IF ~last THEN NoSide
                     ELSE IF readersFirst THEN "read"
                     ELSE IF zhdushchie_["write"] > 0 THEN "write"
                     ELSE NoSide)
    BY DEF EndWrite, Sides
  <1>3. HoldsInv /\ PlacesInv /\ zhdushchie_ \in [Sides -> Nat]
    BY DEF ServedInv, BothInv, HoldsAndPhases, PlacesInv, PlaceTypes
  <1> HIDE DEF last, readersFirst
  <1>4. aktivnyePisateli_' = NoThread => last
    BY <1>2, <1>3, ReadWriteAssumption DEF HoldsInv, Exclusion
  <1>5. ASSUME last, readersFirst
        PROVE  SignalTo("read")'
    <2>1. Choose(t, "read")
      BY <1>2, <1>5
    <2> QED BY <1>2, <1>3, <2>1, ChosenSignals
  <1>6. ASSUME Asleep(monitors["read"])' # {}, aktivnyePisateli_' = NoThread
        PROVE  SignalTo("read")' \/ (cls' # "readers" /\ zhdushchie_'["write"] > 0)
    <2>1. zhdushchie_["read"] > 0
      BY <1>1, <1>2, <1>3, <1>6, SleepersCounted
    <2>2. CASE readersFirst
      BY <1>4, <1>5, <1>6, <2>2
    <2>3. CASE ~readersFirst
      BY <1>1, <1>2, <1>3, <2>1, <2>3 DEF readersFirst
    <2> QED BY <2>2, <2>3
  <1>7. ASSUME Asleep(monitors["write"])' # {}, Free'
        PROVE  \/ SignalTo("write")'
               \/ cls' = "readers" /\ Inside("read")' # {} /\ SignalTo("read")'
    <2>1. zhdushchie_["write"] > 0
      BY <1>1, <1>2, <1>3, <1>7, SleepersCounted
    <2>2. last
      BY <1>4, <1>7 DEF Free
    <2>3. CASE readersFirst
      <3>1. SignalTo("read")' /\ cls' = "readers" /\ zhdushchie_["read"] > 0
        BY <1>1, <1>5, <2>1, <2>2, <2>3 DEF readersFirst
      <3>2. Inside("read") # {}
        <4>1. Cardinality(Inside("read")) # 0
          BY <1>2, <1>3, <3>1 DEF PlacesInv, WaitersCounted
        <4> HIDE DEF Inside
        <4> QED BY <4>1, FS_EmptySet
      <3>3. Inside("read")' # {}
        <4>1. PICK u \in Threads : phase[u] \in Inner("read")
          BY <3>2 DEF Inside, Inner
        <4>2. u # t
          BY <4>1, PhaseFacts DEF EndWrite, Sides
        <4>3. phase'[u] = phase[u]
          BY <1>2, <1>3, <4>2 DEF Choose, Goto, PlacesInv, PlaceTypes
        <4> QED BY <4>1, <4>3 DEF Inside, Inner
      <3> QED BY <3>1, <3>3
    <2>4. CASE ~readersFirst
      <3>1. Choose(t, "write")
        BY <1>2, <2>1, <2>2, <2>4
      <3> QED BY <1>2, <1>3, <3>1, ChosenSignals
    <2> QED BY <2>3, <2>4
  <1> QED BY <1>6, <1>7 DEF ReadersServed, WritersServed

LEMMA ServedSignal ==
  ASSUME Finite, ServedInv, NEW t \in Threads, Signal(t)
  PROVE  ReadersServed' /\ WritersServed'
  <1>1. PlacesInv /\ UNCHANGED cls
    BY DEF ServedInv, BothInv, Signal
  <1>2. /\ UNCHANGED counts /\ Aside(t, Idle, NoSide) /\ phase[t] = Signalling
        /\ signal[t] \in Sides /\ "read" \in Sides /\ "write" \in Sides
    BY <1>1, SignalEffect DEF Sides
  <1>3. PICK w : /\ monitors' = [monitors EXCEPT ![signal[t]] = w]
                 /\ WaitSetOK(w, Threads) /\ w.os = monitors[signal[t]].os
                 /\ \A u \in Threads : w.at[u] = "running"
                                         <=> monitors[signal[t]].at[u] = "running"
                 /\ w.os = "linux" => IF signal[t] = "read" THEN Asleep(w) = {}
                                      ELSE Asleep(w) = {} \/ Resuming(w) # {}
    BY <1>1, SignalEffect
  <1>4. Moves(t, Idle)
    BY <1>1, <1>2, <1>3, AsideMoves
  <1>5. /\ \A x \in Sides : phase[t] # <<x, "quit">>
        /\ phase[t] \notin Inner("read")
    <2>1. \A x \in Sides : Signalling # <<x, "quit">>
      BY ZenonT(60), PhaseFacts, CallFacts
    <2>2. Signalling \notin Inner("read")
      BY <1>2, PhaseFacts
    <2> QED BY <1>2, <2>1, <2>2
  <1>6. /\ Linux' => Linux
        /\ \A x \in Sides : SignalTo(x) /\ signal[t] # x => SignalTo(x)'
        /\ Quitting => Quitting'
        /\ Inside("read") # {} => Inside("read")' # {}
    BY <1>1, <1>4, <1>5, MovesKeep
  <1>7. /\ UNCHANGED <<aktivnyePisateli_, zhdushchie_>>
        /\ Free' => Free
    BY <1>2 DEF counts, Aside, Free
  <1>8. DOMAIN monitors = Sides
    BY <1>1 DEF PlacesInv, PlaceTypes
  <1>9. CASE signal[t] = "read"
    <2>1. monitors'["read"] = w /\ monitors'["write"] = monitors["write"]
      BY <1>2, <1>3, <1>8, <1>9
    <2>2. Linux' => Asleep(w) = {}
      BY <1>2, <1>3, <1>9, <2>1 DEF Linux
    <2>3. ReadersServed'
      BY <2>1, <2>2 DEF ReadersServed
    \* The readers who are signalled are up now.
    <2>4. ASSUME Linux', Inside("read") # {}
          PROVE  Quitting' \/ Resuming(monitors["read"])' # {}
      <3>1. PICK u \in Threads : phase[u] \in Inner("read")
        BY <2>4 DEF Inside, Inner
      <3>2. CASE phase[u] = <<"read", "quit">>
        <4>1. Quitting
          BY <1>2, <3>2 DEF Quitting
        <4> QED BY <1>6, <4>1
      <3>3. CASE phase[u] # <<"read", "quit">>
        <4>1. phase[u] \in Waits("read")
          BY <3>1, <3>3 DEF Inner, Waits, Calls
        <4>2. w.at[u] # "running"
          BY <1>1, <1>2, <1>3, <1>9, <4>1 DEF PlacesInv, Located
        <4>3. u \in Resuming(w)
          BY <1>3, <2>2, <2>4, <4>2
          DEF WaitSetOK, WaitSets, Places, Asleep, Resuming, AtPlace
        <4> QED BY <2>1, <4>3
      <3> QED BY <3>2, <3>3
    \* A woken reader is still there.
    <2>5. ASSUME Resuming(monitors["read"]) # {}
          PROVE  Inside("read") # {}
      <3>1. PICK u \in Threads : monitors["read"].at[u] \in {"awake", "failed"}
        BY <1>1, <1>2, <2>5 DEF Resuming, AtPlace, PlacesInv, PlaceTypes, WaitSetOK, WaitSets
      <3>2. phase[u] \in Inner("read")
        BY <1>1, <1>2, <3>1, PhaseFacts DEF PlacesInv, Located
      <3> QED BY <3>2 DEF Inside, Inner
    <2>6. SignalTo("write") => SignalTo("write")'
      BY <1>2, <1>6, <1>9
    <2>7. WritersServed'
      <3> SUFFICES ASSUME Linux', Asleep(monitors["write"])' # {}, Free'
                   PROVE  \/ Resuming(monitors["write"])' # {} \/ SignalTo("write")' \/ Quitting'
                          \/ cls' = "readers" /\ Resuming(monitors["read"])' # {}
        BY DEF WritersServed
      <3>1. \/ Resuming(monitors["write"]) # {} \/ SignalTo("write") \/ Quitting
            \/ /\ cls = "readers"
               /\ Resuming(monitors["read"]) # {} \/ Inside("read") # {}
        BY <1>6, <1>7, <2>1 DEF ServedInv, WritersServed
      <3> QED BY <1>1, <1>6, <2>1, <2>4, <2>5, <2>6, <3>1
    <2> QED BY <2>3, <2>7
  <1>10. CASE signal[t] = "write"
    <2>1. monitors'["write"] = w /\ monitors'["read"] = monitors["read"]
      BY <1>2, <1>3, <1>8, <1>10
    <2>2. Linux' => Asleep(w) = {} \/ Resuming(w) # {}
      BY <1>2, <1>3, <1>10, <2>1 DEF Linux
    <2>3. WritersServed'
      BY <2>1, <2>2 DEF WritersServed
    <2>4. SignalTo("read") => SignalTo("read")'
      BY <1>2, <1>6, <1>10
    <2>5. ReadersServed'
      BY <1>1, <1>6, <1>7, <2>1, <2>4, ReadersKept DEF ServedInv
    <2> QED BY <2>3, <2>5
  <1> QED BY <1>2, <1>9, <1>10 DEF Sides

LEMMA ServedKernel ==
  ASSUME Finite, ServedInv, NEW t \in Threads, NEW s \in Sides, KernelStep(t, s)
  PROVE  ReadersServed' /\ WritersServed'
  <1>1. /\ UNCHANGED counts /\ UNCHANGED cls /\ PlacesInv /\ DOMAIN monitors = Sides
        /\ "read" \in Sides /\ "write" \in Sides
    BY KernelEffect DEF ServedInv, BothInv, KernelStep, PlacesInv, PlaceTypes, Sides
  <1>2. PICK w : /\ Stay(t, s, w)
                 /\ Asleep(w) \subseteq Asleep(monitors[s])
                 /\ Resuming(monitors[s]) \subseteq Resuming(w)
    BY KernelEffect DEF ServedInv, BothInv
  <1>3. /\ UNCHANGED <<phase, signal, zhdushchie_>> /\ w.os = monitors[s].os
        /\ monitors' = [monitors EXCEPT ![s] = w]
    BY <1>2 DEF Stay
  <1>4. \A x \in Sides : /\ Asleep(monitors'[x]) \subseteq Asleep(monitors[x])
                         /\ Resuming(monitors[x]) \subseteq Resuming(monitors'[x])
                         /\ monitors'[x].os = monitors[x].os
    BY <1>1, <1>2, <1>3
  <1>5. /\ Linux' => Linux
        /\ \A x \in Sides : SignalTo(x) => SignalTo(x)'
        /\ Quitting => Quitting'
        /\ Inside("read") # {} => Inside("read")' # {}
        /\ Free' => Free
        /\ UNCHANGED aktivnyePisateli_
    BY <1>1, <1>3, <1>4 DEF Linux, SignalTo, Quitting, Inside, Free, counts
  <1>6. /\ Asleep(monitors["read"])' \subseteq Asleep(monitors["read"])
        /\ Asleep(monitors["write"])' \subseteq Asleep(monitors["write"])
        /\ Resuming(monitors["read"]) \subseteq Resuming(monitors["read"])'
        /\ Resuming(monitors["write"]) \subseteq Resuming(monitors["write"])'
    BY <1>1, <1>4
  <1>7. ReadersServed'
    <2>1. (SignalTo("read") => SignalTo("read")') /\ zhdushchie_' = zhdushchie_
      BY <1>1, <1>3, <1>5
    <2> QED BY <1>1, <1>5, <1>6, <2>1, ReadersKept DEF ServedInv
  <1>8. WritersServed'
    BY <1>1, <1>5, <1>6, WritersKept DEF ServedInv
  <1> QED BY <1>7, <1>8

LEMMA ServedStep ==
  ASSUME Finite, ServedInv, [Next]_vars
  PROVE  ServedInv'
  <1>1. BothInv'
    BY HoldsStep, PlacesStep DEF ServedInv, BothInv
  <1>2. PlacesInv
    BY DEF ServedInv, BothInv
  <1>3. ReadersServed' /\ WritersServed'
    <2>1. CASE UNCHANGED vars
      BY <2>1 DEF vars, ServedInv, ReadersServed, WritersServed, Linux, Free, SignalTo,
                  Quitting, Inside
    <2>2. ASSUME NEW t \in Threads, NEW s \in Sides, NEW call \in {"acquire", "attempt"},
                 Enter(t, s, call)
          PROVE  ReadersServed' /\ WritersServed'
      <3>1. UNCHANGED cls
        BY <2>2 DEF Enter
      <3>2. CASE StartWait(t, s, call)
        BY <3>1, <3>2, ServedWait
      <3>3. CASE Start(t, s) /\ UNCHANGED <<phase, signal, zhdushchie_, monitors>>
        BY <3>1, <3>3, ServedTaken
      <3> QED BY <1>2, <2>2, <3>2, <3>3, EnterEffect
    <2>3. ASSUME NEW t \in Threads, NEW s \in Sides, NEW call \in {"acquire", "attempt"},
                 Retry(t, s, call)
          PROVE  ReadersServed' /\ WritersServed'
      <3>1. UNCHANGED cls
        BY <2>3 DEF Retry
      <3>2. CASE Start(t, s) /\ Leave(t, s, Idle, Resume(monitors[s], t), 1)
        BY <1>2, <3>1, <3>2, LeaveMoves, ServedTaken
      <3>3. CASE ~MayStart(t, s) /\ Stay(t, s, Zhdi(monitors[s], t)) /\ UNCHANGED counts
        BY <3>1, <3>3, ServedAgain
      <3> QED BY <1>2, <2>3, <3>2, <3>3, RetryEffect
    <2>4. ASSUME NEW t \in Threads, NEW s \in Sides, Quit(t, s) \/ WaitFailed(t, s)
          PROVE  ReadersServed' /\ WritersServed'
      <3>1. UNCHANGED cls
        BY <2>4 DEF Quit, WaitFailed
      <3>2. \E w : GivesUp(t, s, w)
        BY <1>2, <2>4, QuitEffect, WaitFailedEffect
      <3> QED BY <3>1, <3>2, ServedGivesUp
    <2> QED
      BY <2>1, <2>2, <2>3, <2>4, ServedRunsOut, ServedKernel, ServedEndRead,
         ServedEndWrite, ServedSignal
      DEF Next
  <1> QED BY <1>1, <1>3 DEF ServedInv

LEMMA ServedStart ==
  ASSUME Finite, Init
  PROVE  ServedInv
  <1>1. BothInv
    BY HoldsStart, PlacesStart DEF BothInv
  <1>2. \A s \in Sides : Asleep(monitors[s]) = {}
    BY DEF Init, NewWaitSet, Asleep, AtPlace
  <1> QED BY <1>1, <1>2 DEF ServedInv, ReadersServed, WritersServed, Sides

\* On linux no sleeper is overlooked: when it could go on, somebody is awake,
\* about to signal, or about to give up, although the signals are chosen under
\* one monitor and sent later under another.
THEOREM NoneOverlooked ==
  ASSUME Finite
  PROVE  Spec => []NoLostWakeup
  <1>1. Init => ServedInv
    BY ServedStart
  <1>2. ServedInv /\ [Next]_vars => ServedInv'
    BY ServedStep
  <1>3. ServedInv => NoLostWakeup
    <2> SUFFICES ASSUME ServedInv, NEW s \in Sides, NEW t \in Asleep(monitors[s]),
                        monitors[s].os = "linux", MayStart(t, s), held[t]["read"] = 0
                 PROVE  SomebodyMoves
      BY DEF NoLostWakeup
    <2>1. /\ PlacesInv /\ HoldsInv /\ WaitSetOK(monitors[s], Threads)
          /\ monitors["read"].os = monitors["write"].os
          /\ "read" \in Sides /\ "write" \in Sides
      BY DEF ServedInv, BothInv, HoldsAndPhases, PlacesInv, PlaceTypes, Sides
    <2>2. Linux
      BY <2>1 DEF Linux, Sides
    <2>3. t \in Threads /\ monitors[s].at[t] # "running"
      BY <2>1 DEF Asleep, AtPlace, WaitSetOK, WaitSets
    <2>4. phase[t] \in Inner(s)
      BY <2>1, <2>3, PhaseFacts DEF PlacesInv, Located
    <2>5. held[t]["write"] = 0
      BY <2>1, <2>3, <2>4 DEF HoldsInv, CallersHold, Inner
    <2>6. aktivnyePisateli_ # t /\ t \notin Readers
      BY <2>1, <2>3, <2>5 DEF HoldsInv, Exclusion, Readers
    <2>7. CASE s = "read"
      <3>1. aktivnyePisateli_ = NoThread /\ (cls = "readers" \/ zhdushchie_["write"] = 0)
        BY <2>6, <2>7 DEF MayStart, MayRead, AllowReader
      <3>2. SignalTo("read")
        BY <2>2, <2>7, <3>1 DEF ServedInv, ReadersServed
      <3> QED BY <3>2 DEF SignalTo, SomebodyMoves
    <2>8. CASE s = "write"
      <3>1. Free
        BY <2>3, <2>6, <2>8 DEF MayStart, MayWrite, Free
      <3>2. \/ \E x \in Sides : Resuming(monitors[x]) # {} \/ SignalTo(x)
            \/ Quitting
        BY <2>1, <2>2, <2>8, <3>1 DEF ServedInv, WritersServed
      <3>3. ASSUME Quitting PROVE SomebodyMoves
        <4>1. PICK u \in Threads, x \in Sides : phase[u] = <<x, "quit">>
          BY <3>3 DEF Quitting
        <4>2. phase[u] \in Sides \X {"quit"}
          BY <4>1
        <4> QED BY <4>2 DEF SomebodyMoves
      <3>4. \A x \in Sides : SignalTo(x) => SomebodyMoves
        BY DEF SignalTo, SomebodyMoves
      <3>5. \A x \in Sides : Resuming(monitors[x]) # {} => SomebodyMoves
        BY DEF SomebodyMoves
      <3> QED BY <3>2, <3>3, <3>4, <3>5
    <2> QED BY <2>7, <2>8 DEF Sides
  <1> QED BY <1>1, <1>2, <1>3, PTL DEF Spec
==============================================================================
