----------------------- MODULE MatchmakingStore_proof -----------------------
(***************************************************************************)
(* Proofs that the match table keeps its counters, its limits, its ranks   *)
(* and the ownership of its matches, and that Find returns the page it is  *)
(* asked for, for any number of connections and IDs, any limits, any       *)
(* attributes and any width of offsets.                                    *)
(***************************************************************************)
EXTENDS MatchmakingSearch, FiniteSetTheorems, SequenceTheorems, TLAPS

\* The limits hold because the counters are right, and ranks stay apart
\* because none is above nextOrder: together the parts are inductive.
IInv == TypeOK /\ CountsMatch /\ WithinLimits /\ RanksDistinct

\* The counted sets are finite, so that their cardinalities are naturals.
LEMMA StoredFinite ==
  /\ IsFiniteSet(Stored) /\ Cardinality(Stored) \in Nat
  /\ \A o, S : IsFiniteSet(OwnedBy(o) \ S) /\ Cardinality(OwnedBy(o) \ S) \in Nat
  /\ \A o : IsFiniteSet(OwnedBy(o)) /\ Cardinality(OwnedBy(o)) \in Nat
<1>1. IsFiniteSet(Stored)
  BY FS_Subset, MatchesAssumption DEF Stored
<1>2. ASSUME NEW o PROVE IsFiniteSet(OwnedBy(o))
  BY <1>1, FS_Subset DEF OwnedBy
<1>3. ASSUME NEW o, NEW S PROVE IsFiniteSet(OwnedBy(o) \ S)
  BY <1>2, FS_Difference
<1> QED BY <1>1, <1>2, <1>3, FS_CardinalityType

\* A counter clamped at zero is exact after any removal if it was before.
LEMMA LeftExact ==
  ASSUME TypeOK, CountsMatch, NEW o \in Owners, NEW S
  PROVE  Left(o, S) = Cardinality(OwnedBy(o) \ S)
<1> DEFINE n == Cardinality(OwnedBy(o) \ S)
<1>1. n = Cardinality(OwnedBy(o)) - Cardinality(OwnedBy(o) \cap S)
  BY StoredFinite, FS_Difference
<1>2. n \in Nat
  BY StoredFinite
<1> QED BY <1>1, <1>2 DEF Left, CountsMatch

LEMMA DeletePreserves ==
  ASSUME IInv, NEW S \in SUBSET Stored, DeleteLocked(S)
  PROVE  /\ IInv'
         /\ Stored' = Stored \ S
         /\ \A i \in Stored' : byID'[i] = byID[i]
<1>1. Stored' = Stored \ S
  BY DEF Stored, DeleteLocked, IInv, TypeOK
<1>2. \A i \in Stored' : byID'[i] = byID[i]
  BY <1>1 DEF Stored, DeleteLocked
<1>3. \A o : OwnedBy(o)' = OwnedBy(o) \ S
  BY <1>1, <1>2 DEF OwnedBy
<1>4. \A o \in Owners : Left(o, S) = Cardinality(OwnedBy(o) \ S)
  BY LeftExact DEF IInv
<1>5. CountsMatch'
  BY <1>3, <1>4 DEF CountsMatch, DeleteLocked
<1>6. TypeOK'
  <2>1. \A o \in Owners : Left(o, S) \in Nat
    BY <1>4, StoredFinite
  <2> QED BY <2>1 DEF IInv, TypeOK, DeleteLocked
<1>7. WithinLimits'
  <2>1. /\ Cardinality(Stored \ S) <= Cardinality(Stored)
        /\ \A o : Cardinality(OwnedBy(o) \ S) <= Cardinality(OwnedBy(o))
    BY StoredFinite, FS_Subset
  <2>2. Cardinality(Stored \ S) \in Nat
    BY StoredFinite, FS_Difference, FS_CardinalityType
  <2>3. Cardinality(Stored \ S) <= MaxMatches
    BY <2>1, <2>2, StoredFinite, MatchesAssumption DEF IInv, WithinLimits
  <2>4. ASSUME NEW o \in Owners PROVE Cardinality(OwnedBy(o) \ S) <= MaxMatchesPerOwner
    <3>1. Cardinality(OwnedBy(o)) <= MaxMatchesPerOwner
      BY DEF IInv, WithinLimits
    <3>2. Cardinality(OwnedBy(o) \ S) \in Nat /\ Cardinality(OwnedBy(o)) \in Nat
      BY StoredFinite
    <3> QED BY <2>1, <3>1, <3>2, MatchesAssumption
  <2> QED BY <1>1, <1>3, <2>3, <2>4 DEF WithinLimits
<1>8. RanksDistinct'
  BY <1>1, <1>2 DEF IInv, RanksDistinct, DeleteLocked
<1> QED BY <1>1, <1>2, <1>5, <1>6, <1>7, <1>8 DEF IInv

LEMMA CreatePreserves ==
  ASSUME IInv, NEW o \in Owners, NEW info \in Infos, NEW i \in SessionIDs, Create(o, info, i)
  PROVE  /\ IInv'
         /\ Stored' = Stored \cup {i} /\ i \notin Stored
         /\ \A j \in Stored : byID'[j] = byID[j] /\ byID[j].order < byID'[i].order
<1> DEFINE match == [info |-> info, owner |-> o, order |-> nextOrder + 1]
<1>1. i \notin Stored /\ Room(o)
  BY DEF Create
<1>2. /\ match \in Match /\ match # NoMatch
      /\ nextOrder' = nextOrder + 1 /\ nextOrder \in Nat /\ nextOrder' \in 0..MaxOrder
  BY NoMatchAssumption, MatchesAssumption DEF IInv, TypeOK, Create, FreshOrder, Match
<1>3. byID' = [byID EXCEPT ![i] = match]
  BY DEF Create, FreshOrder
<1>4. byID'[i] = match /\ \A j \in Stored : byID'[j] = byID[j]
  BY <1>1, <1>3 DEF IInv, TypeOK, Stored
<1>5. Stored' = Stored \cup {i}
  BY <1>2, <1>3 DEF IInv, TypeOK, Stored
<1>6. \A v : OwnedBy(v)' = IF v = o THEN OwnedBy(v) \cup {i} ELSE OwnedBy(v)
  BY <1>1, <1>4, <1>5 DEF OwnedBy
<1>7. \A v : i \notin OwnedBy(v)
  BY <1>1 DEF OwnedBy
<1>8. /\ Cardinality(Stored') = Cardinality(Stored) + 1
      /\ \A v : Cardinality(OwnedBy(v)') = IF v = o THEN Cardinality(OwnedBy(v)) + 1
                                                    ELSE Cardinality(OwnedBy(v))
  BY <1>1, <1>5, <1>6, <1>7, StoredFinite, FS_AddElement
<1>9. sessionsByOwner' = [sessionsByOwner EXCEPT ![o] = @ + 1]
  BY DEF Create
<1>10. TypeOK'
  <2>1. byID' \in [SessionIDs -> Match \cup {NoMatch}]
    BY <1>2, <1>3 DEF IInv, TypeOK
  <2>2. sessionsByOwner' \in [Owners -> Nat]
    BY <1>9 DEF IInv, TypeOK
  <2> QED BY <1>2, <2>1, <2>2 DEF TypeOK
<1>11. CountsMatch'
  BY <1>8, <1>9 DEF IInv, TypeOK, CountsMatch
<1>12. WithinLimits'
  <2>1. Cardinality(Stored) + 1 <= MaxMatches
    BY <1>1, StoredFinite, MatchesAssumption DEF Room
  <2>2. Cardinality(OwnedBy(o)) + 1 <= MaxMatchesPerOwner
    <3>1. Cardinality(OwnedBy(o)) < MaxMatchesPerOwner
      BY <1>1 DEF Room, IInv, CountsMatch
    <3> QED BY <3>1, StoredFinite, MatchesAssumption
  <2> QED BY <1>8, <2>1, <2>2 DEF IInv, WithinLimits
<1>13. \A j \in Stored : byID[j].order \in 1..nextOrder
  BY DEF IInv, RanksDistinct
<1>14. RanksDistinct'
  <2>1. \A j, k \in Stored : byID'[j].order = byID'[k].order => j = k
    BY <1>4 DEF IInv, RanksDistinct
  <2>2. byID'[i].order = nextOrder + 1
    BY <1>4
  <2> QED BY <1>2, <1>4, <1>5, <1>13, <2>1, <2>2 DEF RanksDistinct
<1>15. \A j \in Stored : byID[j].order < byID'[i].order
  BY <1>2, <1>4, <1>13
<1> QED BY <1>1, <1>4, <1>5, <1>10, <1>11, <1>12, <1>14, <1>15 DEF IInv

LEMMA UpdatePreserves ==
  ASSUME IInv, NEW o \in Owners, NEW info \in Infos, NEW i \in SessionIDs, Update(o, i, info)
  PROVE  /\ IInv'
         /\ Stored' = Stored
         /\ \A j \in Stored : byID'[j].owner = byID[j].owner /\ byID'[j].order = byID[j].order
<1>1. i \in Stored /\ byID[i] \in Match
  BY DEF Update, Mine, Stored, IInv, TypeOK
<1>2. byID' = [byID EXCEPT ![i] = Updated(i, info)]
  BY DEF Update
<1>3. Updated(i, info) \in Match /\ Updated(i, info) # NoMatch
  BY <1>1, NoMatchAssumption DEF Updated, Match
<1>4. Updated(i, info).owner = byID[i].owner /\ Updated(i, info).order = byID[i].order
  BY <1>1 DEF Updated, Match
<1>5. Stored' = Stored
  BY <1>1, <1>2, <1>3 DEF IInv, TypeOK, Stored
<1>6. \A j \in Stored : byID'[j].owner = byID[j].owner /\ byID'[j].order = byID[j].order
  BY <1>2, <1>4 DEF IInv, TypeOK, Stored
<1>7. \A v : OwnedBy(v)' = OwnedBy(v)
  BY <1>5, <1>6 DEF OwnedBy
<1>8. UNCHANGED <<sessionsByOwner, nextOrder>>
  BY DEF Update
<1>9. TypeOK'
  BY <1>2, <1>3, <1>8 DEF IInv, TypeOK
<1>10. CountsMatch' /\ WithinLimits'
  BY <1>5, <1>7, <1>8 DEF IInv, CountsMatch, WithinLimits
<1>11. RanksDistinct'
  BY <1>5, <1>6, <1>8 DEF IInv, RanksDistinct
<1> QED BY <1>5, <1>6, <1>9, <1>10, <1>11 DEF IInv

LEMMA InitIInv == Init => IInv
<1> SUFFICES ASSUME Init PROVE IInv
  OBVIOUS
<1>1. Stored = {} /\ \A o : OwnedBy(o) = {}
  BY DEF Init, Stored, OwnedBy
<1>2. Cardinality({}) = 0
  BY FS_EmptySet
<1>3. TypeOK
  BY MatchesAssumption DEF Init, TypeOK
<1>4. CountsMatch
  BY <1>1, <1>2 DEF Init, CountsMatch
<1>5. WithinLimits
  BY <1>1, <1>2, MatchesAssumption DEF WithinLimits
<1>6. RanksDistinct
  BY <1>1 DEF RanksDistinct
<1> QED BY <1>3, <1>4, <1>5, <1>6 DEF IInv

\* What a step does to the matches that stay and to those that appear.
Stable ==
  \A i \in Stored' :
    \/ i \in Stored /\ byID'[i].owner = byID[i].owner /\ byID'[i].order = byID[i].order
    \/ i \notin Stored /\ \A j \in Stored : byID[j].order < byID'[i].order

LEMMA StepIInv ==
  ASSUME IInv, [Next]_matchVars
  PROVE  IInv' /\ [Stable]_matchVars
<1>1. CASE UNCHANGED matchVars
  BY <1>1 DEF matchVars, IInv, TypeOK, CountsMatch, WithinLimits, RanksDistinct, Stored, OwnedBy
<1>2. CASE Next
  <2>1. PICK o \in Owners :
          \/ DeleteOwner(o)
          \/ \E i \in SessionIDs : Delete(o, i)
          \/ \E i \in SessionIDs, info \in Infos : Create(o, info, i) \/ Update(o, i, info)
    BY <1>2 DEF Next
  <2>2. ASSUME NEW S \in SUBSET Stored, DeleteLocked(S) PROVE IInv' /\ Stable
    BY <2>2, DeletePreserves DEF Stable
  <2>3. CASE DeleteOwner(o)
    <3>1. OwnedBy(o) \in SUBSET Stored
      BY DEF OwnedBy
    <3> QED BY <2>2, <2>3, <3>1 DEF DeleteOwner
  <2>4. ASSUME NEW i \in SessionIDs, Delete(o, i) PROVE IInv' /\ Stable
    BY <2>2, <2>4 DEF Delete, Mine
  <2>5. ASSUME NEW i \in SessionIDs, NEW info \in Infos, Create(o, info, i) PROVE IInv' /\ Stable
    BY <2>5, CreatePreserves DEF Stable
  <2>6. ASSUME NEW i \in SessionIDs, NEW info \in Infos, Update(o, i, info) PROVE IInv' /\ Stable
    BY <2>6, UpdatePreserves DEF Stable
  <2> QED BY <2>1, <2>3, <2>4, <2>5, <2>6
<1> QED BY <1>1, <1>2

LEMMA Invariance == Spec => []IInv
<1>1. IInv /\ [Next]_matchVars => IInv'
  BY StepIInv
<1> QED BY <1>1, InitIInv, PTL DEF Spec

-----------------------------------------------------------------------------
(* Searching: what sorting by distinct ranks gives, and the page cut from it. *)

\* The elements of S that rank below i, and the arrangements of S by rank.
Below(rank, S, i) == {j \in S : rank[j] < rank[i]}

Arrangements(rank, S) ==
  {s \in [1..Cardinality(S) -> S] :
     \A m, n \in 1..Cardinality(S) : m < n => rank[s[m]] < rank[s[n]]}

\* Counting what ranks below is strictly monotone in the rank.
LEMMA BelowGrows ==
  ASSUME NEW S, IsFiniteSet(S), NEW rank, \A i \in S : rank[i] \in Int, NEW i \in S
  PROVE  /\ Cardinality(Below(rank, S, i)) \in 0..(Cardinality(S) - 1)
         /\ \A j \in S : rank[j] < rank[i] =>
              Cardinality(Below(rank, S, j)) < Cardinality(Below(rank, S, i))
<1>1. ASSUME NEW T, IsFiniteSet(T), NEW R \in SUBSET T, NEW x \in T, x \notin R
      PROVE  Cardinality(R) \in Nat /\ Cardinality(R) < Cardinality(T)
  <2>1. IsFiniteSet(R) /\ Cardinality(R) <= Cardinality(T) /\ Cardinality(R) # Cardinality(T)
    BY <1>1, FS_Subset
  <2>2. Cardinality(R) \in Nat /\ Cardinality(T) \in Nat
    BY <1>1, <2>1, FS_CardinalityType
  <2> QED BY <2>1, <2>2
<1>2. Cardinality(Below(rank, S, i)) \in 0..(Cardinality(S) - 1)
  <2>1. Below(rank, S, i) \in SUBSET S /\ i \notin Below(rank, S, i)
    BY DEF Below
  <2>2. Cardinality(Below(rank, S, i)) \in Nat /\ Cardinality(Below(rank, S, i)) < Cardinality(S)
    BY <1>1, <2>1
  <2> QED BY <2>2, FS_CardinalityType
<1>3. ASSUME NEW j \in S, rank[j] < rank[i]
      PROVE  Cardinality(Below(rank, S, j)) < Cardinality(Below(rank, S, i))
  <2>1. /\ Below(rank, S, j) \in SUBSET Below(rank, S, i)
        /\ j \in Below(rank, S, i) /\ j \notin Below(rank, S, j)
    BY <1>3 DEF Below
  <2>2. IsFiniteSet(Below(rank, S, i))
    BY FS_Subset DEF Below
  <2> QED BY <1>1, <2>1, <2>2
<1> QED BY <1>2, <1>3

\* A finite set whose elements have pairwise distinct ranks can be arranged.
LEMMA ArrangementExists ==
  ASSUME NEW S, IsFiniteSet(S), NEW rank, \A i \in S : rank[i] \in Int,
         \A i, j \in S : rank[i] = rank[j] => i = j
  PROVE  Arrangements(rank, S) # {}
<1> DEFINE n     == Cardinality(S)
           place == [i \in S |-> Cardinality(Below(rank, S, i)) + 1]
           s     == [m \in 1..n |-> CHOOSE i \in S : place[i] = m]
<1>1. n \in Nat
  BY FS_CardinalityType
<1>2. \A i \in S : place[i] \in 1..n
  <2>1. \A i \in S : Cardinality(Below(rank, S, i)) \in 0..(n - 1)
    BY BelowGrows
  <2> QED BY <1>1, <2>1
<1>3. \A i, j \in S : rank[j] < rank[i] => place[j] < place[i]
  <2>1. \A i, j \in S : /\ Cardinality(Below(rank, S, i)) \in 0..(n - 1)
                        /\ rank[j] < rank[i] =>
                             Cardinality(Below(rank, S, j)) < Cardinality(Below(rank, S, i))
    BY BelowGrows
  <2> QED BY <1>1, <2>1
<1>4. place \in Injection(S, 1..n)
  <2>1. \A i, j \in S : place[i] = place[j] => i = j
    <3> HIDE DEF place
    <3> QED BY <1>1, <1>2, <1>3
  <2>2. place \in [S -> 1..n]
    BY <1>2
  <2> QED BY <2>1, <2>2 DEF Injection, IsInjective
<1>5. place \in Surjection(S, 1..n)
  <2>1. IsFiniteSet(1..n) /\ Cardinality(1..n) = n
    BY <1>1, FS_Interval
  <2> HIDE DEF place
  <2> QED BY <1>4, <2>1, FS_Injection
<1>6. \A m \in 1..n : s[m] \in S /\ place[s[m]] = m
  <2> HIDE DEF place
  <2> QED BY <1>5 DEF Surjection
<1>7. ASSUME NEW m \in 1..n, NEW k \in 1..n, m < k PROVE rank[s[m]] < rank[s[k]]
  <2> HIDE DEF place, s
  <2>1. s[m] \in S /\ s[k] \in S /\ place[s[m]] = m /\ place[s[k]] = k
    BY <1>6
  <2>2. rank[s[m]] \in Int /\ rank[s[k]] \in Int
    BY <2>1
  <2>3. ~(rank[s[k]] < rank[s[m]])
    BY <1>1, <1>3, <1>7, <2>1
  <2>4. rank[s[k]] # rank[s[m]]
    BY <1>1, <1>7, <2>1
  <2> QED BY <2>2, <2>3, <2>4
<1>8. s \in [1..n -> S]
  BY <1>6
<1>9. s \in Arrangements(rank, S)
  <2> HIDE DEF s
  <2> QED BY <1>7, <1>8 DEF Arrangements
<1> QED BY <1>9

\* An arrangement lists every element of S at the place its rank gives it.
LEMMA ArrangedByPlace ==
  ASSUME NEW S, IsFiniteSet(S), NEW rank, \A i \in S : rank[i] \in Int,
         NEW s \in Arrangements(rank, S)
  PROVE  /\ Cardinality(S) \in Nat
         /\ s \in [1..Cardinality(S) -> S]
         /\ \A i \in S : \E m \in 1..Cardinality(S) : s[m] = i
         /\ \A m \in 1..Cardinality(S) : Cardinality(Below(rank, S, s[m])) = m - 1
<1> DEFINE n == Cardinality(S)
<1>1. n \in Nat
  BY FS_CardinalityType
<1>2. s \in [1..n -> S] /\ \A m, k \in 1..n : m < k => rank[s[m]] < rank[s[k]]
  BY DEF Arrangements
<1> HIDE DEF n
<1>3. \A m, k \in 1..n : s[m] = s[k] => m = k
  <2> SUFFICES ASSUME NEW m \in 1..n, NEW k \in 1..n, s[m] = s[k], m < k PROVE FALSE
    BY <1>1
  <2>1. s[m] \in S /\ rank[s[m]] < rank[s[m]]
    BY <1>2
  <2>2. rank[s[m]] \in Int
    BY <2>1
  <2> QED BY <2>1, <2>2
<1>4. s \in Surjection(1..n, S)
  <2>1. s \in Injection(1..n, S)
    BY <1>2, <1>3 DEF Injection, IsInjective
  <2>2. IsFiniteSet(1..n) /\ Cardinality(1..n) = n
    BY <1>1, FS_Interval
  <2> QED BY <2>1, <2>2, FS_Injection DEF n
<1>5. \A i \in S : \E m \in 1..n : s[m] = i
  BY <1>4 DEF Surjection
<1>6. ASSUME NEW m \in 1..n PROVE Cardinality(Below(rank, S, s[m])) = m - 1
  <2> DEFINE first == [k \in 1..(m - 1) |-> s[k]]
  <2>1. m \in Nat /\ m >= 1 /\ \A k \in 1..(m - 1) : k \in 1..n /\ k < m
    BY <1>1
  <2>2. \A k \in 1..n : rank[s[k]] \in Int
    BY <1>2
  <2>3. \A k \in 1..(m - 1) : s[k] \in Below(rank, S, s[m])
    BY <1>2, <2>1 DEF Below
  <2>4. ASSUME NEW i \in Below(rank, S, s[m]) PROVE \E k \in 1..(m - 1) : s[k] = i
    <3>1. i \in S /\ rank[i] < rank[s[m]]
      BY DEF Below
    <3>2. PICK k \in 1..n : s[k] = i
      BY <1>5, <3>1
    <3>3. k # m /\ ~(m < k)
      BY <1>2, <2>2, <3>1, <3>2
    <3>4. k \in 1..(m - 1)
      BY <1>1, <3>3
    <3> QED BY <3>2, <3>4
  <2>5. first \in Bijection(1..(m - 1), Below(rank, S, s[m]))
    <3>1. first \in [1..(m - 1) -> Below(rank, S, s[m])]
      BY <2>3
    <3>2. \A k, l \in 1..(m - 1) : first[k] = first[l] => k = l
      BY <1>3, <2>1
    <3>3. \A i \in Below(rank, S, s[m]) : \E k \in 1..(m - 1) : first[k] = i
      BY <2>4
    <3> HIDE DEF first
    <3> QED BY <3>1, <3>2, <3>3 DEF Bijection, Injection, Surjection, IsInjective
  <2>6. IsFiniteSet(1..(m - 1)) /\ Cardinality(1..(m - 1)) = m - 1
    BY <2>1, FS_Interval
  <2> HIDE DEF first
  <2> QED BY <2>5, <2>6, FS_Bijection DEF ExistsBijection
<1> QED BY <1>1, <1>2, <1>5, <1>6 DEF n

\* What Find sorts: all matching sessions, each once, by distinct ranks.
LEMMA SnapshotArranged ==
  ASSUME IInv, NEW query
  PROVE  /\ Snapshot(query) = Matching(query)
         /\ IsFiniteSet(Matching(query))
         /\ Cardinality(Matching(query)) < Word
         /\ \A i \in Matching(query) : Before(i, query) =
              Cardinality(Below([j \in Stored |-> byID[j].order], Matching(query), i))
         /\ Sorted(query) \in Arrangements([j \in Stored |-> byID[j].order], Matching(query))
<1> DEFINE S    == Matching(query)
           rank == [j \in Stored |-> byID[j].order]
<1>1. Snapshot(query) = S
  BY DEF Snapshot, Matching, matchesQuery
<1>2. S \in SUBSET Stored
  BY DEF Matching
<1>3. IsFiniteSet(S) /\ Cardinality(S) < Word
  <2>1. IsFiniteSet(S) /\ Cardinality(S) <= Cardinality(Stored)
    BY <1>2, StoredFinite, FS_Subset
  <2>2. Cardinality(S) \in Nat
    BY <2>1, FS_CardinalityType
  <2>3. Cardinality(Stored) <= MaxMatches
    BY DEF IInv, WithinLimits
  <2> QED BY <2>1, <2>2, <2>3, StoredFinite, MatchesAssumption, SearchAssumption
<1>4. \A j \in Stored : byID[j].order \in Int
  BY DEF IInv, RanksDistinct, TypeOK
<1>5. \A j \in S : rank[j] = byID[j].order /\ rank[j] \in Int
  BY <1>2, <1>4
<1>6. \A i, j \in S : rank[i] = rank[j] => i = j
  BY <1>2, <1>5 DEF IInv, RanksDistinct
<1> HIDE DEF rank
<1>7. PICK s : s \in Arrangements(rank, S)
  <2> HIDE DEF S
  <2> QED BY <1>3, <1>5, <1>6, ArrangementExists
<1>8. Sorted(query) \in Arrangements(rank, S)
  <2> HIDE DEF S
  <2>1. \A t \in [1..Cardinality(S) -> S] :
          t \in Arrangements(rank, S) <=>
            \A m, n \in DOMAIN t : m < n => byID[t[m]].order < byID[t[n]].order
    BY <1>5 DEF Arrangements
  <2>2. s \in [1..Cardinality(S) -> S]
    BY <1>7 DEF Arrangements
  <2> QED BY <1>1, <1>7, <2>1, <2>2 DEF Sorted
<1>9. ASSUME NEW i \in S
      PROVE  Before(i, query) = Cardinality(Below(rank, S, i))
  <2>1. {j \in S : byID[j].order < byID[i].order} = Below(rank, S, i)
    BY <1>5 DEF Below
  <2> QED BY <2>1 DEF Before
<1> QED BY <1>1, <1>3, <1>8, <1>9 DEF rank

\* Find is right in every state that satisfies the invariant: its own last step,
\* the cut, is where the sum of offset and limit must not wrap.
LEMMA FoundExactly ==
  ASSUME IInv
  PROVE  FindExact
<1> SUFFICES ASSUME NEW query \in Queries, NEW offset \in Words, NEW maximum \in Words
             PROVE  LET found == Find(query, offset, maximum)
                    IN  /\ found.total = Cardinality(Matching(query))
                        /\ {found.page[m] : m \in DOMAIN found.page} =
                             {i \in Matching(query) :
                                Before(i, query) \in offset..(offset + maximum - 1)}
                        /\ \A m \in 1..Len(found.page) :
                             Before(found.page[m], query) = offset + m - 1
  BY DEF FindExact
<1> DEFINE S     == Matching(query)
           found == Find(query, offset, maximum)
<1>1. PICK rank : rank = [j \in Stored |-> byID[j].order]
  OBVIOUS
<1>2. PICK s : s = Sorted(query)
  OBVIOUS
<1>3. PICK n : n = Cardinality(S)
  OBVIOUS
<1>4. PICK page : page = found.page
  OBVIOUS
<1>5. /\ s \in Arrangements(rank, S)
      /\ IsFiniteSet(S) /\ n < Word
      /\ \A i \in S : Before(i, query) = Cardinality(Below(rank, S, i))
      /\ \A i \in S : rank[i] \in Int
  <2>1. \A j \in Stored : byID[j].order \in Int
    BY DEF IInv, RanksDistinct, TypeOK
  <2>2. S \subseteq Stored
    BY DEF Matching
  <2> QED BY <1>1, <1>2, <1>3, <2>1, <2>2, SnapshotArranged
<1>6. /\ n \in Nat
      /\ s \in [1..n -> S]
      /\ \A i \in S : \E m \in 1..n : s[m] = i
      /\ \A m \in 1..n : Before(s[m], query) = m - 1
  <2> HIDE DEF S
  <2>1. /\ n \in Nat /\ s \in [1..n -> S]
        /\ \A i \in S : \E m \in 1..n : s[m] = i
        /\ \A m \in 1..n : Cardinality(Below(rank, S, s[m])) = m - 1
    BY <1>3, <1>5, ArrangedByPlace
  <2> QED BY <1>5, <2>1
<1>7. offset \in Nat /\ maximum \in Nat /\ Word \in Nat
  BY SearchAssumption DEF Words
<1>8. Len(s) = n /\ Len(s) % Word = n
  <2>1. Len(s) = n
    BY <1>6
  <2>2. n \in Nat /\ Word \in Nat /\ n < Word
    BY <1>5, <1>6, <1>7
  <2>3. n % Word = n
    BY <2>2
  <2> QED BY <2>1, <2>3
<1>9. found.total = n
  BY <1>2, <1>8 DEF Find
<1>10. page = IF offset >= n \/ maximum = 0
              THEN << >> ELSE SubSeq(s, offset + 1, End(offset, maximum, n))
  BY <1>2, <1>4, <1>8 DEF Find
\* the place of the last session of the page, offset when it has none
<1>11. PICK last \in Nat :
         /\ DOMAIN page = 1..(last - offset) /\ Len(page) = last - offset
         /\ \A m \in 1..(last - offset) : m + offset \in 1..n /\ page[m] = s[m + offset]
         /\ \A k \in 1..n : k - 1 \in offset..(offset + maximum - 1) <=>
                              k \in (offset + 1)..last
  <2>1. CASE offset >= n \/ maximum = 0
    <3>1. page = << >> /\ DOMAIN page = 1..0 /\ Len(page) = 0
      BY <1>10, <2>1
    <3>2. 1..(offset - offset) = {} /\ 1..0 = {} /\ (offset + 1)..offset = {}
      BY <1>7
    <3>3. \A k \in 1..n : k - 1 \notin offset..(offset + maximum - 1)
      BY <1>6, <1>7, <2>1
    <3> QED BY <1>7, <3>1, <3>2, <3>3
  <2>2. CASE ~(offset >= n \/ maximum = 0)
    <3>1. PICK last : last = End(offset, maximum, n)
      OBVIOUS
    <3>2. /\ last \in Nat /\ offset < last /\ last <= n
          /\ last = offset + maximum \/ (last = n /\ n < offset + maximum)
      BY <1>6, <1>7, <2>2, <3>1 DEF End
    <3>3. page = SubSeq(s, offset + 1, last)
      BY <1>10, <2>2, <3>1
    <3>4. \A m \in (offset + 1)..last : s[m] \in S
      BY <1>6, <1>7, <3>2
    <3>5. /\ page \in Seq(S)
          /\ Len(page) = last - offset
          /\ \A m \in 1..(last - offset) : page[m] = s[m + offset]
      <4> HIDE DEF S
      <4>1. /\ SubSeq(s, offset + 1, last) \in Seq(S)
            /\ Len(SubSeq(s, offset + 1, last)) =
                 IF offset + 1 <= last THEN last - (offset + 1) + 1 ELSE 0
            /\ \A m \in 1..(last - (offset + 1) + 1) :
                 SubSeq(s, offset + 1, last)[m] = s[offset + 1 + m - 1]
        BY <1>7, <3>2, <3>4, SubSeqProperties
      <4> QED BY <1>7, <3>2, <3>3, <4>1
    <3>6. DOMAIN page = 1..(last - offset)
      BY <3>5
    <3>7. \A m \in 1..(last - offset) : m + offset \in 1..n
      BY <1>6, <1>7, <3>2
    <3>8. \A k \in 1..n : k - 1 \in offset..(offset + maximum - 1) <=> k \in (offset + 1)..last
      BY <1>6, <1>7, <3>2
    <3> QED BY <3>2, <3>5, <3>6, <3>7, <3>8
  <2> QED BY <2>1, <2>2
<1> HIDE DEF S, found
<1>12. \A m \in DOMAIN page : page[m] \in S /\ Before(page[m], query) = offset + m - 1
  <2> SUFFICES ASSUME NEW m \in DOMAIN page
               PROVE  page[m] \in S /\ Before(page[m], query) = offset + m - 1
    OBVIOUS
  <2>1. PICK k \in 1..n : k = m + offset
    BY <1>11
  <2>2. page[m] = s[k] /\ m \in Int
    BY <1>11, <2>1
  <2>3. s[k] \in S /\ Before(s[k], query) = k - 1
    BY <1>6
  <2> QED BY <1>6, <1>7, <2>1, <2>2, <2>3
<1>13. \A m \in DOMAIN page : Before(page[m], query) \in offset..(offset + maximum - 1)
  <2> SUFFICES ASSUME NEW m \in DOMAIN page
               PROVE  Before(page[m], query) \in offset..(offset + maximum - 1)
    OBVIOUS
  <2>1. m \in 1..(last - offset) /\ m + offset \in 1..n
    BY <1>11
  <2>3. m + offset \in (offset + 1)..last
    BY <1>7, <2>1
  <2>2. (m + offset) - 1 \in offset..(offset + maximum - 1)
    BY <1>11, <2>1, <2>3
  <2> QED BY <1>7, <1>12, <2>1, <2>2, <2>3
<1>14. ASSUME NEW i \in S, Before(i, query) \in offset..(offset + maximum - 1)
       PROVE  \E m \in DOMAIN page : page[m] = i
  <2>1. PICK k \in 1..n : s[k] = i
    BY <1>6
  <2>2. k \in (offset + 1)..last
    BY <1>6, <1>11, <1>14, <2>1
  <2>3. k - offset \in 1..(last - offset) /\ (k - offset) + offset = k
    BY <1>6, <1>7, <1>11, <2>2
  <2>4. page[k - offset] = i
    BY <1>11, <2>1, <2>3
  <2> QED BY <1>11, <2>3, <2>4
<1>15. {page[m] : m \in DOMAIN page} =
         {i \in S : Before(i, query) \in offset..(offset + maximum - 1)}
  BY <1>12, <1>13, <1>14
<1>16. \A m \in 1..Len(page) : Before(page[m], query) = offset + m - 1
  BY <1>11, <1>12
<1> QED BY <1>3, <1>4, <1>9, <1>15, <1>16 DEF S, found

-----------------------------------------------------------------------------
\* The table, its counters and the rank keep their types (MemoryMatchmakingStore).
THEOREM TypeCorrect == Spec => []TypeOK
<1>1. IInv => TypeOK
  BY DEF IInv
<1> QED BY <1>1, Invariance, PTL

\* sessionsByOwner is always the number of matches the connection owns, after
\* any sequence of Create, Delete and DeleteOwner.
THEOREM CountersExact == Spec => []CountsMatch
<1>1. IInv => CountsMatch
  BY DEF IInv
<1> QED BY <1>1, Invariance, PTL

\* Neither MaxSessions nor MaxSessionsPerOwner of the store is ever exceeded.
THEOREM LimitsHold == Spec => []WithinLimits
<1>1. IInv => WithinLimits
  BY DEF IInv
<1> QED BY <1>1, Invariance, PTL

\* The ranks by which Find sorts are pairwise distinct.
THEOREM RanksTotal == Spec => []RanksDistinct
<1>1. IInv => RanksDistinct
  BY DEF IInv
<1> QED BY <1>1, Invariance, PTL

\* No update or deletion moves another match or changes hands, and a new match
\* goes behind all others (Update, Create).
THEOREM RanksKept == Spec => RanksStable
<1>1. IInv /\ [Next]_matchVars => [Stable]_matchVars
  BY StepIInv
<1>2. Spec => [][Stable]_matchVars
  BY <1>1, Invariance, PTL DEF Spec
<1> QED BY <1>2 DEF RanksStable, Stable

\* Find returns exactly the matching sessions whose place by age lies in the
\* requested page, oldest first, and the number of all that match, whatever the
\* offset and the limit (Find, matchesQuery).
THEOREM SearchExact == Spec => []FindExact
<1>1. IInv => FindExact
  BY FoundExactly
<1> QED BY <1>1, Invariance, PTL
=============================================================================
