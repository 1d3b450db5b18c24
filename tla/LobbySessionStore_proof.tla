---------------------- MODULE LobbySessionStore_proof ----------------------
(***************************************************************************)
(* Proofs that the pending-session store keeps its counters, its limits    *)
(* and its generations, for any number of seeds, accounts and machines and *)
(* any limits.  Every method either removes a set of held seeds            *)
(* (DeleteLocked) or reserves one seed after such a removal; one lemma for *)
(* each of the two carries the argument.                                   *)
(***************************************************************************)
EXTENDS LobbySessionStore, FiniteSetTheorems, TLAPS

\* The limits hold because the counters are right, and the tokens stay apart
\* because none is above nextToken: together the parts are inductive.
IInv == TypeOK /\ CountsMatch /\ WithinLimits /\ TokensFenced

\* Held sets are finite, so that cardinalities are natural numbers.
LEMMA HeldFinite ==
  /\ IsFiniteSet(Held)
  /\ \A u : IsFiniteSet(HeldBy(u))
  /\ \A u, S : IsFiniteSet(HeldBy(u) \ S)
<1>1. IsFiniteSet(Held)
  BY FS_Subset, StoreAssumption DEF Held
<1>2. ASSUME NEW u PROVE IsFiniteSet(HeldBy(u))
  BY <1>1, FS_Subset DEF HeldBy
<1>3. ASSUME NEW u, NEW S PROVE IsFiniteSet(HeldBy(u) \ S)
  BY <1>2, FS_Difference
<1> QED BY <1>1, <1>2, <1>3

\* A counter clamped at zero is exact after any removal if it was before.
LEMMA RemainingExact ==
  ASSUME TypeOK, CountsMatch, NEW u \in Users, NEW S
  PROVE  Remaining(u, S) = Cardinality(HeldBy(u) \ S)
<1> DEFINE n == Cardinality(HeldBy(u) \ S)
<1>1. n = Cardinality(HeldBy(u)) - Cardinality(HeldBy(u) \cap S)
  BY HeldFinite, FS_Difference
<1>2. n \in Nat
  BY HeldFinite, FS_CardinalityType
<1>3. sessionsByAccount[u] - Cardinality(HeldBy(u) \cap S) = n
  BY <1>1 DEF CountsMatch
<1> QED BY <1>1, <1>2, <1>3 DEF Remaining

\* What removing a set of held seeds does to the sets that are counted.
LEMMA RemovedSets ==
  ASSUME TypeOK, NEW S \in SUBSET Held, bySeed' = BySeedWithout(S)
  PROVE  /\ Held' = Held \ S
         /\ \A u : HeldBy(u)' = HeldBy(u) \ S
         /\ \A s \in Held' : bySeed'[s] = bySeed[s]
<1>1. Held' = Held \ S
  BY DEF TypeOK, Held, BySeedWithout
<1>2. \A s \in Held' : bySeed'[s] = bySeed[s]
  BY <1>1 DEF Held, BySeedWithout
<1>3. ASSUME NEW u PROVE HeldBy(u)' = HeldBy(u) \ S
  BY <1>1, <1>2 DEF HeldBy
<1> QED BY <1>1, <1>2, <1>3

LEMMA DeletePreserves ==
  ASSUME IInv, NEW S \in SUBSET Held, DeleteLocked(S)
  PROVE  IInv'
<1>1. /\ Held' = Held \ S
      /\ \A u : HeldBy(u)' = HeldBy(u) \ S
      /\ \A s \in Held' : bySeed'[s] = bySeed[s]
  BY RemovedSets DEF IInv, DeleteLocked
<1>2. \A u \in Users : Remaining(u, S) = Cardinality(HeldBy(u) \ S)
  BY RemainingExact DEF IInv
<1>3. CountsMatch'
  BY <1>1, <1>2 DEF CountsMatch, DeleteLocked, CountsWithout
<1>4. TypeOK'
  <2>1. \A u \in Users : Remaining(u, S) \in Nat
    BY <1>2, HeldFinite, FS_CardinalityType
  <2> QED BY <2>1 DEF IInv, TypeOK, DeleteLocked, BySeedWithout, CountsWithout
<1>5. WithinLimits'
  <2>1. Cardinality(Held \ S) <= Cardinality(Held)
    BY HeldFinite, FS_Subset
  <2>2. \A u : Cardinality(HeldBy(u) \ S) <= Cardinality(HeldBy(u))
    BY HeldFinite, FS_Subset
  <2>3. /\ Cardinality(Held) \in Nat /\ Cardinality(Held \ S) \in Nat
        /\ \A u : Cardinality(HeldBy(u)) \in Nat /\ Cardinality(HeldBy(u) \ S) \in Nat
    BY HeldFinite, FS_CardinalityType, FS_Difference
  <2> QED BY <1>1, <2>1, <2>2, <2>3, StoreAssumption DEF IInv, WithinLimits
<1>6. TokensFenced'
  BY <1>1 DEF IInv, TokensFenced, DeleteLocked
<1> QED BY <1>3, <1>4, <1>5, <1>6 DEF IInv

LEMMA ReservePreserves ==
  ASSUME IInv, NEW s \in Seeds, NEW u \in Users, NEW p \in Peers,
         NEW e \in Instants, NEW now \in Instants, Reserve(s, u, p, e, now)
  PROVE  IInv'
<1> DEFINE P == Purged(now)
           held == Held \ P
           by(v) == HeldBy(v) \ P
           ticket == [user |-> u, peer |-> p, token |-> nextToken + 1, expiresAt |-> e]
<1>1. P \in SUBSET Held /\ s \notin held
  BY DEF Purged, Expired, Reserve, Admissible
<1>2. ticket \in Ticket /\ ticket # NoTicket /\ nextToken' = nextToken + 1 /\ nextToken' \in 0..MaxToken
  BY NoTicketAssumption, StoreAssumption DEF IInv, TypeOK, Reserve, FreshToken, Ticket
<1>3. bySeed' = [BySeedWithout(P) EXCEPT ![s] = ticket]
  BY DEF Reserve, FreshToken
<1>4. bySeed'[s] = ticket /\ \A r \in held : bySeed'[r] = bySeed[r]
  BY <1>1, <1>3 DEF BySeedWithout, Held
<1>5. Held' = held \cup {s}
  BY <1>1, <1>2, <1>3 DEF Held, BySeedWithout
<1>6. \A v \in Users : HeldBy(v)' = IF v = u THEN by(v) \cup {s} ELSE by(v)
  BY <1>1, <1>4, <1>5 DEF HeldBy
<1>7. \A v \in Users : s \notin by(v)
  BY <1>1 DEF HeldBy
<1>8. /\ IsFiniteSet(held) /\ Cardinality(held) \in Nat
      /\ \A v : IsFiniteSet(by(v)) /\ Cardinality(by(v)) \in Nat
  BY HeldFinite, FS_Difference, FS_CardinalityType
<1>9. /\ Cardinality(Held') = Cardinality(held) + 1
      /\ \A v \in Users : Cardinality(HeldBy(v)') = IF v = u THEN Cardinality(by(v)) + 1
                                                             ELSE Cardinality(by(v))
  BY <1>1, <1>5, <1>6, <1>7, <1>8, FS_AddElement
<1>10. \A v \in Users : Remaining(v, P) = Cardinality(by(v))
  BY RemainingExact DEF IInv
<1>11. sessionsByAccount' = [CountsWithout(P) EXCEPT ![u] = @ + 1]
  BY DEF Reserve
<1>12. TypeOK'
  <2>1. bySeed' \in [Seeds -> Ticket \cup {NoTicket}]
    BY <1>2, <1>3 DEF IInv, TypeOK, BySeedWithout
  <2>2. CountsWithout(P) \in [Users -> Nat]
    BY <1>8, <1>10 DEF CountsWithout
  <2>3. sessionsByAccount' \in [Users -> Nat]
    BY <1>11, <2>2
  <2> QED BY <1>2, <2>1, <2>3 DEF TypeOK
<1>13. CountsMatch'
  <2> SUFFICES ASSUME NEW v \in Users
               PROVE  sessionsByAccount'[v] = Cardinality(HeldBy(v)')
    BY DEF CountsMatch
  <2>1. CountsWithout(P) = [w \in Users |-> Remaining(w, P)]
    BY DEF CountsWithout
  <2>2. sessionsByAccount'[v] = IF v = u THEN Remaining(v, P) + 1 ELSE Remaining(v, P)
    BY <1>11, <2>1
  <2> QED BY <1>9, <1>10, <2>2
<1>14. WithinLimits'
  <2>1. Cardinality(held) < MaxSessions /\ Remaining(u, P) < MaxSessionsPerAccount
    BY DEF Reserve, Admissible
  <2>2. Cardinality(Held') <= MaxSessions
    BY <1>8, <1>9, <2>1, StoreAssumption
  <2>3. ASSUME NEW v \in Users PROVE Cardinality(HeldBy(v)') <= MaxSessionsPerAccount
    <3>1. Cardinality(by(v)) <= Cardinality(HeldBy(v)) /\ Cardinality(HeldBy(v)) \in Nat
      BY HeldFinite, FS_Subset, FS_CardinalityType
    <3>2. Cardinality(HeldBy(v)) <= MaxSessionsPerAccount
      BY DEF IInv, WithinLimits
    <3>3. Cardinality(by(u)) + 1 <= MaxSessionsPerAccount
      <4>1. Cardinality(by(u)) \in Nat
        BY <1>8
      <4>2. Cardinality(by(u)) < MaxSessionsPerAccount
        BY <1>10, <2>1
      <4> HIDE DEF by
      <4> QED BY <4>1, <4>2, StoreAssumption
    <3>4. Cardinality(by(v)) <= MaxSessionsPerAccount
      BY <1>8, <3>1, <3>2, StoreAssumption
    <3> QED BY <1>9, <3>3, <3>4
  <2> QED BY <2>2, <2>3 DEF WithinLimits
<1>15. TokensFenced'
  <2>1. \A r \in held : bySeed'[r].token \in 1..nextToken
    BY <1>4 DEF IInv, TokensFenced
  <2>2. \A r, q \in held : bySeed'[r].token = bySeed'[q].token => r = q
    BY <1>4 DEF IInv, TokensFenced
  <2>3. bySeed'[s].token = nextToken + 1
    BY <1>4
  <2> QED BY <1>2, <1>5, <2>1, <2>2, <2>3 DEF TokensFenced, IInv, TypeOK
<1> QED BY <1>12, <1>13, <1>14, <1>15 DEF IInv

LEMMA InitIInv == Init => IInv
<1> SUFFICES ASSUME Init PROVE IInv
  OBVIOUS
<1>1. Held = {} /\ \A u : HeldBy(u) = {}
  BY DEF Init, Held, HeldBy
<1>2. Cardinality({}) = 0
  BY FS_EmptySet
<1>3. TypeOK
  BY StoreAssumption DEF Init, TypeOK
<1>4. CountsMatch
  BY <1>1, <1>2 DEF Init, CountsMatch
<1>5. WithinLimits
  BY <1>1, <1>2, StoreAssumption DEF WithinLimits
<1>6. TokensFenced
  BY <1>1 DEF TokensFenced
<1> QED BY <1>3, <1>4, <1>5, <1>6 DEF IInv

\* Every method but a successful Reserve leaves the store alone or removes a
\* set of held seeds.
LEMMA StepShape ==
  ASSUME Next
  PROVE  \/ UNCHANGED storeVars
         \/ \E S \in SUBSET Held : DeleteLocked(S)
         \/ \E s \in Seeds, u \in Users, p \in Peers, e \in Instants, now \in Instants :
              Reserve(s, u, p, e, now)
<1> DEFINE Removal == \E S \in SUBSET Held : DeleteLocked(S)
<1>1. PICK s \in Seeds, now \in Instants :
        \/ \E u \in Users, p \in Peers, e \in Instants : Reserve(s, u, p, e, now)
        \/ \E u \in Users : ReserveRefused(s, u, now)
        \/ \E p \in Peers : LookupHit(s, p, now) \/ LookupMiss(s, p, now)
        \/ \E t \in 1..MaxToken, p \in Peers : Consume(s, t, p, now)
        \/ \E t \in 1..MaxToken, p \in Peers : ConsumeRefused(s, t, p, now)
        \/ \E t \in 1..MaxToken : Revoke(s, t)
  BY DEF Next
<1>2. Expired(now) \in SUBSET Held /\ (s \in Held => {s} \in SUBSET Held)
  BY DEF Expired
<1>3. CASE \E u \in Users, p \in Peers, e \in Instants : Reserve(s, u, p, e, now)
  BY <1>3
<1>4. ASSUME NEW u \in Users, ReserveRefused(s, u, now) PROVE Removal
  BY <1>2, <1>4 DEF ReserveRefused, Purged
<1>5. ASSUME NEW p \in Peers, LookupHit(s, p, now) PROVE UNCHANGED storeVars
  BY <1>5 DEF LookupHit
<1>6. ASSUME NEW p \in Peers, LookupMiss(s, p, now) PROVE Removal \/ UNCHANGED storeVars
  BY <1>2, <1>6 DEF LookupMiss
<1>7. ASSUME NEW t \in 1..MaxToken, NEW p \in Peers, Consume(s, t, p, now) PROVE Removal
  BY <1>2, <1>7 DEF Consume, Redeemable, Found
<1>8. ASSUME NEW t \in 1..MaxToken, NEW p \in Peers, ConsumeRefused(s, t, p, now)
      PROVE  Removal \/ UNCHANGED storeVars
  BY <1>2, <1>8 DEF ConsumeRefused
<1>9. ASSUME NEW t \in 1..MaxToken, Revoke(s, t) PROVE Removal \/ UNCHANGED storeVars
  BY <1>2, <1>9 DEF Revoke
<1> QED BY <1>1, <1>3, <1>4, <1>5, <1>6, <1>7, <1>8, <1>9

LEMMA StepIInv == IInv /\ [Next]_storeVars => IInv'
<1> SUFFICES ASSUME IInv, [Next]_storeVars PROVE IInv'
  OBVIOUS
<1>1. CASE UNCHANGED storeVars
  BY <1>1 DEF storeVars, IInv, TypeOK, CountsMatch, WithinLimits, TokensFenced, Held, HeldBy
<1>2. CASE Next
  BY <1>1, <1>2, StepShape, DeletePreserves, ReservePreserves
<1> QED BY <1>1, <1>2

THEOREM Invariance == Spec => []IInv
BY InitIInv, StepIInv, PTL DEF Spec

-----------------------------------------------------------------------------
\* The maps and the token counter keep their types (MemoryLobbySessionStore).
THEOREM TypeCorrect == Spec => []TypeOK
<1>1. IInv => TypeOK
  BY DEF IInv
<1> QED BY <1>1, Invariance, PTL

\* sessionsByAccount is always the number of pending sessions of the account:
\* Reserve and deleteLocked never let the two drift apart.
THEOREM CountersExact == Spec => []CountsMatch
<1>1. IInv => CountsMatch
  BY DEF IInv
<1> QED BY <1>1, Invariance, PTL

\* Neither MaxSessions nor MaxSessionsPerAccount is ever exceeded.
THEOREM LimitsHold == Spec => []WithinLimits
<1>1. IInv => WithinLimits
  BY DEF IInv
<1> QED BY <1>1, Invariance, PTL

\* Pending sessions have distinct tokens, all of them already handed out.
THEOREM TokensDistinct == Spec => []TokensFenced
<1>1. IInv => TokensFenced
  BY DEF IInv
<1> QED BY <1>1, Invariance, PTL

\* Expired sessions never make Reserve refuse: its counters, after the purge,
\* count exactly the live sessions.
THEOREM ExpiredNeverCount == Spec => []LimitsCountLiveOnly
<1>1. IInv => LimitsCountLiveOnly
  <2> SUFFICES ASSUME IInv, NEW s \in Seeds, NEW u \in Users, NEW now \in Instants
               PROVE  LET live == {r \in Held : bySeed[r].expiresAt > now}
                      IN  Admissible(s, u, now) <=>
                            /\ s \notin live
                            /\ Cardinality({r \in live : bySeed[r].user = u}) < MaxSessionsPerAccount
                            /\ Cardinality(live) < MaxSessions
    BY DEF LimitsCountLiveOnly
  <2> DEFINE live == {r \in Held : bySeed[r].expiresAt > now}
  <2>1. \A r \in Held : bySeed[r].expiresAt \in Int /\ now \in Int
    <3> SUFFICES ASSUME NEW r \in Held PROVE bySeed[r].expiresAt \in Int /\ now \in Int
      OBVIOUS
    <3>1. bySeed[r] \in Ticket
      BY DEF IInv, TypeOK, Held
    <3>2. bySeed[r].expiresAt \in Instants
      BY <3>1 DEF Ticket
    <3>3. \A i \in Instants : i \in Int
      BY StoreAssumption
    <3>4. now \in Int
      BY <3>3
    <3> QED BY <3>2, <3>3, <3>4
  <2>2. live = Held \ Purged(now)
    BY <2>1 DEF Purged, Expired
  <2>3. {r \in live : bySeed[r].user = u} = HeldBy(u) \ Purged(now)
    BY <2>2 DEF HeldBy
  <2>4. Remaining(u, Purged(now)) = Cardinality(HeldBy(u) \ Purged(now))
    BY RemainingExact DEF IInv
  <2> QED BY <2>2, <2>3, <2>4 DEF Admissible
<1> QED BY <1>1, Invariance, PTL

\* A seed only ever passes to a newer generation, so that a token kept by a
\* handler (for Consume, for Revoke) never matches a later session.
THEOREM GenerationsGrow == Spec => GenerationsOnlyGrow
<1> DEFINE Grow == \A s \in Seeds : bySeed'[s] \in {bySeed[s], NoTicket} \/ bySeed'[s].token > nextToken
<1>1. ASSUME IInv, [Next]_storeVars PROVE [Grow]_storeVars
  <2>1. CASE UNCHANGED storeVars
    BY <2>1
  <2>2. ASSUME NEW S \in SUBSET Held, DeleteLocked(S) PROVE Grow
    BY <2>2 DEF DeleteLocked, BySeedWithout
  <2>3. ASSUME NEW s \in Seeds, NEW u \in Users, NEW p \in Peers, NEW e \in Instants,
               NEW now \in Instants, Reserve(s, u, p, e, now)
        PROVE  Grow
    <3> DEFINE P == Purged(now)
               ticket == [user |-> u, peer |-> p, token |-> nextToken + 1, expiresAt |-> e]
    <3>1. bySeed' = [BySeedWithout(P) EXCEPT ![s] = ticket]
      BY <2>3 DEF Reserve, FreshToken
    <3>2. bySeed'[s].token = nextToken + 1 /\ nextToken \in Nat
      BY <1>1, <3>1 DEF BySeedWithout, IInv, TypeOK
    <3>3. \A r \in Seeds \ {s} : bySeed'[r] \in {bySeed[r], NoTicket}
      BY <3>1 DEF BySeedWithout
    <3> QED BY <3>2, <3>3
  <2> QED BY <1>1, <2>1, <2>2, <2>3, StepShape
<1> QED BY <1>1, Invariance, PTL DEF Spec, GenerationsOnlyGrow
=============================================================================
