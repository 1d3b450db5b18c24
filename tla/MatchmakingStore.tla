-------------------------- MODULE MatchmakingStore --------------------------
(***************************************************************************)
(* The table of advertised matches: lobby/matchmaking_store.go.  Matches   *)
(* are owned by lobby connections (their connection ID), not by accounts.  *)
(* Every method that writes holds the mutex for all of its body and is one *)
(* atomic action; the errors it returns without writing are predicates     *)
(* here, for the lobby that calls it to act upon.  Find is in              *)
(* MatchmakingSearch.                                                      *)
(***************************************************************************)
EXTENDS Integers, FiniteSets

CONSTANTS
  SessionIDs,           \* the 64-bit IDs Create draws at random, without zero
  Owners,               \* connection IDs, without zero
  Infos,                \* what a match advertises: attributes, host address
  MaxMatches,           \* store.maxSessions
  MaxMatchesPerOwner,   \* store.maxSessionsPerOwner
  MaxOrder,             \* bound: matches ever created (nextOrder never wraps)
  NoMatch               \* marks an ID without a match

Match == [info : Infos, owner : Owners, order : 1..MaxOrder]

ASSUME MatchesAssumption ==
  /\ IsFiniteSet(SessionIDs)
  /\ MaxMatches \in Nat \ {0}
  /\ MaxMatchesPerOwner \in Nat \ {0}
  /\ MaxOrder \in Nat

ASSUME NoMatchAssumption == NoMatch \notin Match

VARIABLES
  byID,             \* ID -> stored session, NoMatch where the map has none
  sessionsByOwner,  \* owner -> count, 0 where the map has none
  nextOrder         \* the creation rank of the last match created

matchVars == <<byID, sessionsByOwner, nextOrder>>

TypeOK ==
  /\ byID \in [SessionIDs -> Match \cup {NoMatch}]
  /\ sessionsByOwner \in [Owners -> Nat]
  /\ nextOrder \in 0..MaxOrder

Init ==
  /\ byID = [i \in SessionIDs |-> NoMatch]
  /\ sessionsByOwner = [o \in Owners |-> 0]
  /\ nextOrder = 0

-----------------------------------------------------------------------------
Stored == {i \in SessionIDs : byID[i] # NoMatch}

OwnedBy(o) == {i \in Stored : byID[i].owner = o}

(***************************************************************************)
(* Variants with a plausible bug.  No action uses them: each stands in for *)
(* a definition below to show that a property notices the difference.      *)
(***************************************************************************)
\* the caller of deleteLocked decrements the counter as well, unclamped
LeftTwice(o, S) == sessionsByOwner[o] - 2 * Cardinality(OwnedBy(o) \cap S)

\* deleteLocked drops the counter entry of the owner instead of decrementing it
LeftDropped(o, S) == IF OwnedBy(o) \cap S = {} THEN sessionsByOwner[o] ELSE 0

\* an off-by-one in both limits
RoomOneOver(o) == Cardinality(Stored) <= MaxMatches /\ sessionsByOwner[o] <= MaxMatchesPerOwner

\* no owner check
Anybodys(o, i) == i \in Stored

\* an update stored as if it were a new session
UpdatedMovesBack(i, info) == [byID[i] EXCEPT !.info = info, !.order = nextOrder]

-----------------------------------------------------------------------------
\* deleteLocked, once for every ID of the set S of stored matches: a counter
\* that would fall to zero or below is removed from its map.
Left(o, S) ==
  LET n == sessionsByOwner[o] - Cardinality(OwnedBy(o) \cap S)
  IN  IF n <= 0 THEN 0 ELSE n

DeleteLocked(S) ==
  /\ byID' = [i \in SessionIDs |-> IF i \in S THEN NoMatch ELSE byID[i]]
  /\ sessionsByOwner' = [o \in Owners |-> Left(o, S)]
  /\ UNCHANGED nextOrder

Room(o) == Cardinality(Stored) < MaxMatches /\ sessionsByOwner[o] < MaxMatchesPerOwner

FreshOrder == nextOrder + 1

\* One of the sixteen draws hit an ID that is free.
Create(o, info, i) ==
  /\ Room(o)
  /\ i \notin Stored
  /\ FreshOrder <= MaxOrder
  /\ nextOrder' = FreshOrder
  /\ byID' = [byID EXCEPT ![i] = [info |-> info, owner |-> o, order |-> FreshOrder]]
  /\ sessionsByOwner' = [sessionsByOwner EXCEPT ![o] = @ + 1]

\* A limit is reached, or all sixteen draws are taken, or the random source
\* fails: nothing is written.  The last two do not depend on the state.
CreateRefused == UNCHANGED matchVars

Missing(i) == i \notin Stored

Foreign(o, i) == i \in Stored /\ byID[i].owner # o

Mine(o, i) == i \in Stored /\ byID[i].owner = o

\* Only the advertised information changes: the match keeps ID, owner and rank.
Updated(i, info) == [byID[i] EXCEPT !.info = info]

Update(o, i, info) ==
  /\ Mine(o, i)
  /\ byID' = [byID EXCEPT ![i] = Updated(i, info)]
  /\ UNCHANGED <<sessionsByOwner, nextOrder>>

Delete(o, i) == Mine(o, i) /\ DeleteLocked({i})

DeleteOwner(o) == DeleteLocked(OwnedBy(o))

Next ==
  \E o \in Owners :
    \/ DeleteOwner(o)
    \/ \E i \in SessionIDs : Delete(o, i)
    \/ \E i \in SessionIDs, info \in Infos : Create(o, info, i) \/ Update(o, i, info)

Spec == Init /\ [][Next]_matchVars

-----------------------------------------------------------------------------
(***************************************************************************)
(* Properties.                                                             *)
(***************************************************************************)

\* The per-owner counters never drift from the table they count.
CountsMatch ==
  \A o \in Owners : sessionsByOwner[o] = Cardinality(OwnedBy(o))

\* Neither the table nor an owner is ever above its configured limit.
WithinLimits ==
  /\ Cardinality(Stored) <= MaxMatches
  /\ \A o \in Owners : Cardinality(OwnedBy(o)) <= MaxMatchesPerOwner

\* Creation ranks are pairwise distinct, so that the order in which Find sorts
\* (sort.Slice is not stable) is total.
RanksDistinct ==
  /\ \A i \in Stored : byID[i].order \in 1..nextOrder
  /\ \A i, j \in Stored : byID[i].order = byID[j].order => i = j

\* The matches that stay in the table keep their owner and their rank, and one
\* that appears goes behind all of them: what a browsing client has paged past
\* is never moved ahead of its offset by an update.
RanksStable ==
  [][\A i \in Stored' :
       \/ i \in Stored /\ byID'[i].owner = byID[i].owner /\ byID'[i].order = byID[i].order
       \/ i \notin Stored /\ \A j \in Stored : byID[j].order < byID'[i].order]_matchVars
=============================================================================
