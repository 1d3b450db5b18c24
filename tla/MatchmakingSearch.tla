-------------------------- MODULE MatchmakingSearch -------------------------
(***************************************************************************)
(* Find and matchesQuery of lobby/matchmaking_store.go over the table of   *)
(* MatchmakingStore.  Find copies the matching sessions under the read     *)
(* lock, in the random order of a Go map, then sorts and cuts the copy: it *)
(* sees one state of the table and is a function of it.                    *)
(***************************************************************************)
EXTENDS MatchmakingStore, Sequences

CONSTANTS
  Keys,      \* values of the attributes at 0x11c and 0x158, and of a query's key
  Values,    \* values of the attribute at 0x15c, and of a query's value
  Wildcard,  \* matchmakingWildcardKey (5381)
  Word       \* 2^w, for offsets and limits of w bits (32 in the code)

\* NewMemoryMatchmakingStore allows a million sessions at most.
ASSUME SearchAssumption == Word \in Nat /\ MaxMatches < Word

Queries == [key : Keys, value : Values]
Words == 0..(Word - 1)

-----------------------------------------------------------------------------
(* A variant with a plausible bug, used by no definition. *)

\* offset + maximum computed in the width of its operands
EndWrapped(offset, maximum, total) ==
  LET sum == (offset + maximum) % Word IN IF sum > total THEN total ELSE sum

-----------------------------------------------------------------------------
matchesQuery(info, query) ==
  /\ info.at15C = query.value
  /\ \/ query.key = Wildcard
     \/ info.at11C = query.key /\ info.at158 = query.key

\* The snapshot of Find.
Snapshot(query) == {i \in Stored : matchesQuery(byID[i].info, query)}

\* It is sorted by rank.
Sorted(query) ==
  CHOOSE sessions \in [1..Cardinality(Snapshot(query)) -> Snapshot(query)] :
    \A m, n \in DOMAIN sessions :
      m < n => byID[sessions[m]].order < byID[sessions[n]].order

\* The sum is taken in 64 bits, so it does not wrap.
End(offset, maximum, total) ==
  IF offset + maximum > total THEN total ELSE offset + maximum

Find(query, offset, maximum) ==
  LET sessions == Sorted(query)
      total == Len(sessions) % Word
  IN  [total |-> total,
       page |-> IF offset >= total \/ maximum = 0
                THEN << >>
                ELSE SubSeq(sessions, offset + 1, End(offset, maximum, total))]

-----------------------------------------------------------------------------
(* Properties. *)

Matching(query) ==
  {i \in Stored : /\ byID[i].info.at15C = query.value
                  /\ query.key # Wildcard =>
                       {byID[i].info.at11C, byID[i].info.at158} = {query.key}}

Before(i, query) == Cardinality({j \in Matching(query) : byID[j].order < byID[i].order})

\* For every query, offset and limit, the largest ones included, a page holds
\* exactly the matching sessions whose place among them, by age, is within it,
\* oldest first, and the total counts all of them.
FindExact ==
  \A query \in Queries, offset, maximum \in Words :
    LET found == Find(query, offset, maximum)
    IN  /\ found.total = Cardinality(Matching(query))
        /\ {found.page[n] : n \in DOMAIN found.page} =
             {i \in Matching(query) : Before(i, query) \in offset..(offset + maximum - 1)}
        /\ \A n \in 1..Len(found.page) : Before(found.page[n], query) = offset + n - 1
=============================================================================
