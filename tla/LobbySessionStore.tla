------------------------- MODULE LobbySessionStore -------------------------
(***************************************************************************)
(* The pending lobby sessions ("tickets") that the authentication service  *)
(* hands out and the lobby redeems: auth/lobby_session.go.  Every method   *)
(* runs under one mutex, so each is one atomic action.  The instant `now'  *)
(* a method is called with was read from the wall clock before the mutex   *)
(* was taken, and the clock may be stepped: successive calls may come with *)
(* any instants, in any order.                                             *)
(***************************************************************************)
EXTENDS Integers, FiniteSets

CONSTANTS
  Seeds,                  \* ticket seeds: the keys of bySeed
  Users,                  \* accounts, identified by their user ID
  Peers,                  \* peer identities: IP addresses without the port
  Instants,               \* values of the clock, an initial part of Nat
  MaxSessions,            \* store.maxSessions
  MaxSessionsPerAccount,  \* store.maxSessionsPerAccount
  MaxToken,               \* bound: tokens issued (the uint64 never wraps)
  NoTicket                \* marks a seed without a pending session

Ticket == [user : Users, peer : Peers, token : 1..MaxToken, expiresAt : Instants]

ASSUME StoreAssumption ==
  /\ IsFiniteSet(Seeds)
  /\ Instants \subseteq Nat
  /\ MaxSessions \in Nat \ {0}
  /\ MaxSessionsPerAccount \in Nat \ {0}
  /\ MaxToken \in Nat

ASSUME NoTicketAssumption == NoTicket \notin Ticket

VARIABLES
  bySeed,             \* seed -> pending session, NoTicket where the map has none
  sessionsByAccount,  \* user -> count, 0 where the map has none
  nextToken           \* the last token handed out

storeVars == <<bySeed, sessionsByAccount, nextToken>>

TypeOK ==
  /\ bySeed \in [Seeds -> Ticket \cup {NoTicket}]
  /\ sessionsByAccount \in [Users -> Nat]
  /\ nextToken \in 0..MaxToken

Init ==
  /\ bySeed = [s \in Seeds |-> NoTicket]
  /\ sessionsByAccount = [u \in Users |-> 0]
  /\ nextToken = 0

-----------------------------------------------------------------------------
Held == {s \in Seeds : bySeed[s] # NoTicket}

HeldBy(u) == {s \in Held : bySeed[s].user = u}

Expired(now) == {s \in Held : bySeed[s].expiresAt <= now}

(***************************************************************************)
(* Variants with a plausible bug.  No action uses them: each stands in for *)
(* a definition below to show that a property notices the difference.      *)
(***************************************************************************)
\* the caller of deleteLocked decrements the counter as well, unclamped
RemainingTwice(u, S) == sessionsByAccount[u] - 2 * Cardinality(HeldBy(u) \cap S)

\* entries removed with a bare delete(), their counters left alone
CountsUntouched(S) == sessionsByAccount

\* Reserve does not purge first
NothingPurged(now) == {}

\* a generation taken from the size of the map
TokenFromSize == Cardinality(Held) + 1

\* an account may go one over its limit
AdmissibleOneOver(s, u, now) ==
  /\ bySeed[s] = NoTicket
  /\ sessionsByAccount[u] <= MaxSessionsPerAccount
  /\ Cardinality(Held) < MaxSessions

\* deleteLocked, once for every seed of the set S of held seeds: a counter
\* that would fall to zero or below is removed from its map.
Remaining(u, S) ==
  LET n == sessionsByAccount[u] - Cardinality(HeldBy(u) \cap S)
  IN  IF n <= 0 THEN 0 ELSE n

BySeedWithout(S) == [s \in Seeds |-> IF s \in S THEN NoTicket ELSE bySeed[s]]

CountsWithout(S) == [u \in Users |-> Remaining(u, S)]

DeleteLocked(S) ==
  /\ bySeed' = BySeedWithout(S)
  /\ sessionsByAccount' = CountsWithout(S)
  /\ UNCHANGED nextToken

\* purgeExpiredLocked, as the first statement of a Reserve at instant now.
Purged(now) == Expired(now)

\* The three tests of Reserve, after its purge: no collision on the seed, the
\* account and the store below their limits.
Admissible(s, u, now) ==
  /\ s \notin Held \ Purged(now)
  /\ Remaining(u, Purged(now)) < MaxSessionsPerAccount
  /\ Cardinality(Held \ Purged(now)) < MaxSessions

FreshToken == nextToken + 1

Reserve(s, u, p, expiresAt, now) ==
  /\ expiresAt > now
  /\ Admissible(s, u, now)
  /\ FreshToken <= MaxToken
  /\ nextToken' = FreshToken
  /\ bySeed' = [BySeedWithout(Purged(now)) EXCEPT ![s] =
                  [user |-> u, peer |-> p, token |-> FreshToken, expiresAt |-> expiresAt]]
  /\ sessionsByAccount' = [CountsWithout(Purged(now)) EXCEPT ![u] = @ + 1]

\* A refused Reserve has purged all the same.
ReserveRefused(s, u, now) ==
  /\ ~Admissible(s, u, now)
  /\ DeleteLocked(Purged(now))

\* The tests of Lookup; Consume makes them too, and compares the token first.
Found(s, p, now) == s \in Held \ Expired(now) /\ bySeed[s].peer = p

(* Two more variants: Revoke takes whatever generation the seed holds; Consume is a Lookup. *)
RevokeAnyGeneration(s, t) == IF s \in Held THEN DeleteLocked({s}) ELSE UNCHANGED storeVars
ConsumeKeeps(s, t, p, now) == Found(s, p, now) /\ bySeed[s].token = t /\ UNCHANGED storeVars

Redeemable(s, t, p, now) == Found(s, p, now) /\ bySeed[s].token = t

\* Lookup hands out a copy of the session and its token, and leaves it there.
LookupHit(s, p, now) == Found(s, p, now) /\ UNCHANGED storeVars

LookupMiss(s, p, now) ==
  /\ ~Found(s, p, now)
  /\ IF s \in Expired(now) THEN DeleteLocked({s}) ELSE UNCHANGED storeVars

Consume(s, t, p, now) == Redeemable(s, t, p, now) /\ DeleteLocked({s})

ConsumeRefused(s, t, p, now) ==
  /\ ~Redeemable(s, t, p, now)
  /\ IF s \in Expired(now) /\ bySeed[s].token = t
     THEN DeleteLocked({s})
     ELSE UNCHANGED storeVars

Revoke(s, t) ==
  IF s \in Held /\ bySeed[s].token = t
  THEN DeleteLocked({s})
  ELSE UNCHANGED storeVars

Next ==
  \E s \in Seeds, now \in Instants :
    \/ \E u \in Users, p \in Peers, e \in Instants : Reserve(s, u, p, e, now)
    \/ \E u \in Users : ReserveRefused(s, u, now)
    \/ \E p \in Peers : LookupHit(s, p, now) \/ LookupMiss(s, p, now)
    \/ \E t \in 1..MaxToken, p \in Peers : Consume(s, t, p, now)
    \/ \E t \in 1..MaxToken, p \in Peers : ConsumeRefused(s, t, p, now)
    \/ \E t \in 1..MaxToken : Revoke(s, t)

Spec == Init /\ [][Next]_storeVars

-----------------------------------------------------------------------------
(***************************************************************************)
(* Properties.                                                             *)
(***************************************************************************)

\* The per-account counters, kept by hand beside the map in Reserve and
\* deleteLocked, never drift from it, however purges, lazy expiry in Lookup
\* and Consume, and revocations interleave.
CountsMatch ==
  \A u \in Users : sessionsByAccount[u] = Cardinality(HeldBy(u))

\* Neither the store nor an account is ever above its configured limit.
WithinLimits ==
  /\ Cardinality(Held) <= MaxSessions
  /\ \A u \in Users : Cardinality(HeldBy(u)) <= MaxSessionsPerAccount

\* The generation token tells two reservations apart even when the random seed
\* repeats: pending sessions have distinct tokens, none from the future.
TokensFenced ==
  /\ \A s \in Held : bySeed[s].token \in 1..nextToken
  /\ \A s, r \in Held : bySeed[s].token = bySeed[r].token => s = r

\* Sessions that have run out at the instant of a Reserve do not count against
\* it: it is refused exactly when live sessions, counted in the map itself,
\* hold the seed or fill the account or the store.
LimitsCountLiveOnly ==
  \A s \in Seeds, u \in Users, now \in Instants :
    Admissible(s, u, now) <=>
      LET live == {r \in Held : bySeed[r].expiresAt > now}
      IN  /\ s \notin live
          /\ Cardinality({r \in live : bySeed[r].user = u}) < MaxSessionsPerAccount
          /\ Cardinality(live) < MaxSessions

\* A seed is reused only for a newer generation: what a seed holds after a step
\* is what it held, or nothing, or a session whose token no earlier session of
\* any seed had.  A late Revoke or Consume can therefore tell by the token that
\* its ticket is gone.
GenerationsOnlyGrow ==
  [][\A s \in Seeds : bySeed'[s] \in {bySeed[s], NoTicket} \/ bySeed'[s].token > nextToken]_storeVars
=============================================================================
