------------------------------ MODULE MCLobby ------------------------------
(***************************************************************************)
(* Instances of the lobby.  Tickets expire at instant 1 and any call may   *)
(* see the clock at 0 or at 1, so that every ticket may be found expired,  *)
(* by any call and at any moment.                                          *)
(***************************************************************************)
EXTENDS Lobby, TLC

CONSTANTS c1, c2, c3, u1, u2, p1, s1, s2, i1, i2

MCInstants == 0..1
OnePeer == [c \in Conns |-> p1]

Interchangeable == Permutations(Conns) \cup Permutations(Seeds) \cup Permutations(SessionIDs)

\* A lobby in use: u1 plays on c1 (if there is a c1) and u2 on c2; their tickets,
\* the first two, were issued and consumed; the third is pending, for u2 to come
\* back on c3.
Seats == Conns \cap {c1, c2}

Seated ==
  /\ bySeed = [s \in Seeds |-> IF s = s1
                 THEN [user |-> u2, peer |-> p1, token |-> 3, expiresAt |-> 1] ELSE NoTicket]
  /\ sessionsByAccount = [u \in Users |-> IF u = u2 THEN 1 ELSE 0]
  /\ nextToken = 3
  /\ Matches!Init
  /\ issuing = {}
  /\ pc = [c \in Conns |-> IF c \in Seats THEN "top" ELSE "unopened"]
  /\ phase = [c \in Conns |-> IF c \in Seats THEN "confirmed" ELSE "anonymous"]
  /\ session = [c \in Conns |->
                  CASE c = c1 -> [seed |-> s1, user |-> u1, token |-> 1]
                    [] c = c2 -> [seed |-> s1, user |-> u2, token |-> 2]
                    [] OTHER  -> NoTicket]
  /\ connectionID = [c \in Conns |->
                       IF c = c1 THEN 1 ELSE IF c = c2 THEN Cardinality(Seats) ELSE 0]
  /\ controls = [c \in Conns |-> 0]
  /\ nextID = Cardinality(Seats)
  /\ byAccount = [u \in Users |-> IF u = u2 THEN c2 ELSE IF c1 \in Conns THEN c1 ELSE NoConn]
  /\ other = [c \in Conns |-> NoConn]
  /\ pushSeed = [c \in Conns |-> 0]
  /\ nextServerSeed = [c \in Conns |-> 0]
  /\ sock = [c \in Conns |-> "open"]
  /\ writer = [c \in Conns |-> NoConn]
  /\ torn = {}

SeatedSpec == Seated /\ [][Next]_vars
SeatedFairSpec == SeatedSpec /\ Fairness
=============================================================================
