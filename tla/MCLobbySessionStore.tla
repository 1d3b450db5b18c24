------------------------ MODULE MCLobbySessionStore ------------------------
(***************************************************************************)
(* Two accounts, two machines, and enough seeds to reach the limit of an   *)
(* account (2) and of the store (3).  Six tokens let every seed be reused *)
(* after a revocation, a redemption or an expiry.                          *)
(***************************************************************************)
EXTENDS LobbySessionStore, TLC

CONSTANTS s1, s2, s3, s4, u1, u2, p1, p2

MCInstants == 0..2

Symmetric ==
  Permutations(Seeds) \cup Permutations(Users) \cup Permutations(Peers)
=============================================================================
