--------------------------- MODULE MCAccountStore ---------------------------
(***************************************************************************)
(* Two spellings of one name that share a hash, two more names, two peers  *)
(* and room for three accounts.  A user ID is used up only by a committed  *)
(* registration, so as many as there are accounts are enough.              *)
(***************************************************************************)
EXTENDS AccountStore

CONSTANTS ann, ANN, bob, cid, hann, hbob, hcid

MCBOZAccountHash ==
  [n \in Names |-> IF n \in {ann, ANN} THEN hann ELSE IF n = bob THEN hbob ELSE hcid]
=============================================================================
