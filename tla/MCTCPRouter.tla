---------------------------- MODULE MCTCPRouter ----------------------------
(***************************************************************************)
(* Seven words: a keepalive (also the head of a create-account request),   *)
(* the marker (also the value of a buffer record and an encrypted head),   *)
(* sizes of one and two words, the heads of an account-for-MMP request and *)
(* of a lobby login (both too large as sizes for the router), and a size   *)
(* too large for everybody.  The limits are scaled so that the router lets *)
(* through more control records than the handler reads records, as in the  *)
(* code (32 against 16).                                                   *)
(***************************************************************************)
EXTENDS TCPRouter

MCWords == {0, 200, 4, 8, 2560, 1792, 1048580}
=============================================================================
