--------------------------- MODULE MCLobbyStream ---------------------------
(***************************************************************************)
(* Two other players push while a client sends a few records.  All sizes   *)
(* are the real ones: a page of one match with a host of 80 bytes and a    *)
(* name of 21 makes a reply of just 200, the limits of names are met from  *)
(* both sides, and so are pushes of short and long messages.               *)
(***************************************************************************)
EXTENDS LobbyStream

CONSTANTS s1, s2

Symmetry == Permutations(Senders)
=============================================================================
