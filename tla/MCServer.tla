------------------------------ MODULE MCServer ------------------------------
(***************************************************************************)
(* Four connections for two slots: two from one address, which may have    *)
(* one at a time, one from another and one with an address that is no      *)
(* source.  Every limit is met while the server runs and while it stops.   *)
(***************************************************************************)
EXTENDS Server

CONSTANTS c1, c2, c3, c4, a1, a2

MCSourceOf ==
  [c \in Connections |-> CASE c \in {c1, c2} -> a1 [] c = c3 -> a2 [] c = c4 -> NoSource]
=============================================================================
