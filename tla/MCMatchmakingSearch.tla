------------------------ MODULE MCMatchmakingSearch ------------------------
(***************************************************************************)
(* Two connections, one ID more than the table holds, enough creations for *)
(* every ID to be used again, matches that may advertise either key in     *)
(* either attribute, and offsets and limits of two bits, so that their sum *)
(* can exceed the width.                                                   *)
(***************************************************************************)
EXTENDS MatchmakingSearch, TLC

CONSTANTS i1, i2, i3, i4, o1, o2, any, k

MCInfos == [at11C : {k}, at158 : {any, k}, at15C : {0, 1}]

Symmetric == Permutations(SessionIDs) \cup Permutations(Owners)
=============================================================================
