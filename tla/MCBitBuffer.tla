---------------------------- MODULE MCBitBuffer ----------------------------
(***************************************************************************)
(* Two values that differ in their first bits and are not symmetric, raw   *)
(* values of one byte and of the eight that a 64-bit read also takes, up   *)
(* to two values in a stream.                                              *)
(***************************************************************************)
EXTENDS BitBuffer

EveryThird == [i \in 1..64 |-> IF i % 3 = 1 THEN 1 ELSE 0]
EveryFifth == [i \in 1..64 |-> IF i % 5 = 0 THEN 1 ELSE 0]

MCPatterns == {EveryThird, EveryFifth}
=============================================================================
