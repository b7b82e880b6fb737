-------------------------- MODULE MCClientSession ---------------------------
(* Instances of ClientSession for TLC: a may open x and y, b only x. *)
EXTENDS ClientSession

CONSTANTS a, b, s1, s2, x, y

OneOfB == [s \in Sessions |-> IF s = s2 THEN b ELSE a]
HomeX == [p \in Persons |-> x]
OnlyAOpensY == [p \in Persons |-> IF p = a THEN {x, y} ELSE {x}]
=============================================================================
