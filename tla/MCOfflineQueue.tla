--------------------------- MODULE MCOfflineQueue ---------------------------
(* Instances of OfflineQueue for TLC. *)
EXTENDS OfflineQueue

CONSTANTS i1, i2, p1, p2, r1, r2, r3, b1, b2

OnePage == [r \in Runs |-> p1]
TwoPages == [r \in Runs |-> IF r = r1 THEN p1 ELSE p2]
=============================================================================
