------------------------------ MODULE MCAsking ------------------------------
(* Values for the constants of Asking.                                     *)
EXTENDS Asking

CONSTANTS r1, r2, r3, c1, c2

MCKind == [r \in Requests |-> IF r = r1 THEN "plain" ELSE "stream"]
=============================================================================
