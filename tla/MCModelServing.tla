--------------------------- MODULE MCModelServing ---------------------------
(* Instances of ModelServing for TLC. *)
EXTENDS ModelServing

CONSTANTS c1, c2, c3, m1, m2
=============================================================================
