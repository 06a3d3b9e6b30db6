-------------------------- MODULE MCModelRegistry ---------------------------
(* Instances of ModelRegistry for TLC. *)
EXTENDS ModelRegistry

CONSTANTS c1, c2, c3, m1, m2, m3
=============================================================================
