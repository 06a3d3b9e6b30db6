------------------------------ MODULE MCGateway -----------------------------
(* Instances of Gateway for TLC. *)
EXTENDS Gateway

CONSTANTS r1, r2, r3
=============================================================================
