------------------------- MODULE MCMetricsSnapshot --------------------------
(* Instances of MetricsSnapshot for TLC. *)
EXTENDS MetricsSnapshot

CONSTANTS w1, w2, b1, b2, b3
=============================================================================
