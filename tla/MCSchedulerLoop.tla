--------------------------- MODULE MCSchedulerLoop --------------------------
(* Instances of SchedulerLoop for TLC. *)
EXTENDS SchedulerLoop

CONSTANTS r1, r2, r3, m1, m2, c1, c2

Pair == r1 :> m1 @@ r2 :> m1
OneModel == r1 :> m1 @@ r2 :> m1 @@ r3 :> m1
=============================================================================
