-------------------------- MODULE MCDynamicBatcher --------------------------
(* Instances of DynamicBatcher for TLC. *)
EXTENDS DynamicBatcher

CONSTANTS r1, r2, r3, r4, r5, m1, m2

(* Model m1 has requests of every priority class, m2 competes with it. *)
TwoModels == r1 :> m1 @@ r2 :> m1 @@ r3 :> m1 @@ r4 :> m1 @@ r5 :> m2
Classes   == r1 :> 0 @@ r2 :> 1 @@ r3 :> 1 @@ r4 :> 2 @@ r5 :> 1
ClassWeights == 0 :> 1 @@ 1 :> 3 @@ 2 :> 8
=============================================================================
