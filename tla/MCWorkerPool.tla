---------------------------- MODULE MCWorkerPool ----------------------------
(* Instances of WorkerPool for TLC. *)
EXTENDS WorkerPool

CONSTANTS w1, w2, s1, s2, b1, b2, b3, r1, r2, r3, r4

Two == s1 :> w1 @@ s2 :> w2

OneWorkerTwoSlots == s1 :> w1 @@ s2 :> w1

(* A batch of two requests, a batch of one, and one for an unknown model. *)
PairSinglePoison == b1 :> {r1, r2} @@ b2 :> {r3} @@ b3 :> {r4}
OneSingle == b1 :> {r1}
=============================================================================
