-------------------------- MODULE MCFairScheduler --------------------------
(* Instances of FairScheduler for TLC. *)
EXTENDS FairScheduler, TLC

\* Three priorities, of weights 2, 1 and 1.
ThreeWeights == 0 :> 2 @@ 1 :> 1 @@ 2 :> 1
ThreeBefore == 0 :> 0 @@ 1 :> 2 @@ 2 :> 3 @@ 3 :> 4

=============================================================================
