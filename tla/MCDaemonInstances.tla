------------------------- MODULE MCDaemonInstances -------------------------
(* Instances of DaemonInstances for TLC. *)
EXTENDS DaemonInstances, TLC

Symmetry == Permutations(Processes) \cup Permutations(Jobs)
=============================================================================
