--------------------------- MODULE MCJobRegistry ---------------------------
(* Instances of JobRegistry for TLC. *)
EXTENDS JobRegistry, TLC

\* Every pack writes to one contested output path.
MCOutputOf == [p \in PackParams |-> "out"]

KeySymmetry == Permutations(Keys)
=============================================================================
