------------------------------ MODULE MCPromise ------------------------------
(* Instances of Promise for TLC. *)
EXTENDS Promise, TLC

\* values are only compared with each other
Symmetry == Permutations(Values)
=============================================================================
