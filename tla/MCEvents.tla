------------------------------- MODULE MCEvents -------------------------------
(* Instances of Events for TLC. *)
EXTENDS Events, TLC

\* listener functions are only compared with each other
Symmetry == Permutations(Fns)
=============================================================================
