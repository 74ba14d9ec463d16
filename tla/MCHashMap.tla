------------------------------ MODULE MCHashMap ------------------------------
(* Instances of HashMap for TLC. *)
EXTENDS HashMap, TLC

CONSTANTS c1, c2, c3, c4
MCContents == {c1, c2, c3, c4}
\* three meet in the small tables, two probes wrap round in the large one
MCHash(c) == CASE c = c1 -> 3 [] c = c2 -> 7 [] c = c3 -> 7 [] c = c4 -> 6
\* strings and values are interchangeable, and every property is one of safety
MCSymmetry == Permutations(Strings) \cup Permutations(Values)
=============================================================================
