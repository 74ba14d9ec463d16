------------------------------ MODULE FiniteMap ------------------------------
(***************************************************************************)
(* What a TSHashMap promises: a finite map from the contents of strings to  *)
(* values, to which associations are added or in which they are replaced.   *)
(* The runtime has no operation that removes one.                           *)
(***************************************************************************)
CONSTANTS Contents, Values, Absent

VARIABLE assoc

Init == assoc = [c \in Contents |-> Absent]

Put(c, v) == assoc' = [assoc EXCEPT ![c] = v]

Next == \E c \in Contents, v \in Values : Put(c, v)

Spec == Init /\ [][Next]_assoc
=============================================================================
