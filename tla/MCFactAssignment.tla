-------------------------- MODULE MCFactAssignment --------------------------
(***************************************************************************)
(* Model-checking definitions for FactAssignment.                          *)
(***************************************************************************)
EXTENDS FactAssignment, TLC

CONSTANTS Stray, OtherType  \* a classification value of a type no request names

Types == [v \in Values |-> IF v = Stray THEN OtherType ELSE CHOOSE g \in Groups : TRUE]

\* Writers are interchangeable; resource ids are ordered, and so values are few.
Symmetry == Permutations(Writers)
=============================================================================
