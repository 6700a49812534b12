------------------------- MODULE MCStateTransition --------------------------
(***************************************************************************)
(* Model-checking definitions for StateTransition.                         *)
(***************************************************************************)
EXTENDS StateTransition, TLC

\* Writers are interchangeable and so are catalog rows; instants and scores are not.
Symmetry == Permutations(Writers) \union Permutations(Statuses)
=============================================================================
