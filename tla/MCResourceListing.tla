-------------------------- MODULE MCResourceListing --------------------------
(***************************************************************************)
(* Model-checking definitions for ResourceListing.                         *)
(***************************************************************************)
EXTENDS ResourceListing, TLC

\* Writers are interchangeable, and so are names: they are only compared for equality.
Symmetry == Permutations(Writers) \union Permutations(Names)
=============================================================================
