--------------------------- MODULE MCMergeLineage ---------------------------
(***************************************************************************)
(* Model-checking definitions for MergeLineage.                            *)
(***************************************************************************)
EXTENDS MergeLineage, TLC

\* Writers are interchangeable; the order of resource ids is not.
WriterSymmetry == Permutations(Writers)
=============================================================================
