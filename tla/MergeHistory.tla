---------------------------- MODULE MergeHistory ----------------------------
(***************************************************************************)
(* What the merge write path promises of resource_merge: rows are only ever*)
(* added, one at a time and never changed; a resource is merged away at    *)
(* most once, never into itself, and never so that a lineage of fewer than *)
(* four edges closes.                                                      *)
(***************************************************************************)
EXTENDS Integers

CONSTANT Ids

VARIABLE merges

Joined(a, b) == [source |-> a, target |-> b] \in merges

\* The row s -> t may be recorded in the present lineage.
Recordable(s, t) ==
  /\ s # t
  /\ \A r \in Ids : ~Joined(s, r)
  /\ ~Joined(t, s)
  /\ \A r \in Ids : ~(Joined(t, r) /\ Joined(r, s))

HistoryInit == merges = {}

RecordMerge ==
  \E s, t \in Ids :
    /\ Recordable(s, t)
    /\ merges' = merges \union {[source |-> s, target |-> t]}

HistorySpec == HistoryInit /\ [][RecordMerge]_merges
=============================================================================
