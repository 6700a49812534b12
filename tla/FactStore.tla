------------------------------ MODULE FactStore -----------------------------
(***************************************************************************)
(* What the assignment commands promise of the facts of a tenant: facts    *)
(* are added one at a time and kept, and no two of them ever claim the     *)
(* same thing.                                                             *)
(***************************************************************************)
CONSTANTS Facts, Clashes(_, _)

VARIABLE facts

StoreInit == facts = {}

Record ==
  \E f \in Facts :
    /\ \A g \in facts : ~Clashes(f, g)
    /\ facts' = facts \union {f}

StoreSpec == StoreInit /\ [][Record]_facts
=============================================================================
