-------------------------- MODULE TransactionScope --------------------------
(***************************************************************************)
(* What a Unit of Work promises: the work done in it is kept as a whole or *)
(* dropped as a whole, the fate is decided once, and nothing done with the *)
(* unit later changes it.                                                  *)
(***************************************************************************)
CONSTANT Units

VARIABLE fate

Fates == {"unused", "open", "kept", "dropped"}

ScopeInit == fate = [u \in Units |-> "unused"]

Open(u) == fate[u] = "unused" /\ fate' = [fate EXCEPT ![u] = "open"]

Keep(u) == fate[u] = "open" /\ fate' = [fate EXCEPT ![u] = "kept"]

\* Several are dropped at once when a process dies.
Drop(S) ==
  /\ \A u \in S : fate[u] = "open"
  /\ fate' = [u \in Units |-> IF u \in S THEN "dropped" ELSE fate[u]]

\* A unit is used once; the next one takes its place.
Renew(u) ==
  /\ fate[u] \in {"kept", "dropped"}
  /\ fate' = [fate EXCEPT ![u] = "unused"]

ScopeNext ==
  \/ \E u \in Units : Open(u) \/ Keep(u) \/ Renew(u)
  \/ \E S \in SUBSET Units : Drop(S)

ScopeSpec == ScopeInit /\ [][ScopeNext]_fate
=============================================================================
