---------------------------- MODULE MergeLineage ----------------------------
(***************************************************************************)
(* Concurrent execution of MergeResourceHandler against PostgreSQL at READ *)
(* COMMITTED.  Every writer is one request at a time: a Unit of Work that  *)
(* locks the two endpoint rows in UUID-string order, looks for an outgoing *)
(* merge of the source, flushes the INSERT (the cycle trigger and then the *)
(* unique constraint), and commits.  The rows of one tenant are modelled:  *)
(* every statement of the handler and of the trigger carries the tenant id.*)
(***************************************************************************)
EXTENDS Integers, FiniteSets

CONSTANTS
  Ids,           \* resource ids a command may name; < is the order of str(uuid)
  Resources,     \* the ids that name a stored row of the tenant
  Writers,       \* concurrent merge requests (worker threads)
  TriggerDepth,  \* the bound on lineage.depth in the trigger (100 in the code)
  NoOne          \* the owner of an unlocked row

ASSUME MergeConstants ==
  /\ Ids \subseteq Nat \ {0}
  /\ Resources \subseteq Ids
  /\ TriggerDepth \in Nat \ {0}
  /\ IsFiniteSet(Writers)
  /\ NoOne \notin Writers

VARIABLES
  merges,   \* committed rows of resource_merge
  phase,    \* where each writer is in the handler
  command,  \* the endpoints of the request a writer is serving
  lock,     \* the writer whose transaction holds a resource row FOR UPDATE
  outcome   \* how the writer's last request ended

vars == <<merges, phase, command, lock, outcome>>

Edge == [source : Ids, target : Ids]

Phases == {"idle", "lock_first", "lock_second", "check", "flush", "commit"}

Outcomes == {"none", "merged", "not_found", "conflict", "cycle_rejected", "unknown"}

\* A command that passed _validate_merge_resource_command.
ValidCommand == {e \in Edge : e.source # e.target}

NoCommand == [source |-> 0, target |-> 0]

(***************************************************************************)
(* _ordered_resource_ids                                                   *)
(***************************************************************************)
\* Mutant: lock in the order of the command.
CommandOrder(e) == <<e.source, e.target>>

OrderedResourceIds(e) ==
  IF e.source < e.target THEN <<e.source, e.target>> ELSE <<e.target, e.source>>

FirstId(e) == OrderedResourceIds(e)[1]
SecondId(e) == OrderedResourceIds(e)[2]

(***************************************************************************)
(* The recursive lineage of prevent_resource_merge_cycle: b is reached from*)
(* a along at most n committed edges.  The anchor row has depth 1 and the  *)
(* recursion stops at TriggerDepth, so the trigger follows TriggerDepth - 1*)
(* edges.                                                                  *)
(***************************************************************************)
Linked(E, a, b) == [source |-> a, target |-> b] \in E

PathOfLength(E, a, b, k) ==
  \E p \in [0..k -> Ids] :
    /\ p[0] = a
    /\ p[k] = b
    /\ \A i \in 0..(k - 1) : Linked(E, p[i], p[i + 1])

Reaches(E, a, b, n) == \E k \in 0..n : PathOfLength(E, a, b, k)

\* Mutants: only the direct cycle is looked for; the recursion stops one row early.
DirectCycleOnly(e) == Linked(merges, e.target, e.source)
OneRowShort(e) == Reaches(merges, e.target, e.source, TriggerDepth - 2)

TriggerRejects(e) == Reaches(merges, e.target, e.source, TriggerDepth - 1)

OutgoingMerge(E, r) == {e \in E : e.source = r}

(***************************************************************************)
(* Transaction ends                                                        *)
(***************************************************************************)
Held(w) == {r \in Resources : lock[r] = w}

\* Mutant: the row locks outlive the transaction.
ReleaseNothing(w) == UNCHANGED lock

Release(w) == lock' = [r \in Resources |-> IF lock[r] = w THEN NoOne ELSE lock[r]]

\* Leaving the handler, normally or by an exception: the Unit of Work closes.
Finish(w, result) ==
  /\ phase' = [phase EXCEPT ![w] = "idle"]
  /\ command' = [command EXCEPT ![w] = NoCommand]
  /\ outcome' = [outcome EXCEPT ![w] = result]
  /\ Release(w)

\* An exception before the commit: __exit__ rolls back and closes.
Fail(w, result) ==
  /\ Finish(w, result)
  /\ UNCHANGED merges

(***************************************************************************)
(* The handler                                                             *)
(***************************************************************************)
Init ==
  /\ merges = {}
  /\ phase = [w \in Writers |-> "idle"]
  /\ command = [w \in Writers |-> NoCommand]
  /\ lock = [r \in Resources |-> NoOne]
  /\ outcome = [w \in Writers |-> "none"]

Begin(w) ==
  /\ phase[w] = "idle"
  /\ \E e \in ValidCommand : command' = [command EXCEPT ![w] = e]
  /\ phase' = [phase EXCEPT ![w] = "lock_first"]
  /\ outcome' = [outcome EXCEPT ![w] = "none"]
  /\ UNCHANGED <<merges, lock>>

\* Mutant: a plain SELECT.
AcquireWithoutLock(w, r, next) ==
  /\ r \in Resources
  /\ phase' = [phase EXCEPT ![w] = next]
  /\ UNCHANGED <<merges, command, lock, outcome>>

\* SELECT ... FOR UPDATE of one endpoint; a row another transaction holds blocks.
Acquire(w, r, next) ==
  /\ r \in Resources
  /\ lock[r] = NoOne
  /\ lock' = [lock EXCEPT ![r] = w]
  /\ phase' = [phase EXCEPT ![w] = next]
  /\ UNCHANGED <<merges, command, outcome>>

LockFirst(w) ==
  /\ phase[w] = "lock_first"
  /\ Acquire(w, FirstId(command[w]), "lock_second")

\* Mutant: only the first endpoint is locked.
ReadSecond(w) ==
  /\ phase[w] = "lock_second"
  /\ AcquireWithoutLock(w, SecondId(command[w]), "check")

LockSecond(w) ==
  /\ phase[w] = "lock_second"
  /\ Acquire(w, SecondId(command[w]), "check")

\* get_for_update found no row: EntityNotFoundError, nothing was locked by it.
EndpointMissing(w) ==
  /\ \/ phase[w] = "lock_first" /\ FirstId(command[w]) \notin Resources
     \/ phase[w] = "lock_second" /\ SecondId(command[w]) \notin Resources
  /\ Fail(w, "not_found")

CheckOutgoing(w) ==
  /\ phase[w] = "check"
  /\ OutgoingMerge(merges, command[w].source) = {}
  /\ phase' = [phase EXCEPT ![w] = "flush"]
  /\ UNCHANGED <<merges, command, lock, outcome>>

\* Mutant: a repeated request is answered as if it had merged.
AlreadyMergedAccepted(w) ==
  /\ phase[w] = "check"
  /\ OutgoingMerge(merges, command[w].source) # {}
  /\ Fail(w, "merged")

AlreadyMerged(w) ==
  /\ phase[w] = "check"
  /\ OutgoingMerge(merges, command[w].source) # {}
  /\ Fail(w, "conflict")

\* Another transaction's uncommitted row with the same unique key: the INSERT waits.
InFlightSource(w) ==
  \E v \in Writers \ {w} :
    phase[v] = "commit" /\ command[v].source = command[w].source

\* uq_resource_merge_tenant_source_resource_id
DuplicateSource(e) == \E m \in merges : m.source = e.source

\* The INSERT of session.commit() passes the trigger and the unique constraint.
Flush(w) ==
  /\ phase[w] = "flush"
  /\ ~InFlightSource(w)
  /\ ~TriggerRejects(command[w])
  /\ ~DuplicateSource(command[w])
  /\ phase' = [phase EXCEPT ![w] = "commit"]
  /\ UNCHANGED <<merges, command, lock, outcome>>

\* The trigger fires before the index is consulted.  Its SQLSTATE 23514 is not
\* translated, so the raw error leaves the handler; 23505 becomes ConflictError.
InsertRejected(w) ==
  /\ phase[w] = "flush"
  /\ ~InFlightSource(w)
  /\ TriggerRejects(command[w]) \/ DuplicateSource(command[w])
  /\ Fail(w, IF TriggerRejects(command[w]) THEN "cycle_rejected" ELSE "conflict")

\* COMMIT: the row becomes visible and the row locks are released.
Store(w) == merges' = merges \union {command[w]}

Commit(w) ==
  /\ phase[w] = "commit"
  /\ Store(w)
  /\ Finish(w, "merged")

\* The server commits and the connection breaks before the driver hears of it.
CommitUnacknowledged(w) ==
  /\ phase[w] = "commit"
  /\ Store(w)
  /\ Finish(w, "unknown")

\* The process, the connection or the server's backend is lost before COMMIT.
Lose(w) ==
  /\ phase[w] # "idle"
  /\ Fail(w, "unknown")

Next ==
  \E w \in Writers :
    \/ Begin(w)
    \/ LockFirst(w)
    \/ LockSecond(w)
    \/ EndpointMissing(w)
    \/ CheckOutgoing(w)
    \/ AlreadyMerged(w)
    \/ Flush(w)
    \/ InsertRejected(w)
    \/ Commit(w)
    \/ CommitUnacknowledged(w)
    \/ Lose(w)

Spec == Init /\ [][Next]_vars

\* A thread that is not waiting runs on; nothing forces new requests or losses.
Step(w) ==
  \/ EndpointMissing(w)
  \/ CheckOutgoing(w)
  \/ AlreadyMerged(w)
  \/ Flush(w)
  \/ InsertRejected(w)
  \/ Commit(w)

\* Row locks are queued: a waiter the row is free for again and again gets it.
Fairness ==
  \A w \in Writers :
    /\ WF_vars(Step(w))
    /\ SF_vars(LockFirst(w))
    /\ SF_vars(LockSecond(w))

FairSpec == Spec /\ Fairness

-----------------------------------------------------------------------------
(***************************************************************************)
(* Properties                                                              *)
(***************************************************************************)
TypeOK ==
  /\ merges \subseteq Edge
  /\ phase \in [Writers -> Phases]
  /\ command \in [Writers -> ValidCommand \union {NoCommand}]
  /\ \A w \in Writers : phase[w] = "idle" <=> command[w] = NoCommand
  /\ lock \in [Resources -> Writers \union {NoOne}]
  /\ outcome \in [Writers -> Outcomes]

\* The lineage holds no self-merge, no two resources merged into each other and
\* no cycle of three, however many MergeResource requests overlap: any two edges
\* of such a cycle share an endpoint, so their transactions are serialized by
\* the row locks and the trigger of the later one reads the earlier one's row.
ShortCycleFree ==
  /\ \A a \in Ids : ~Linked(merges, a, a)
  /\ \A a, b \in Ids : ~(Linked(merges, a, b) /\ Linked(merges, b, a))
  /\ \A a, b, c \in Ids :
       ~(Linked(merges, a, b) /\ Linked(merges, b, c) /\ Linked(merges, c, a))

\* The handler's look-up of the source's outgoing merge and the trigger's look-up
\* of short ways back are still true when the transaction commits, although both
\* were read by earlier statements and other transactions committed in between.
ChecksStillHold ==
  \A w \in Writers :
    /\ phase[w] \in {"flush", "commit"} => OutgoingMerge(merges, command[w].source) = {}
    /\ phase[w] = "commit" =>
         LET e == command[w] IN
           /\ ~Linked(merges, e.target, e.source)
           /\ \A c \in Ids : ~(Linked(merges, e.target, c) /\ Linked(merges, c, e.source))

\* Committed merges are never changed or removed, a commit adds one row, and a
\* request is answered with success exactly when its own row was added by it, so
\* a request repeated after a lost answer is not reported merged a second time.
MergesRecordedOnce ==
  [][/\ merges \subseteq merges'
     /\ \A w \in Writers :
          outcome'[w] = "merged" /\ outcome[w] # "merged" =>
            /\ OutgoingMerge(merges, command[w].source) = {}
            /\ merges' = merges \union {command[w]}]_vars

\* The handler and the trigger together implement the abstract merge history.
History == INSTANCE MergeHistory

ImplementsHistory == History!HistorySpec

\* Each row lock belongs to one open transaction and each request waits for the
\* endpoint with the greater id while it holds the lesser: no set of requests
\* waits in a circle, each for a row another of them holds.
Waits(v, w) ==
  \/ phase[v] = "lock_first" /\ FirstId(command[v]) \in Held(w)
  \/ phase[v] = "lock_second" /\ SecondId(command[v]) \in Held(w)

NoDeadlock ==
  \A S \in (SUBSET Writers) \ {{}} : \E v \in S : \A w \in S : ~Waits(v, w)

\* Every merge request ends: it is recorded, refused, or lost.
RequestsEnd == \A w \in Writers : phase[w] # "idle" ~> phase[w] = "idle"

\* What the trigger achieves when merges do not overlap: every cycle of the lineage
\* has more edges than the trigger's bound, whatever the order of the merges.
CyclesExceedBound ==
  \A r \in Ids, k \in 1..TriggerDepth : ~PathOfLength(merges, r, r, k)

\* The documented promise: merge lineage has no cycle of any length.  A finite
\* graph has a cycle exactly when, in some set of nodes, each has an edge into the set.
Acyclic ==
  \A S \in (SUBSET Ids) \ {{}} : \E a \in S : \A b \in S : ~Linked(merges, a, b)
=============================================================================
