--------------------------- MODULE FactAssignment ---------------------------
(***************************************************************************)
(* The six AssignResource...Handler commands at READ COMMITTED.  They share*)
(* one shape: lock the resource row (both endpoint rows of a relationship),*)
(* check the referenced rows, look for a current fact the new one repeats  *)
(* and for a current primary, flush the INSERT against the partial unique  *)
(* indexes, commit.  They differ in what is looked up and in what the      *)
(* indexes cover.  No handler closes a fact, so every fact is current.     *)
(***************************************************************************)
EXTENDS Integers, Sequences, FiniteSets

CONSTANTS
  Ids,        \* resource ids a command may name; < is the order of str(uuid)
  Resources,  \* the ids that name a stored row of the tenant
  Kinds,      \* the kinds of fact that are assigned
  Groups,     \* types, roles and labels
  Values,     \* normalized values, organizations and classification values
  TypeOf,     \* the classification type each classification value belongs to
  Unknown,    \* the references that name no stored row
  Writers,    \* concurrent assignment requests (worker threads)
  NoOne,      \* the owner of an unlocked row
  MaxFacts    \* with so many facts, requests only repeat them (bounds the model)

AllKinds ==
  {"identifier", "alias", "ownership", "classification", "label", "relationship"}

ASSUME AssignmentConstants ==
  /\ Ids \subseteq Nat \ {0}
  /\ Resources \subseteq Ids
  /\ Kinds \subseteq AllKinds
  /\ DOMAIN TypeOf = Values
  /\ Unknown \subseteq Groups \union Values
  /\ IsFiniteSet(Writers)
  /\ NoOne \notin Writers
  /\ MaxFacts \in Nat

VARIABLES
  facts,    \* committed current rows of the fact tables
  active,   \* catalog rows and labels in use whose is_active is true
  phase,    \* where each writer is in the handler
  command,  \* the request a writer is serving
  awaited,  \* the resource rows it has still to lock, in order
  lock,     \* the writer whose transaction holds a resource row FOR UPDATE
  outcome   \* how the writer's last request ended

vars == <<facts, active, phase, command, awaited, lock, outcome>>

\* Kinds with an is_primary column, and kinds whose value is unique in the tenant.
PrimaryKinds == {"identifier", "ownership", "classification"}
TenantWide == {"identifier", "alias"}

\* Labels have no group of their own, the other end of a relationship is a resource.
ValuesOf(kind, resource, group) ==
  CASE kind = "relationship" -> Ids \ {resource}
    [] kind = "label" -> {group}
    [] OTHER -> Values

Facts ==
  {f \in [kind : Kinds, resource : Ids, group : Groups,
          value : Values \union Groups \union Ids, primary : BOOLEAN] :
     /\ f.value \in ValuesOf(f.kind, f.resource, f.group)
     /\ f.primary => f.kind \in PrimaryKinds}

Phases == {"idle", "lock", "references", "duplicate", "primary", "flush", "commit"}

Outcomes == {"none", "assigned", "not_found", "inactive", "conflict", "unknown"}

SameValue(f, g) == f.kind = g.kind /\ f.group = g.group /\ f.value = g.value

SamePrimary(f, g) ==
  /\ f.kind = g.kind /\ f.group = g.group /\ f.resource = g.resource
  /\ f.primary /\ g.primary

\* Mutant: the indexes of identifiers and aliases include the resource.
ClashesPerResource(f, g) ==
  \/ SameValue(f, g) /\ f.resource = g.resource
  \/ SamePrimary(f, g)

\* The unique indexes over the current rows.
Clashes(f, g) ==
  \/ SameValue(f, g) /\ (f.kind \in TenantWide \/ f.resource = g.resource)
  \/ SamePrimary(f, g)

\* Mutant: lock in the order of the command.
CommandOrder(c) ==
  IF c.kind # "relationship" THEN <<c.resource>> ELSE <<c.resource, c.value>>

\* get_for_update calls of the handler, in order (_ordered_resource_ids).
LockOrder(c) ==
  IF c.kind # "relationship" THEN <<c.resource>>
  ELSE IF c.resource < c.value THEN <<c.resource, c.value>>
  ELSE <<c.value, c.resource>>

\* The rows looked up by id, and those of them that must be active.
References(c) ==
  CASE c.kind \in {"ownership", "classification"} -> {c.group, c.value}
    [] c.kind = "alias" -> {}
    [] OTHER -> {c.group}

Managed(c) == IF c.kind = "ownership" THEN {c.group} ELSE References(c)

Init ==
  /\ facts = {}
  /\ active = (UNION {Managed(f) : f \in Facts}) \ Unknown
  /\ phase = [w \in Writers |-> "idle"]
  /\ command = [w \in Writers |-> <<>>]
  /\ awaited = [w \in Writers |-> <<>>]
  /\ lock = [r \in Resources |-> NoOne]
  /\ outcome = [w \in Writers |-> "none"]

(***************************************************************************)
(* Transaction ends                                                        *)
(***************************************************************************)
\* Mutant: the row locks outlive the transaction.
ReleaseNothing(w) == UNCHANGED lock

Release(w) == lock' = [r \in Resources |-> IF lock[r] = w THEN NoOne ELSE lock[r]]

Finish(w, result) ==
  /\ phase' = [phase EXCEPT ![w] = "idle"]
  /\ command' = [command EXCEPT ![w] = <<>>]
  /\ awaited' = [awaited EXCEPT ![w] = <<>>]
  /\ outcome' = [outcome EXCEPT ![w] = result]
  /\ Release(w)
  /\ UNCHANGED active

Fail(w, result) ==
  /\ Finish(w, result)
  /\ UNCHANGED facts

Advance(w, from, to) ==
  /\ phase[w] = from
  /\ phase' = [phase EXCEPT ![w] = to]
  /\ UNCHANGED <<facts, active, outcome>>

(***************************************************************************)
(* The handlers                                                            *)
(***************************************************************************)
Begin(w) ==
  /\ phase[w] = "idle"
  /\ phase' = [phase EXCEPT ![w] = "lock"]
  /\ outcome' = [outcome EXCEPT ![w] = "none"]
  /\ \E c \in Facts :
       /\ Cardinality(facts) < MaxFacts \/ c \in facts
       /\ command' = [command EXCEPT ![w] = c]
       /\ awaited' = [awaited EXCEPT ![w] = LockOrder(c)]
  /\ UNCHANGED <<facts, active, lock>>

\* Mutant: a plain SELECT.
ReadNext(w) ==
  /\ Advance(w, "lock", IF Len(awaited[w]) = 1 THEN "references" ELSE "lock")
  /\ Head(awaited[w]) \in Resources
  /\ awaited' = [awaited EXCEPT ![w] = Tail(@)]
  /\ UNCHANGED <<command, lock>>

LockNext(w) ==
  /\ Advance(w, "lock", IF Len(awaited[w]) = 1 THEN "references" ELSE "lock")
  /\ LET r == Head(awaited[w]) IN
       /\ r \in Resources
       /\ lock[r] = NoOne
       /\ lock' = [lock EXCEPT ![r] = w]
  /\ awaited' = [awaited EXCEPT ![w] = Tail(@)]
  /\ UNCHANGED command

ResourceMissing(w) ==
  /\ phase[w] = "lock"
  /\ Head(awaited[w]) \notin Resources
  /\ Fail(w, "not_found")

\* The look-ups are statements of their own.  Rows are only ever deactivated here,
\* so reading them one by one passes exactly when reading them at once would have.
CheckReferences(w) ==
  /\ Advance(w, "references", "duplicate")
  /\ References(command[w]) \intersect Unknown = {}
  /\ Managed(command[w]) \subseteq active
  /\ command[w].kind = "classification" => TypeOf[command[w].value] = command[w].group
  /\ UNCHANGED <<command, awaited, lock>>

ReferenceMissing(w) ==
  /\ phase[w] = "references"
  /\ References(command[w]) \intersect Unknown # {}
  /\ Fail(w, "not_found")

ReferenceInactive(w) ==
  /\ phase[w] = "references"
  /\ \E x \in Managed(command[w]) : x \notin active /\ x \notin Unknown
  /\ Fail(w, "inactive")

ValueOfOtherType(w) ==
  /\ phase[w] = "references"
  /\ command[w].kind = "classification"
  /\ References(command[w]) \subseteq active
  /\ TypeOf[command[w].value] # command[w].group
  /\ Fail(w, "conflict")

\* find_current..., find_resource_by_alias: an identifier another resource holds is
\* left to the unique index, an alias another resource holds is refused here.
Repeats(c) ==
  \E f \in facts : SameValue(f, c) /\ (c.kind = "alias" \/ f.resource = c.resource)

CheckDuplicate(w) ==
  /\ Advance(w, "duplicate", IF command[w].primary THEN "primary" ELSE "flush")
  /\ ~Repeats(command[w])
  /\ UNCHANGED <<command, awaited, lock>>

Duplicate(w) ==
  /\ phase[w] = "duplicate"
  /\ Repeats(command[w])
  /\ Fail(w, "conflict")

\* get_current_primary
CurrentPrimary(c) == {f \in facts : SamePrimary(f, c)}

CheckPrimary(w) ==
  /\ Advance(w, "primary", "flush")
  /\ CurrentPrimary(command[w]) = {}
  /\ UNCHANGED <<command, awaited, lock>>

PrimaryExists(w) ==
  /\ phase[w] = "primary"
  /\ CurrentPrimary(command[w]) # {}
  /\ Fail(w, "conflict")

\* Another transaction's uncommitted row with an equal key: the INSERT waits for it.
InFlightClash(v, w) ==
  v # w /\ phase[v] = "commit" /\ Clashes(command[v], command[w])

\* Mutant: an INSERT that does not wait for an uncommitted row with an equal key.
FlushAtOnce(w) ==
  /\ Advance(w, "flush", "commit")
  /\ \A f \in facts : ~Clashes(f, command[w])
  /\ UNCHANGED <<command, awaited, lock>>

Flush(w) ==
  /\ Advance(w, "flush", "commit")
  /\ \A v \in Writers : ~InFlightClash(v, w)
  /\ \A f \in facts : ~Clashes(f, command[w])
  /\ UNCHANGED <<command, awaited, lock>>

\* SQLSTATE 23505 of a mapped constraint becomes ConflictError.
InsertRejected(w) ==
  /\ phase[w] = "flush"
  /\ \A v \in Writers : ~InFlightClash(v, w)
  /\ \E f \in facts : Clashes(f, command[w])
  /\ Fail(w, "conflict")

Store(w) == facts' = facts \union {command[w]}

Commit(w) ==
  /\ phase[w] = "commit"
  /\ Store(w)
  /\ Finish(w, "assigned")

\* The server commits and the connection breaks before the driver hears of it.
CommitUnacknowledged(w) ==
  /\ phase[w] = "commit"
  /\ Store(w)
  /\ Finish(w, "unknown")

\* The process, the connection or the server's backend is lost before COMMIT.
Lose(w) ==
  /\ phase[w] # "idle"
  /\ Fail(w, "unknown")

\* Catalog rows and labels are administered outside the application.
Deactivate ==
  /\ \E x \in active : active' = active \ {x}
  /\ UNCHANGED <<facts, phase, command, awaited, lock, outcome>>

Next ==
  \/ Deactivate
  \/ \E w \in Writers :
       \/ Begin(w)
       \/ LockNext(w)
       \/ ResourceMissing(w)
       \/ CheckReferences(w)
       \/ ReferenceMissing(w)
       \/ ReferenceInactive(w)
       \/ ValueOfOtherType(w)
       \/ CheckDuplicate(w)
       \/ Duplicate(w)
       \/ CheckPrimary(w)
       \/ PrimaryExists(w)
       \/ Flush(w)
       \/ InsertRejected(w)
       \/ Commit(w)
       \/ CommitUnacknowledged(w)
       \/ Lose(w)

Spec == Init /\ [][Next]_vars

\* A thread that is not waiting runs on.  A request that waits for a row, or for the
\* transaction that inserted an equal key, is woken when that transaction ends and in
\* the long run gets its turn.  Nothing forces new requests or losses.
Progress(w) ==
  \/ ResourceMissing(w)
  \/ CheckReferences(w)
  \/ ReferenceMissing(w)
  \/ ReferenceInactive(w)
  \/ ValueOfOtherType(w)
  \/ CheckDuplicate(w)
  \/ Duplicate(w)
  \/ CheckPrimary(w)
  \/ PrimaryExists(w)
  \/ Commit(w)

Fairness ==
  \A w \in Writers :
    /\ WF_vars(Progress(w))
    /\ SF_vars(LockNext(w))
    /\ SF_vars(Flush(w) \/ InsertRejected(w))

FairSpec == Spec /\ Fairness

-----------------------------------------------------------------------------
(***************************************************************************)
(* Properties                                                              *)
(***************************************************************************)
TypeOK ==
  /\ facts \subseteq Facts
  /\ active \subseteq Groups \union Values
  /\ phase \in [Writers -> Phases]
  /\ \A w \in Writers : phase[w] # "idle" => command[w] \in Facts
  /\ \A w \in Writers :
       IF phase[w] = "lock" THEN awaited[w] \in Seq(Ids) /\ awaited[w] # <<>>
                            ELSE awaited[w] = <<>>
  /\ lock \in [Resources -> Writers \union {NoOne}]
  /\ outcome \in [Writers -> Outcomes]

\* The handlers and the indexes implement the abstract store: facts are kept, and no
\* two of them claim the same identifier or alias in the tenant, the same fact of a
\* resource, or the primary place of one resource and group.
Promise == INSTANCE FactStore

ImplementsFactStore == Promise!StoreSpec

\* What a handler found out under the row lock stays true until it commits: no fact
\* of the same resource repeats the new one or has taken its primary place since.
\* Only a tenant-wide value held by another resource is left for the index to catch.
ChecksStillHold ==
  \A w \in Writers :
    phase[w] \in {"flush", "commit"} =>
      LET c == command[w] IN
        \A f \in facts : Clashes(f, c) => c.kind \in TenantWide /\ f.resource # c.resource

\* A request waits for a row another holds, or for the fate of a row another inserted.
\* However locks and insertions mix, no set of requests waits in a circle.
Waits(v, w) ==
  \/ /\ phase[v] = "lock"
     /\ Head(awaited[v]) \in {r \in Resources : lock[r] = w}
  \/ phase[v] = "flush" /\ InFlightClash(w, v)

NoDeadlock ==
  \A S \in (SUBSET Writers) \ {{}} : \E v \in S : \A w \in S : ~Waits(v, w)

\* Every assignment request ends: its fact is recorded, refused, or lost.
RequestsEnd == \A w \in Writers : phase[w] # "idle" ~> phase[w] = "idle"

\* FindResourceByIdentifier and FindResourceByAlias: a value that resolves to a
\* resource resolves to that one resource for good, whatever is assigned meanwhile.
ResolvesTo(F, kind, group, value) ==
  {f.resource : f \in {g \in F : g.kind = kind /\ g.group = group /\ g.value = value}}

IdentityIsStable ==
  [][\A kind \in Kinds \intersect TenantWide, group \in Groups, value \in Values :
       LET before == ResolvesTo(facts, kind, group, value)
           after == ResolvesTo(facts', kind, group, value)
       IN IF before # {} THEN after = before
          ELSE \A r, s \in after : r = s]_vars
=============================================================================
