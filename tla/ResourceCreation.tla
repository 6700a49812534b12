-------------------------- MODULE ResourceCreation --------------------------
(***************************************************************************)
(* CreateResourceHandler at READ COMMITTED, and the look-up of a resource  *)
(* by canonical name.  The name is checked by a SELECT that locks nothing, *)
(* and the index on canonical names is not unique.  The tenant and the four*)
(* catalog rows a command names are one reference: a missing one ends the  *)
(* request as not found, an inactive catalog row ends it in a conflict.    *)
(* How a request is answered is HttpRequest's; here it only ends.          *)
(***************************************************************************)
EXTENDS UuidGeneration, FiniteSets

CONSTANTS
  Names,       \* canonical names, compared as written
  References,  \* catalog rows a command may name
  Unknown,     \* the references that name no stored row
  Writers      \* concurrent creation requests (worker threads)

ASSUME CreationConstants ==
  /\ Unknown \subseteq References
  /\ IsFiniteSet(Writers)
  /\ Instants \subseteq Nat \ {0}

VARIABLES
  resources,  \* committed rows of resource
  active,     \* catalog rows whose is_active is true
  phase,      \* where each writer is in the handler
  command,    \* the request a writer is serving
  row         \* the entity the handler constructed, None before

vars == <<resources, active, phase, command, row, uuidVars>>

None == [at |-> -1]

Commands == [name : Names, reference : References]

\* created_at is 0 until the row is flushed.
Rows == [id : Ids, name : Names, reference : References, at : Instants \union {0}]

Phases == {"idle", "catalogs", "name", "construct", "flush", "commit"}

Named(R, name) == {r \in R : r.name = name}

\* get_by_canonical_name: the row with the least id, or None.
ByName(R, name) ==
  IF Named(R, name) = {} THEN None
  ELSE CHOOSE r \in Named(R, name) : \A s \in Named(R, name) : ~IdBefore(s.id, r.id)

Init ==
  /\ resources = {}
  /\ active = References \ Unknown
  /\ phase = [w \in Writers |-> "idle"]
  /\ command = [w \in Writers |-> <<>>]
  /\ row = [w \in Writers |-> None]
  /\ UuidInit

Advance(w, from, to) ==
  /\ phase[w] = from
  /\ phase' = [phase EXCEPT ![w] = to]

\* Mutant: the entity outlives the session.
FinishKeepingRow(w) ==
  /\ phase' = [phase EXCEPT ![w] = "idle"]
  /\ command' = [command EXCEPT ![w] = <<>>]
  /\ UNCHANGED <<active, row, uuidVars>>

Finish(w) ==
  /\ phase' = [phase EXCEPT ![w] = "idle"]
  /\ command' = [command EXCEPT ![w] = <<>>]
  /\ row' = [row EXCEPT ![w] = None]
  /\ UNCHANGED <<active, uuidVars>>

Fail(w) ==
  /\ Finish(w)
  /\ UNCHANGED resources

Begin(w) ==
  /\ Advance(w, "idle", "catalogs")
  /\ \E c \in Commands : command' = [command EXCEPT ![w] = c]
  /\ UNCHANGED <<resources, active, row, uuidVars>>

\* _require_active_catalog
CatalogsActive(w) ==
  /\ Advance(w, "catalogs", "name")
  /\ command[w].reference \in active
  /\ UNCHANGED <<resources, active, command, row, uuidVars>>

CatalogMissing(w) ==
  /\ phase[w] = "catalogs"
  /\ command[w].reference \in Unknown
  /\ Fail(w)

CatalogInactive(w) ==
  /\ phase[w] = "catalogs"
  /\ command[w].reference \notin active \union Unknown
  /\ Fail(w)

\* Mutant: the name is not looked up.
NameUnchecked(w) ==
  /\ Advance(w, "name", "construct")
  /\ UNCHANGED <<resources, active, command, row, uuidVars>>

NameFree(w) ==
  /\ Advance(w, "name", "construct")
  /\ ByName(resources, command[w].name) = None
  /\ UNCHANGED <<resources, active, command, row, uuidVars>>

NameTaken(w) ==
  /\ phase[w] = "name"
  /\ ByName(resources, command[w].name) # None
  /\ Fail(w)

\* The entity gets its id when it is constructed.
Construct(w) ==
  /\ Advance(w, "construct", "flush")
  /\ GenerateUuid7
  /\ row' = [row EXCEPT ![w] =
       [id |-> Generated, name |-> command[w].name, reference |-> command[w].reference, at |-> 0]]
  /\ UNCHANGED <<resources, active, command>>

\* commit flushes first: the row is stamped and inserted, and still invisible.
Flush(w) ==
  /\ Advance(w, "flush", "commit")
  /\ row' = [row EXCEPT ![w].at = clock]
  /\ UNCHANGED <<resources, active, command, uuidVars>>

\* The INSERT meets no unique constraint but that of the id, and commits.
Store(w) == resources' = resources \union {row[w]}

Commit(w) ==
  /\ phase[w] = "commit"
  /\ Store(w)
  /\ Finish(w)

\* The server commits and the connection breaks before the driver hears of it.
CommitUnacknowledged(w) ==
  /\ phase[w] = "commit"
  /\ Store(w)
  /\ Finish(w)

\* The process, the connection or the server's backend is lost before COMMIT.
Lose(w) ==
  /\ phase[w] # "idle"
  /\ Fail(w)

\* Catalog rows are administered outside the application.
Deactivate ==
  /\ \E x \in active : active' = active \ {x}
  /\ UNCHANGED <<resources, phase, command, row, uuidVars>>

\* The clock goes on, or is set back.
Drift ==
  /\ SetClock
  /\ UNCHANGED <<resources, active, phase, command, row>>

Next ==
  \/ Deactivate
  \/ Drift
  \/ \E w \in Writers :
       \/ Begin(w)
       \/ CatalogsActive(w)
       \/ CatalogMissing(w)
       \/ CatalogInactive(w)
       \/ NameFree(w)
       \/ NameTaken(w)
       \/ Construct(w)
       \/ Flush(w)
       \/ Commit(w)
       \/ CommitUnacknowledged(w)
       \/ Lose(w)

Spec == Init /\ [][Next]_vars

-----------------------------------------------------------------------------
(***************************************************************************)
(* Properties                                                              *)
(***************************************************************************)
\* Every variable has its type; a request has an entity from its construction on.
TypeOK ==
  /\ resources \subseteq Rows
  /\ active \subseteq References
  /\ phase \in [Writers -> Phases]
  /\ \A w \in Writers : phase[w] # "idle" => command[w] \in Commands
  /\ \A w \in Writers :
       IF phase[w] \in {"flush", "commit"} THEN row[w] \in Rows ELSE row[w] = None
  /\ clock \in Instants
  /\ lastMs \in Instants \union {-1}
  /\ sequence \in 0..SequenceMax

\* Each entity of the process, stored or under way, has an id of its own: neither calls
\* of overlapping requests, nor a clock set back, nor an exhausted sequence repeats one.
IdsDistinct ==
  /\ \A r, s \in resources : r.id = s.id => r = s
  /\ \A v \in {w \in Writers : row[w] # None} :
       /\ \A r \in resources : r.id # row[v].id
       /\ \A w \in Writers \ {v} : row[w] # None => row[w].id # row[v].id

\* The documented promise that the database settles races over a name: no two
\* resources of the tenant carry one canonical name.
NamesUnique == \A r, s \in resources : r.name = s.name => r = s

\* Duplicates are the work of overlapping requests only: no more resources carry one
\* name than requests can overlap, however often clients repeat unanswered requests.
DuplicatesOverlap ==
  \A name \in Names : Cardinality(Named(resources, name)) <= Cardinality(Writers)
=============================================================================
