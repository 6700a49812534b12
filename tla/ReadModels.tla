----------------------------- MODULE ReadModels -----------------------------
(***************************************************************************)
(* The read handlers over ResourceQueryService: details (by id or by name),*)
(* history, relationships, and the look-ups by id, identifier and alias.   *)
(* A read is a few SELECTs at READ COMMITTED, each with a snapshot of its  *)
(* own, and takes no lock.  Beside it the write path goes on, taken by the *)
(* abstract specifications its modules implement: what other transactions  *)
(* can see of a transition, an assignment or a merge is its commit.        *)
(***************************************************************************)
EXTENDS Integers, Sequences, FiniteSets, FiniteSetsExt

CONSTANTS
  Ids,        \* resource ids a query may name
  Resources,  \* the ids that name a stored row of the tenant
  States,     \* what a state row says of a resource
  Times,      \* instants of transitions
  Facts,      \* current facts that may be assigned: [kind, resource, value, primary]
  Null,       \* no row of an outer join
  MaxWrites   \* bound on the commits beside the reads

ASSUME ReadConstants ==
  /\ Resources \subseteq Ids
  /\ Times \subseteq Nat
  /\ Null \notin Resources
  /\ Null \notin Facts
  /\ Null \notin [state : States, at : Times]
  /\ \A f \in Facts :
       /\ f = [kind |-> f.kind, resource |-> f.resource, value |-> f.value, primary |-> f.primary]
       /\ f.primary \in BOOLEAN
       \* The foreign keys of each kind of fact.
       /\ f.resource \in Resources
       /\ f.kind = "relationship" => f.value \in Resources
  /\ MaxWrites \in Nat

VARIABLES
  timeline,  \* committed resource_state rows of each resource, in order of time
  shown,     \* the snapshot on each resource row
  facts,     \* committed current facts
  merges,    \* committed resource_merge rows
  query,     \* the read a client is waiting for, and the statements left of it
  found,     \* the rows its statements have returned
  earlier    \* the query the client made before, with the body of its response

rows == <<timeline, shown, facts, merges>>
vars == <<rows, query, found, earlier>>

\* Mutant: no unique index on the current primary.
ClashesByValue(f, g) ==
  f.kind = g.kind /\ f.value = g.value /\ (f.resource = g.resource \/ f.kind # "ownership")

\* The unique indexes over the current facts, one group of each kind.
Clashes(f, g) ==
  /\ f.kind = g.kind
  /\ \/ f.value = g.value /\ (f.resource = g.resource \/ f.kind \in {"identifier", "alias"})
     \/ f.primary /\ g.primary /\ f.resource = g.resource

Transitions == INSTANCE StateTimeline
Assignments == INSTANCE FactStore
Lineage == INSTANCE MergeHistory WITH Ids <- Resources

(***************************************************************************)
(* The rows a statement returns                                            *)
(***************************************************************************)
\* A state row is open until the next one begins.
CurrentState(id) ==
  IF timeline[id] = <<>> THEN {} ELSE {Transitions!Latest(timeline[id])}

Owned(f) == f.kind = "ownership" /\ f.primary

PrimaryOwner(id) == {f.value : f \in {g \in facts : Owned(g) /\ g.resource = id}}

OutgoingMerge(id) == {m \in merges : m.source = id}

\* An outer join keeps the row on its left when it has no match.
Outer(S) == IF S = {} THEN {Null} ELSE S

CoreRows(id) ==
  [state : Outer(CurrentState(id)), owner : Outer(PrimaryOwner(id)), merge : Outer(OutgoingMerge(id))]

\* The columns of a fact that a list of a resource shows.
Row(f) == [value |-> f.value, primary |-> f.primary]

RowsOf(kind, id) == {Row(f) : f \in {g \in facts : g.kind = kind /\ g.resource = id}}

CurrentOwnership(id) == RowsOf("ownership", id)
CurrentLabels(id) == RowsOf("label", id)
CurrentClassifications(id) == RowsOf("classification", id)
CurrentIdentifiers(id) == RowsOf("identifier", id)
Aliases(id) == RowsOf("alias", id)

\* No command closes a fact, so what is stored of one is what is current.
OwnershipHistory(id) == RowsOf("ownership", id)
LabelHistory(id) == RowsOf("label", id)
ClassificationHistory(id) == RowsOf("classification", id)
IdentifierHistory(id) == RowsOf("identifier", id)

\* Mutant: the open row is left out.
ClosedIntervals(id) ==
  [i \in 1..Len(timeline[id]) - 1 |->
     [state |-> timeline[id][i].state, from |-> timeline[id][i].at, to |-> timeline[id][i + 1].at]]

\* Every state row of the resource, each closed by the next.
StateHistory(id) ==
  [i \in DOMAIN timeline[id] |->
     [state |-> timeline[id][i].state, from |-> timeline[id][i].at,
      to |-> IF i = Len(timeline[id]) THEN Null ELSE timeline[id][i + 1].at]]

\* A row that starts and ends elsewhere would be an AssertionError.
RelationshipDirection(f, id) ==
  CASE f.resource = id -> "outgoing"
    [] f.value = id -> "incoming"

\* Mutant: the relationships that end at the resource are left out.
OutgoingRelationships(id) ==
  {[source |-> id, target |-> f.value, direction |-> "outgoing"] :
     f \in {g \in facts : g.kind = "relationship" /\ g.resource = id}}

Relationships(id) ==
  {[source |-> f.resource, target |-> f.value, direction |-> RelationshipDirection(f, id)] :
     f \in {g \in facts : g.kind = "relationship" /\ id \in {g.resource, g.value}}}

\* What names a resource exactly, with the resource it names.
Named(kind, value) ==
  {[resource |-> f.resource, value |-> value, primary |-> f.primary] :
     f \in {g \in facts : g.kind = kind /\ g.value = value}}

NamedByIdentifier(value) == Named("identifier", value)
NamedByAlias(value) == Named("alias", value)

(***************************************************************************)
(* A read                                                                  *)
(***************************************************************************)
\* Mutant: the lists of the projection are read before its core.
DetailsCoreLast == <<"identifier", "ownership", "classification", "label", "alias", "core">>

DetailsStatements == <<"core", "identifier", "ownership", "classification", "label", "alias">>

HistoryStatements ==
  <<"exists", "states", "ownership", "label", "classification", "identifier">>

\* By name, the id is looked up and the details of it are read.
StatementsOf(what) ==
  CASE what = "details" -> DetailsStatements
    [] what = "name" -> <<"exists">> \o DetailsStatements
    [] what = "history" -> HistoryStatements
    [] what = "relationships" -> <<"exists", "relationships">>
    [] what \in {"identifier", "alias"} -> <<"named">>
    [] what = "id" -> <<"exists">>

Queries == {"id", "details", "name", "history", "relationships", "identifier", "alias"}

Keys(what) ==
  IF what \in {"identifier", "alias"} THEN {f.value : f \in {g \in Facts : g.kind = what}}
  ELSE Ids

Idle == [what |-> "none", key |-> Null, left |-> <<>>]
Nobody == [what |-> "none", key |-> Null, body |-> Null]
NoRows == <<>>

Init ==
  /\ shown \in [Resources -> States]
  /\ timeline = [r \in Resources |-> <<>>]
  /\ facts = {}
  /\ merges = {}
  /\ query = Idle
  /\ found = NoRows
  /\ earlier = Nobody

Ask ==
  /\ query = Idle
  /\ \E what \in Queries : \E key \in Keys(what) :
       query' = [what |-> what, key |-> key, left |-> StatementsOf(what)]
  /\ UNCHANGED <<rows, found, earlier>>

\* The next statement of the read returns the rows.
Execute(statement, result) ==
  /\ query.left # <<>>
  /\ Head(query.left) = statement
  /\ query' = [query EXCEPT !.left = Tail(@)]
  /\ found' = Append(found, result)
  /\ UNCHANGED <<rows, earlier>>

\* Two rows would end the request in MultipleResultsFound.
OneOf(statement, S) == S # {} /\ \E row \in S : Execute(statement, row)

\* Mutant: the row is looked up by its id alone, whatever its tenant.
ReadExistsAnywhere == Execute("exists", query.key)

ReadExists == query.key \in Resources /\ Execute("exists", query.key)
ReadCore == query.key \in Resources /\ OneOf("core", CoreRows(query.key))
ReadStates == Execute("states", StateHistory(query.key))
ReadOwnership ==
  Execute("ownership",
    IF query.what = "history" THEN OwnershipHistory(query.key) ELSE CurrentOwnership(query.key))
ReadLabels ==
  Execute("label",
    IF query.what = "history" THEN LabelHistory(query.key) ELSE CurrentLabels(query.key))
ReadClassifications ==
  Execute("classification",
    IF query.what = "history" THEN ClassificationHistory(query.key)
    ELSE CurrentClassifications(query.key))
ReadIdentifiers ==
  Execute("identifier",
    IF query.what = "history" THEN IdentifierHistory(query.key) ELSE CurrentIdentifiers(query.key))
ReadAliases == Execute("alias", Aliases(query.key))
ReadRelationships == Execute("relationships", Relationships(query.key))
FindByIdentifier ==
  query.what = "identifier" /\ OneOf("named", NamedByIdentifier(query.key))
FindByAlias ==
  query.what = "alias" /\ OneOf("named", NamedByAlias(query.key))

Missing ==
  \/ Head(query.left) \in {"core", "exists"} /\ query.key \notin Resources
  \/ Head(query.left) = "named" /\ Named(query.what, query.key) = {}

\* A 404 tells the client nothing it could compare.
NotFound ==
  /\ query.left # <<>>
  /\ Missing
  /\ query' = Idle
  /\ found' = NoRows
  /\ UNCHANGED <<rows, earlier>>

(***************************************************************************)
(* The response: projections become a result, the result a body            *)
(***************************************************************************)
\* What the statement of this name returned.
Returned(statement) ==
  found[CHOOSE i \in 1..Len(found) : StatementsOf(query.what)[i] = statement]

DetailsProjection ==
  [core |-> Returned("core"), organization |-> Returned("core").owner,
   lists |-> [kind \in {"identifier", "ownership", "classification", "label", "alias"} |->
                Returned(kind)]]

\* The primary ownership of the projection leaves no trace but the organization.
DetailsResult(p) ==
  [state |-> p.core.state, organization |-> p.organization, merge |-> p.core.merge,
   lists |-> p.lists]

HistoryResult ==
  [states |-> Returned("states"),
   lists |-> [kind \in {"ownership", "label", "classification", "identifier"} |->
                Returned(kind)]]

\* Each with the direction it has from the resource asked about.
RelationshipsResult == Returned("relationships")

Respond(body) ==
  /\ earlier' = [what |-> query.what, key |-> query.key, body |-> body]
  /\ query' = Idle
  /\ found' = NoRows
  /\ UNCHANGED rows

Complete(whats) == query.what \in whats /\ query.left = <<>>

RespondDetails == Complete({"details", "name"}) /\ Respond(DetailsResult(DetailsProjection))
RespondHistory == Complete({"history"}) /\ Respond(HistoryResult)
RespondRelationships == Complete({"relationships"}) /\ Respond(RelationshipsResult)
RespondIdentifier == Complete({"identifier"}) /\ Respond(Returned("named"))
RespondAlias == Complete({"alias"}) /\ Respond(Returned("named"))
RespondId == Complete({"id"}) /\ Respond(Returned("exists"))

(***************************************************************************)
(* The write path                                                          *)
(***************************************************************************)
Bounded ==
  MapThenSumSet(LAMBDA r : Len(timeline[r]), Resources) + Cardinality(facts) + Cardinality(merges)
    < MaxWrites

Transition ==
  /\ Bounded
  /\ Transitions!TimelineNext
  /\ UNCHANGED <<facts, merges, query, found, earlier>>

Assign ==
  /\ Bounded
  /\ Assignments!Record
  /\ UNCHANGED <<timeline, shown, merges, query, found, earlier>>

Merge ==
  /\ Bounded
  /\ Lineage!RecordMerge
  /\ UNCHANGED <<timeline, shown, facts, query, found, earlier>>

Next ==
  \/ Ask
  \/ ReadExists \/ ReadCore \/ ReadStates
  \/ ReadOwnership \/ ReadLabels \/ ReadClassifications \/ ReadIdentifiers \/ ReadAliases
  \/ ReadRelationships
  \/ FindByIdentifier \/ FindByAlias
  \/ NotFound
  \/ RespondDetails \/ RespondHistory \/ RespondRelationships
  \/ RespondIdentifier \/ RespondAlias \/ RespondId
  \/ Transition \/ Assign \/ Merge

Spec == Init /\ [][Next]_vars

-----------------------------------------------------------------------------
(***************************************************************************)
(* Properties                                                              *)
(***************************************************************************)
\* The bodies, by the response models.
ListRows == [value : {f.value : f \in Facts}, primary : BOOLEAN]
StateRows == [state : States, at : Times]
StateIntervals == [state : States, from : Times, to : Times \union {Null}]
MergeRows == [source : Resources, target : Resources]
RelationshipRows ==
  [source : Resources, target : Resources, direction : {"outgoing", "incoming"}]

DetailsBody(b) ==
  /\ b.state \in StateRows \union {Null}
  /\ b.organization \in {f.value : f \in Facts} \union {Null}
  /\ b.merge \in MergeRows \union {Null}
  /\ \A kind \in DOMAIN b.lists : b.lists[kind] \subseteq ListRows

HistoryBody(b) ==
  /\ b.states \in Seq(StateIntervals)
  /\ \A kind \in DOMAIN b.lists : b.lists[kind] \subseteq ListRows

LookupBody(b) ==
  b \in [resource : Resources, value : {f.value : f \in Facts}, primary : BOOLEAN]

\* Every variable has its type; a response has the shape of its response model.
TypeOK ==
  /\ shown \in [Resources -> States]
  /\ \A r \in Resources : timeline[r] \in Seq(StateRows)
  /\ facts \subseteq Facts
  /\ merges \subseteq MergeRows
  /\ query = Idle \/ (query.what \in Queries /\ query.key \in Keys(query.what))
  /\ Len(found) <= Len(DetailsStatements) + 1
  /\ earlier.what \in {"details", "name"} => DetailsBody(earlier.body)
  /\ earlier.what = "history" => HistoryBody(earlier.body)
  /\ earlier.what = "relationships" => earlier.body \subseteq RelationshipRows
  /\ earlier.what \in {"identifier", "alias"} => LookupBody(earlier.body)
  /\ earlier.what = "id" => earlier.body \in Resources

\* The statements that end in one_or_none never meet two rows, which would end the
\* request in an internal error: whatever was written before, at most one state is
\* current, one owner primary, one merge outgoing, and a value names one resource.
OneOrNone ==
  /\ \A r \in Resources : Cardinality(CoreRows(r)) = 1
  /\ \A f \in facts :
       f.kind \in {"identifier", "alias"} => Cardinality(Named(f.kind, f.value)) = 1

\* The facts a response tells of, put together again from its body.
Told(what, key, body) ==
  CASE what \in {"details", "name", "history"} ->
         {f \in Facts : /\ f.resource = key
                        /\ f.kind \in DOMAIN body.lists
                        /\ Row(f) \in body.lists[f.kind]}
    [] what = "relationships" ->
         {f \in Facts : /\ f.kind = "relationship"
                        /\ \E r \in body : r.source = f.resource /\ r.target = f.value}
    [] what \in {"identifier", "alias"} ->
         {f \in Facts : /\ f.kind = what
                        /\ body = [resource |-> f.resource, value |-> f.value, primary |-> f.primary]}
    [] OTHER -> {}

\* The organization shown at the top of the details is among the primary owners listed
\* below it, although another statement reads those: the core is read first, and an
\* ownership is never closed.
PrimaryIsListed ==
  earlier.what \in {"details", "name"} /\ earlier.body.organization # Null
    => [value |-> earlier.body.organization, primary |-> TRUE] \in earlier.body.lists["ownership"]

\* Which facts a query is about.
Covers(q, f) ==
  \/ q.what \in {"details", "name"} /\ f.kind # "relationship" /\ f.resource = q.key
  \/ q.what = "history" /\ f.kind \notin {"alias", "relationship"} /\ f.resource = q.key
  \/ q.what = "relationships" /\ f.kind = "relationship" /\ q.key \in {f.resource, f.value}
  \/ q.what = f.kind /\ f.value = q.key

\* What a client was told stays true of its later answers, whichever way it asks: a fact
\* found by a look-up, or shown from one end of a relationship, is listed where it
\* belongs, and a merge of the resource stays.
NothingTakenBack ==
  [][earlier' # earlier =>
       LET before == Told(earlier.what, earlier.key, earlier.body)
           now == Told(earlier'.what, earlier'.key, earlier'.body)
       IN /\ \A f \in before : Covers(earlier', f) => f \in now
          /\ (/\ {earlier.what, earlier'.what} \subseteq {"details", "name"}
              /\ earlier.key = earlier'.key
              /\ earlier.body.merge # Null)
               => earlier'.body.merge = earlier.body.merge]_vars

\* The state a client saw as current begins an interval of every history it reads later,
\* and details read after a history show a state no older than the last of it.
HistoryAgrees ==
  [][earlier' # earlier /\ earlier'.key = earlier.key =>
       /\ (/\ earlier'.what = "history"
           /\ earlier.what \in {"details", "name"}
           /\ earlier.body.state # Null)
            => \E i \in DOMAIN earlier'.body.states :
                 /\ earlier'.body.states[i].state = earlier.body.state.state
                 /\ earlier'.body.states[i].from = earlier.body.state.at
       /\ (/\ earlier'.what \in {"details", "name"}
           /\ earlier.what = "history"
           /\ earlier.body.states # <<>>)
            => /\ earlier'.body.state # Null
               /\ earlier'.body.state.at >= Transitions!Latest(earlier.body.states).from]_vars
=============================================================================
