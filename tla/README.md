# Resource Inventory: formal models

A verification development for the Resource Inventory service: a FastAPI
application (`src/api/app`) over SQLAlchemy and PostgreSQL.  It holds TLA+
modules of the service's transactions and reads, TLC configurations that check
them on small instances, and theorems about them with TLAPS proofs.

The service runs each HTTP request in a worker thread.  A request is one call of
a handler in `application/handlers/resources.py`; the handler opens one Unit of
Work (one SQLAlchemy session, one database transaction at READ COMMITTED),
reads, locks and writes rows through repositories, and commits at most once.
Threads share the database, the connection pool and the generator of ids, so
what is hard about this system is in the interleaving of transactions: which
rows a statement sees, what is locked when, what a constraint or trigger can
see, and what a client may conclude from an answer or from the lack of one.

## Inventory

| component | state it keeps | operations | what makes it correct |
|---|---|---|---|
| Resource merge lineage, write path | rows of `resource_merge`, row locks | `MergeResourceHandler`, the trigger `prevent_resource_merge_cycle`, `uq_resource_merge_tenant_source_resource_id` | no short cycle in the lineage; a source is merged once; what was checked still holds at the commit; no deadlock; each request ends |
| Canonical resource resolution | the walk of one read | `ResolveCanonicalResourceHandler` | answers agree with the lineage at some instant of the read; errors are real; the walk ends |
| Resource state history | rows of `resource_state`, the snapshot and `record_version` on `resource` | `TransitionResourceStateHandler`, `uq_resource_state_current`, the backfill of migration 0007 | intervals tile; the snapshot is the current row; history is not rewritten; no lost update; no-ops are refused |
| Fact assignment | identifiers, aliases, ownerships, classifications, labels, relationships | six `AssignResource...Handler`s and the partial unique indexes | no two facts claim the same; a value resolves to one resource for good; one primary each; no deadlock |
| Resource creation | rows of `resource` | `CreateResourceHandler` | duplicates of a canonical name are limited to requests that overlap |
| Identifier generation | last millisecond and sequence of a process, under a lock | `generate_uuid7` | ids are distinct, also when the clock steps back |
| Listing and pagination | a cursor held by the client | `ListResourcesHandler`, `list_resources`, `encode_cursor`, `decode_cursor` | pages keep their order, repeat nothing and skip nothing that was there throughout |
| Details, history, relationships, look-ups | none | the read handlers and the statements of `SQLAlchemyResourceQueryService` | an answer does not contradict itself or an earlier one; a read of one row never meets two |
| Unit of Work | `_state`, the session, a pooled connection | enter, commit, rollback, exit, the `session` guard | the work is kept or dropped once and as a whole; a request that is over holds nothing, whatever its unit went through |
| Command validation, schemas, CHECK constraints | none | the validators of the nine writing commands | what a validator accepts no CHECK refuses |
| Error translation and HTTP errors | none | `translate_integrity_error`, the HTTP error handlers | the status tells what was written |
| Repositories | none | look-ups, `FOR UPDATE` | the right row for the tenant and the instant |
| Catalogs and their seed | catalog rows | `seed_catalogs`, `is_active` | concurrent seeds duplicate nothing and leave the baseline complete; they end |
| Migrations | schema version | Alembic revisions | a backfill agrees with the data it replaces |
| Routes, schemas, mappers, composition | none | JSON to command, result to JSON | conversions |
| Deployment, health endpoints, settings | none | scripts, constant answers | start order |

How they interact.  A route builds a command and calls a handler.  The handler
validates it, enters the Unit of Work and uses its repositories; locks taken by
`get_for_update` last until the session's transaction ends.  Writes are
collected in the session and sent by the flush inside `session.commit()`, so
constraints and triggers speak only then, after every check of the handler.
Merges and resolutions meet in `resource_merge`; transitions and creation meet
in `resource`; assignments meet in the partial unique indexes.  Catalog rows are
read without a lock.  Reads take no lock and see, statement by statement, what
the writers have committed.

What is hard, with lines, is the list `hazards` of `PROJECT.json`.

## Modules

Abstract specifications, which say what a component promises:

| module | what it promises | implemented by |
|---|---|---|
| `MergeHistory` | merges are recorded one at a time, once per source, no short cycle | `MergeLineage` |
| `StateTimeline` | a timeline of states that grows, and the state shown | `StateTransition` |
| `FactStore` | facts are added, kept, and never clash | `FactAssignment` |
| `TransactionScope` | the work of a unit is open, then kept or dropped, for good | `UnitOfWork`, `HttpRequest` |

Components and compositions:

| module | what it is |
|---|---|
| `MergeLineage` | `MergeResourceHandler`, its locks, the trigger, the unique index |
| `LineageResolution` | composes `MergeLineage` with `ResolveCanonicalResourceHandler` |
| `StateTransition` | `TransitionResourceStateHandler` with the snapshot and version column |
| `FactAssignment` | the six assignment handlers, parameterised by kind of fact |
| `UuidGeneration` | `generate_uuid7`: clock, last millisecond, sequence |
| `ResourceCreation` | composes `UuidGeneration` with `CreateResourceHandler` |
| `ResourceListing` | composes `ResourceCreation` with a client that walks page by page |
| `ReadModels` | the read handlers next to the write path, taken by the abstract specifications it is shown to implement |
| `CommandRules` | schemas, validators and CHECK constraints of the nine commands |
| `UnitOfWork` | `SQLAlchemyUnitOfWork` over session, pool and a contended row |
| `HttpRequest` | composes `CommandRules` and `UnitOfWork` into the way of a request |
| `CatalogSeed` | runs of `seed_catalogs` next to administrators |
| `MC...` | symmetry sets and constant functions for TLC |
| `NaturalExtrema`, `...Proofs` | theorems, see below |

In the modules of writers a *writer* is a worker thread.  Its `phase` is its
place in the handler and each phase is one statement sent to the database,
because another transaction may commit between any two statements and not
within one.  `command` is the dataclass it serves, `lock` the row locks,
`outcome` the last answer.  `Commit` is the only action that changes the committed
tables; `Flush` stands for the INSERTs and UPDATEs of `session.commit()` before
COMMIT: from then on other transactions wait on the row's unique key
(`InFlight...`) but do not see it.  Three actions are the environment:
`CommitUnacknowledged` (the server commits, the driver hears nothing), `Lose`
(process, connection or backend lost before COMMIT; the server rolls back) and
`Deactivate` (an administrator clears `is_active`).  A client that repeats a
request after a lost answer is a new `Begin` with the same command.

`UnitOfWork` has one action per call of the class; its caller may make the calls
in any order, catch their errors and keep a repository it was handed.  The variable
`session` is the Session that the repositories have, not the unit's `_session`
(which is set while `Entered`): a repository keeps it, and `close()` leaves it
usable, so statements through a kept repository are possible in every state of the
unit, "closed" included, until the repository is dropped (`LetGo`).  Calls of the
Session itself, which repositories expose for tests, are left out.
`HttpRequest` is the one caller the application has: its handlers drop their
repositories with the `with` block.  What they look up is a choice of outcomes
there, because their own modules say which outcome when: a 404 or 409 of a read
(resolution answers 409) or of a command under its lock, and the 422 of a
transition whose instant is not later than the stored one, which is raised inside
the unit.  Other units that are used carelessly share the pool and the row.

Abstractions.
- One tenant: every statement carries the tenant id.  An id of another tenant is
  an id that names no row.
- Names, values and catalog rows are model values; strings in `CommandRules` are
  what the rules tell apart (empty, only spaces, only other white space, a word).
- The four snapshot references and priority of a state are one attribute, since
  the handler treats them alike; the tenant and catalog rows a creation names are
  one reference.  Scores are naturals in units finer than the column's, `Grain`
  of them making one unit of `Numeric(5, 4)`, and are stored rounded.  Instants
  are naturals.  A null current row is position 0.
- Look-ups of catalog rows are one step, which is exact because the model only
  ever deactivates them.
- The row lock on a resource is one row in `UnitOfWork`; the modules of the
  handlers have all of them.
- A call of `generate_uuid7` is one step, taken when it can return, because the
  process-wide lock is held from the clock's reading to the id; the 62 random
  bits are left out, so ids are compared by time and sequence alone.
- `ReadModels` has one group of each kind of fact, so one primary owner per
  resource.  Its resources are fixed.  A look-up by canonical name is the look-up
  of an id followed by the details.  `ResourceListing` has one set of attributes
  for all filters, and the sort key of the default order.
- The validators of listings and look-ups are in the modules of those, not in
  `HttpRequest`; there 200 stands for 201 as well.

Operators whose comment starts with "Mutant" are alternatives that no action
uses; they are plausible mistakes in the code, kept beside what they alter to
show that each property can tell them apart.

## Runs

| run | instance | shows |
|---|---|---|
| `merge` | 3 resources and an unknown id between them, 2 writers, fair | `ShortCycleFree`, `ChecksStillHold`, `NoDeadlock`, `MergesRecordedOnce`, `RequestsEnd`, implementation of `MergeHistory` |
| `merge_cycle` | 4 resources, 2 writers | violation of `Acyclic` by overlapping merges |
| `resolution` | 4 resources and an unknown id, 1 writer, 1 reader, trigger bound 2, depth bound 3 | `ResolutionIsLinearizable`, `ErrorsAreJustified`, `ResolutionTypeOK`; and `CyclesExceedBound`: when merges do not overlap the trigger catches every cycle up to its bound |
| `state` | 1 resource, an unknown id, 2 writers, 2 statuses, 2 scores, 2 instants | `IntervalsTile`, `SnapshotIsCurrentState`, `ReadsStayCurrent`, `HistoryIsKept`, implementation of `StateTimeline` |
| `state_noop` | 1 resource, 1 writer, a score finer than the column | violation of `NoOpRejected` |
| `facts` | identifiers, labels, ownerships and classifications of 2 resources, a value of another type, 2 writers | `ChecksStillHold`, `IdentityIsStable`, implementation of `FactStore` |
| `facts_fair` | aliases and relationships, 2 resources and an unknown id between them, 2 writers, fair | `NoDeadlock`, `RequestsEnd` |
| `create_race` | 2 names, 2 writers | violation of `NamesUnique` |
| `listing` | 3 creations of one name, 2 instants, 2 sequence numbers, pages of one row | `PagesInOrder`, `NothingSteadySkipped`, `IdsDistinct`, `DuplicatesOverlap`, `ListingTypeOK` |
| `read_models` | 2 resources and an id of no row, 6 facts, 2 instants, 4 commits | `OneOrNone`, `PrimaryIsListed`, `NothingTakenBack`, `HistoryAgrees`, `TypeOK` |
| `request` | 2 requests, 1 careless caller, 2 connections, 1 row, fair | `RowsMeetChecks`, `StatusTellsEffect`, `HandsBack`, `RequestsEnd`, implementation of `TransactionScope` |
| `seed` | 3 runs over a type, a classification type and a value of it, 2 edits, fair | `NoDuplicates`, `BaselineComplete`, `RunsEnd`, `TypeOK` |

The type invariants of `MergeLineage`, `StateTransition`, `FactAssignment`,
`ResourceCreation` and `HttpRequest` are theorems (below), and no run repeats them, but for
that of `ResourceCreation`, which is part of `ListingTypeOK`.

Bounds and why they are enough.
- A short cycle has at most three edges and any two of these share a resource,
  so two overlapping merges next to committed ones show every way the last edge
  can be added.  The smallest pair of merges that shares no row needs four
  resources.
- The resolution run's trigger bound (2) is below its lineages so that cycles of
  three and four can exist, and its depth bound (3) is below the longest walk, so
  both error exits are reached; a resolution writes nothing, so one reader stands
  for all.
- Two transitions and two instants give both orders of arrival against both
  orders of time, and a history of two rows has both a closed and an open one.
- Unique indexes relate two rows, so two assignments suffice for them.
- Three creations give an order of ids, an order of stamps and an order of
  commits that all differ; one row per page puts a cursor between any two rows.
  Of the three page sizes two are refused.
- Four commits next to the reads are enough for a transition, an assignment and a
  merge between two statements of one read and another before it; the six facts
  hold a clash of each kind.
- Two connections are fewer than the three units; a priority or score on each
  side of every bound of the rules (scores in hundred-thousandths, so that
  rounding can cross the bound) covers the comparisons.
- Three runs of the seed let two wait for one; a third record (the value) needs
  the second (its type).
- `MaxTime`, `MaxFacts`, `MaxWrites`, `MaxEdits` and the finite `Instants` cut
  runs off, and the guards name them.  The theorems below need no particular value
  of any of them.

Fairness.  The runs `merge`, `facts_fair`, `request` and `seed` use it.  A thread
that is not waiting goes on (weak fairness: handlers do not wait on anything but
the database and the pool, and a wait for the pool ends in a timeout).  A request
waiting for a row lock, or for a transaction with an equal unique key, is given
strong fairness: PostgreSQL queues waiters on the tuple and wakes them when the
holder ends.  In `request`, the `with` block of any other caller comes to its end,
and so does what it keeps after the block; that is asked of callers and not
enforced by the code, and for the handlers, which keep nothing, it is their
structure.  The calls in between are not fair, and the requests end all the same.
Nothing forces a request to start, a clock to move or a connection to be lost.

## Proofs

TLAPS proves, for all values of the constants that satisfy the modules'
assumptions (`MergeConstants`, `TransitionConstants`, `AssignmentConstants`,
`UuidConstants`, `CreationConstants`, `RuleConstants`, `UnitConstants`,
`RequestConstants`, `SeedConstants`, `ReadConstants`, `ResolutionConstants`,
`ListingConstants`), every invariant and every action property that a passing run
checks, and every refinement.  For each of the three promises that a run shows
broken it proves where the promise does hold.

`NaturalExtrema`: a nonempty set of naturals has a least element and, when it is
finite, a greatest one.  The arguments about circles of waiting, about the row of a name
with the least id and about paths of edges rest on it; it takes the place of
induction.

`LineageProofs`
- `TypeCorrect`, `NoShortCycles`, `ChecksSurvive`, `RecordedOnce`, and
  `RefinesHistory`, that `Spec` implements `MergeHistory`.  All but the first assume
  `TriggerDepth >= 3`, which the code's 100 satisfies; nothing below does.
- The inductive invariant `LineageInv` is `TypeOK`, `LocksTaken` (a writer past
  its locks holds both endpoint rows), `ChecksStillHold` and `ShortCycleFree`.
  `LocksTaken` is needed because the others do not say why another writer cannot
  insert the missing edge of a cycle: any two edges of a cycle of at most three
  share an endpoint, so both writers would need its row lock.
- `NoCircle` (`NoDeadlock`): with `HoldsLess`, that a waiting writer holds only ids
  below the one it waits for, the writer of a circle that waits for the
  greatest id would wait for one that waits for a greater.
- `CyclesAreLong` (`CyclesExceedBound`): when merges do not overlap, every cycle has
  more edges than the trigger's bound, whatever the bound.  The invariant is
  `VerdictStands`: what the trigger found at the INSERT is true at the COMMIT.  A
  new edge `s -> t` closes a cycle only where a path led from `t` back to `s`, and
  `WayBack` cuts that path out of the cycle, with at least one edge less, so the
  trigger would have met it.  Paths are functions on an interval, so that
  `EmptyPath`, `ExtendPath` and `PathGrows` are about a path of any length at once,
  and where the first or the least is wanted `LeastNat` finds it.
- `SmallTenantAcyclic` (`Acyclic`): in a finite tenant of at most `TriggerDepth`
  resources, without overlap, nothing is ever circular.  `EndlessWalk` follows the
  edges of a circular lineage for ever; `SmallSetShortCycle` is the pigeonhole that
  finds a cycle of no more edges than resources in it, against `CyclesAreLong`.
- `ResolutionsLeaveMergesAlone`: `ResolutionSpec` implies `Spec`, so all of the above
  holds beside resolutions.
- `ResolutionTyped`, `NoFalseAlarm` (`ErrorsAreJustified`), `Linearizable`
  (`ResolutionIsLinearizable`).  The inductive invariant `ResolutionInv` ties each
  reader to the committed rows, which have only grown since it read them: it
  stands at the end of a path of `depth` edges from the id requested (`OnAPath`);
  each id it has visited lies on a path to where it stands (`VisitedBehind`), which
  is why meeting one again is a real cycle; and its answer is founded on the rows
  (`AnswerFounded`).

`StateTransitionProofs`
- `TransitionsTyped`, `TransitionsTile`, `SnapshotFollows`,
  `TransitionReadsHold`, `HistoryPreserved`, and `RefinesTimeline`, that `Spec`
  implements `StateTimeline`.
- The inductive invariant `StateInv` is `TypeOK`, `LockHeld` (past "lock" a
  writer holds its resource row), `ReadsStayCurrent`, `IntervalsTile` and
  `SnapshotIsCurrentState`.  They need each other: tiling survives a commit only
  because the position the writer read is still the open row, which is so only
  because the lock keeps other writers away; and the snapshot follows only
  because the row the writer loaded is still the committed one, so that leaving a
  clean snapshot unwritten is right.  The lemma `StoredIsRounded` (rounding a
  stored score changes nothing) is what connects the snapshot with the row.
- `ExactScoresNeverRepeat` (`NoOpRejected`): if the scores of commands are ones the
  column stores exactly, no state row repeats its predecessor, however many
  transitions overlap.  `Changing` (a writer past its check differs from the row it
  read) is the invariant; that the row is still the last is `ReadsStayCurrent`.

`FactAssignmentProofs`
- `AssignmentsTyped`, `LookUpsHold`, `IdentityKept`, `NoCircle`, and
  `RefinesFactStore`, that `Spec` implements `FactStore`.
- The invariant adds to the type `LocksHeld` (the row locks a phase implies),
  `ChecksHold` (what was looked up under them) and `InsertedAreClear`: a flushed
  row clashes with no committed one and with no other flushed one.  The last is
  what the unique indexes contribute, and why a commit is a step of the store.

`ResourceProofs`
- `CreationTyped`, `IdsNeverRepeat`, `DuplicatesNeedOverlap`, and `NamesUniqueAlone`:
  when creations do not overlap, names are unique after all.
- Ids: `AllIssued`, that every id in a row or on its way into one is not above the
  generator's last millisecond and sequence.  Duplicates: `RowIsCommanded` and
  `FewPast`, that the committed rows of a name and the requests past its check
  are together at most as many as there are writers.
- `WalksLeaveCreationsAlone`: `ListingSpec` implies `Spec`.
- `ListingTyped`, `NothingShownTwice` (`PagesInOrder`), `NothingLeftOut`
  (`NothingSteadySkipped`), for pages of any size and any number of rows.
  `BeforeIsAnOrder` makes the key (created_at, id) a strict total order, and
  `SortingExists` and `SortingCovers` say that a finite set of rows can be put in its
  order and that the result has each of them; `Ordered` is therefore written as the
  choice of a sorted sequence, not with the sorting operators of the community
  modules, which the provers cannot expand.  `PageSeparates` is the heart: each row
  after the cursor is on the page or after the next cursor, and without a next
  one there is no rest.  The inductive invariant `ListingInv` has `WalkInv`: what
  was shown ends at the cursor (`ShownUpTo`), and every steady row is shown or still
  ahead of it (`SteadyKept`).  `CreationAddsStampedRows` is why a row that commits
  before the cursor cannot disturb the others.

`HttpRequestProofs`
- `UnitsDecideOnce`: whatever callers do, also with repositories they keep after
  `__exit__`, `UnitSpec` implements `TransactionScope`.  The key is
  `OpenIsUndecided`: work of an active unit has not been committed.
- `AcceptedCommandsFit`: for all priorities, scores and instants, a command that
  passes schema and validator meets the CHECK constraints of its table.
- `CommitsMeetChecks`, `RequestsTyped`, `RequestsClean` (`HandsBack`), `RequestsDecideOnce`,
  `AnswersTell`.  The invariant ties the thread to its unit (`UnitIsAt`: the state of
  unit and session at each place, and that nothing is held before the unit and after
  it), the work to the place (`WritesAt`) and the exception to the effect
  (`ErrorTellsEffect`), which turns into the property of the status when the unit has
  been left.  `OthersLeaveUnit` keeps all of it beside the other callers.

`CatalogSeedProofs`
- `SeedTyped`, `RunsCreateNoDuplicates`, `RunsLeaveBaseline`.
- `OwnIsPast` (a run inserts only records it has reached), `Counts` (each record it
  is past is counted once) and `LeftBehind` (each is visible to it, or was removed).

`ReadModelsProofs`
- `BodiesFitTheirModels` (`TypeOK`), `LookUpsFindOne`, `OwnersAgree`,
  `AnswersAccumulate`, `HistoriesAgree`: all that the run `read_models` checks, for any
  number of rows, reads and commits between their statements.  `ReadConstants`
  assumes of each fact what its foreign keys say: its resource, and both ends of a
  relationship, are stored.
- The inductive invariant `ReadInv` has three parts.  `WritesInv`: timelines are
  in order of time, facts do not clash, a source is merged once; from it each
  look-up finds one row at most.  `EarlierHolds`: what the client was told is true
  of the committed rows still, because rows are added and never changed
  (`WritesGrow`).  `QueryInv`: each row the unfinished read has returned is still
  true, shows what the client was told before, and the owners read after the core
  include the owner it shows.  The last part is what carries the promise from
  statement to statement: a response is put together from rows of different
  snapshots, and no one snapshot has to match it.

Only model-checked: liveness (`RequestsEnd` of three modules, `RunsEnd`), which with
fairness is beyond this prover.  That the trigger's recursive query and the sorting
of the database compute what their definitions here say is taken from the
definitions, which have no recursion.

## Disagreements between code and documents

1. `merge_cycle`: of two overlapping merges without a common resource neither
   trigger sees the other's row, and a cycle of four or more commits.  The
   application documents say that PostgreSQL prevents indirect cycles; the older
   schema documents left concurrent inserts to a future serialization, which the
   handler's row locks provide only for merges that share a resource.  What does
   hold is `ShortCycleFree`.  (That the trigger stops at its depth bound is documented;
   `CyclesExceedBound` states what is left.)
2. `state_noop`: the no-op check compares the unrounded score of the command
   with the rounded one stored, so the same command with a finer score is accepted
   twice.
3. `create_race`: the description of the canonical-name guard leaves races to
   PostgreSQL constraints, but canonical names have no unique one; overlapping
   creations duplicate a name.  What does hold is `DuplicatesOverlap`.
`PROJECT.json` quotes the lines.

Observed on the way, and not counted as disagreements.

- A repository that is kept after `__exit__` still has the Session
  (`repositories/base.py:25`), which `close()` leaves usable (`unit_of_work.py:194`):
  its next statement takes a connection, and may lock a row, in a transaction that
  no unit will end.  `database.md:55` calls repositories unavailable after exit, which
  holds of the unit's properties; `application-core-and-persistence.md:877` asks
  callers not to reuse them.  The model has it (`Connect` in state "closed").
  `HandsBack` holds of the application's requests, which keep none, and
  `TransactionScope` of every caller: such work is never committed through the unit.
- `commit()` knows a failed transaction by `session.is_active`
  (`unit_of_work.py:425`), which a failed flush clears and a failed SELECT does not;
  PostgreSQL answers the COMMIT of an aborted transaction with a rollback and no
  error.  A caller that catches the error of a statement and commits is then told of
  success although what it had flushed is lost (`CommitAborted`), where
  `application-core-and-persistence.md:879` has commit rejected after a failed
  transaction.  `TransactionScope` says that the work is dropped as a whole;
  `StatusTellsEffect` holds because handlers let the error of a statement leave the
  `with` block, so no request comes to `CommitAborted`.
- `api-and-service-layer.md` (lines 492, 617 and 714) maps `PersistenceError` to
  503; the handler for it is there, but no code raises it, so a database that is
  lost answers 500.
- Rows that commit with a key before the cursor are skipped by a walk, as
  `application-core-and-persistence.md` (line 1049) and `database.md` (line 75)
  say; `NothingSteadySkipped` is about the others.

## Plan

Done: all modules above.  The order was lineage and history first, because they
are what the inventory exists for, then facts, creation with its ids, the Unit of
Work with the requests that use it, the reads, the seed.

Left, for whoever extends this:
- a composition of the detailed transition, assignment and creation over one
  resource row: `ReadModels` composes their abstract specifications, which is
  enough for readers but does not show the version column at work between kinds of
  writers.

## Not modelled

- `EnsureResourceExists`: no route uses it, and it reads one row.
- Repository methods that no handler calls (`list`, searches by text).
- Field by field copying between schemas, commands, results and JSON, and the
  texts of error bodies.
- Labels, relationships, aliases and merges have handlers and commands but no
  writing route; they are modelled as handlers, and `HttpRequest` takes only the
  commands that have a route.
- Migrations other than 0007 and 0008, which declare tables; deployment scripts,
  health endpoints, settings and documentation tooling, which have no behaviour
  these methods would add to.
