--------------------------- MODULE StateTransition --------------------------
(***************************************************************************)
(* Concurrent execution of TransitionResourceStateHandler: lock the        *)
(* resource row, check the catalogs, read the current resource_state row,  *)
(* then close it, insert its successor and update the resource snapshot in *)
(* one flush, and commit.  The three catalog references and the priority   *)
(* are one attribute, status: the handler treats them alike.               *)
(***************************************************************************)
EXTENDS Integers, Sequences

CONSTANTS
  Ids,        \* resource ids a command may name
  Resources,  \* the ids that name a stored row of the tenant
  Writers,    \* concurrent transition requests (worker threads)
  Statuses,   \* catalog rows a command may reference
  Scores,     \* confidence scores of commands, in units finer than the column's
  Grain,      \* the number of such units in one unit of Numeric(5, 4)
  Sources,    \* values of the source column in commands
  Backfill,   \* its value in the rows the migration wrote
  MaxTime,    \* instants of transitioned_at are 1..MaxTime (bounds the model)
  NoOne       \* the owner of an unlocked row

ASSUME TransitionConstants ==
  /\ Resources \subseteq Ids
  /\ Scores \subseteq Nat
  /\ Grain \in Nat \ {0}
  /\ MaxTime \in Nat
  /\ NoOne \notin Writers

VARIABLES
  resource,  \* committed resource rows: status, score and record_version
  history,   \* committed resource_state rows of each resource, in id order
  active,    \* catalog rows whose is_active is true
  phase,     \* where each writer is in the handler
  command,   \* the request a writer is serving
  loaded,    \* the resource row as get_for_update returned it
  current,   \* position of the current state row the handler read, 0 for None
  lock,      \* the writer whose transaction holds a resource row FOR UPDATE
  outcome    \* how the writer's last request ended

vars == <<resource, history, active, phase, command, loaded, current, lock, outcome>>

local == <<command, loaded, current>>

Open == MaxTime + 1   \* valid_to IS NULL

\* What Numeric(5, 4) stores: rounded to the column's unit, halves away from zero.
Rounded(score) == ((2 * score + Grain) \div (2 * Grain)) * Grain

StoredScores == {Rounded(s) : s \in Scores}

Commands ==
  [id : Ids, status : Statuses, score : Scores, source : Sources, at : 1..MaxTime]

ResourceRow == [status : Statuses, score : StoredScores, version : Nat \ {0}]

StateRow ==
  [status : Statuses, score : StoredScores, source : Sources \union {Backfill},
   from : 0..MaxTime, to : 1..Open]

Phases == {"idle", "lock", "catalogs", "read_current", "flush", "commit"}

Outcomes ==
  {"none", "transitioned", "not_found", "inactive", "not_later", "unchanged", "unknown"}

\* A resource row exists with no state history, as CreateResourceHandler leaves it,
\* or with the one row the migration backfilled from its snapshot.
Backfilled(row) ==
  <<[status |-> row.status, score |-> row.score, source |-> Backfill,
     from |-> 0, to |-> Open]>>

Init ==
  /\ resource \in [Resources -> [status : Statuses, score : StoredScores, version : {1}]]
  /\ \E migrated \in SUBSET Resources :
       history = [r \in Resources |->
                    IF r \in migrated THEN Backfilled(resource[r]) ELSE <<>>]
  /\ active = Statuses
  /\ phase = [w \in Writers |-> "idle"]
  /\ command = [w \in Writers |-> <<>>]
  /\ loaded = [w \in Writers |-> <<>>]
  /\ current = [w \in Writers |-> 0]
  /\ lock = [r \in Resources |-> NoOne]
  /\ outcome = [w \in Writers |-> "none"]

(***************************************************************************)
(* Transaction ends                                                        *)
(***************************************************************************)
Release(w) == lock' = [r \in Resources |-> IF lock[r] = w THEN NoOne ELSE lock[r]]

Finish(w, result) ==
  /\ phase' = [phase EXCEPT ![w] = "idle"]
  /\ command' = [command EXCEPT ![w] = <<>>]
  /\ loaded' = [loaded EXCEPT ![w] = <<>>]
  /\ current' = [current EXCEPT ![w] = 0]
  /\ outcome' = [outcome EXCEPT ![w] = result]
  /\ Release(w)
  /\ UNCHANGED active

Fail(w, result) ==
  /\ Finish(w, result)
  /\ UNCHANGED <<resource, history>>

Advance(w, from, to) ==
  /\ phase[w] = from
  /\ phase' = [phase EXCEPT ![w] = to]

(***************************************************************************)
(* The handler                                                             *)
(***************************************************************************)
Begin(w) ==
  /\ Advance(w, "idle", "lock")
  /\ \E c \in Commands : command' = [command EXCEPT ![w] = c]
  /\ outcome' = [outcome EXCEPT ![w] = "none"]
  /\ UNCHANGED <<resource, history, active, loaded, current, lock>>

\* Mutant: a plain SELECT.
ReadResource(w) ==
  /\ Advance(w, "lock", "catalogs")
  /\ command[w].id \in Resources
  /\ loaded' = [loaded EXCEPT ![w] = resource[command[w].id]]
  /\ UNCHANGED <<resource, history, active, command, current, lock, outcome>>

\* SELECT ... FOR UPDATE returns the row as committed when the lock is granted.
LockResource(w) ==
  /\ Advance(w, "lock", "catalogs")
  /\ LET r == command[w].id IN
       /\ r \in Resources
       /\ lock[r] = NoOne
       /\ lock' = [lock EXCEPT ![r] = w]
       /\ loaded' = [loaded EXCEPT ![w] = resource[r]]
  /\ UNCHANGED <<resource, history, active, command, current, outcome>>

ResourceMissing(w) ==
  /\ phase[w] = "lock"
  /\ command[w].id \notin Resources
  /\ Fail(w, "not_found")

CatalogsActive(w) ==
  /\ Advance(w, "catalogs", "read_current")
  /\ command[w].status \in active
  /\ UNCHANGED <<resource, history, active, local, lock, outcome>>

CatalogInactive(w) ==
  /\ phase[w] = "catalogs"
  /\ command[w].status \notin active
  /\ Fail(w, "inactive")

\* ResourceStateRepository.get_current: the first row with valid_to IS NULL, or 0.
OpenRows(r) == {i \in DOMAIN history[r] : history[r][i].to = Open}

CurrentRow(r) ==
  IF OpenRows(r) = {} THEN 0
  ELSE CHOOSE i \in OpenRows(r) : \A j \in OpenRows(r) : i <= j

\* _validate_existing_state_transition against the row at position i.
NotLater(c, i) == i # 0 /\ c.at <= history[c.id][i].from

Unchanged(c, i) ==
  /\ i # 0
  /\ LET row == history[c.id][i] IN
       c.status = row.status /\ c.score = row.score /\ c.source = row.source

ReadCurrent(w) ==
  /\ Advance(w, "read_current", "flush")
  /\ LET c == command[w]
         i == CurrentRow(c.id)
     IN /\ ~NotLater(c, i)
        /\ ~Unchanged(c, i)
        /\ current' = [current EXCEPT ![w] = i]
  /\ UNCHANGED <<resource, history, active, command, loaded, lock, outcome>>

TransitionNotLater(w) ==
  /\ phase[w] = "read_current"
  /\ NotLater(command[w], CurrentRow(command[w].id))
  /\ Fail(w, "not_later")

TransitionUnchanged(w) ==
  /\ phase[w] = "read_current"
  /\ LET c == command[w]
         i == CurrentRow(c.id)
     IN ~NotLater(c, i) /\ Unchanged(c, i)
  /\ Fail(w, "unchanged")

\* The snapshot attributes differ from the loaded ones, so an UPDATE is emitted.
SnapshotDirty(w) ==
  command[w].status # loaded[w].status \/ command[w].score # loaded[w].score

\* UPDATE ... WHERE record_version = loaded, CHECK (valid_to > valid_from) on the row
\* closed, and uq_resource_state_current on the row inserted after it is closed.
ConstraintsAccept(w) ==
  LET c == command[w] IN
    /\ SnapshotDirty(w) => resource[c.id].version = loaded[w].version
    /\ current[w] # 0 => c.at > history[c.id][current[w]].from
    /\ OpenRows(c.id) \ {current[w]} = {}

Flush(w) ==
  /\ Advance(w, "flush", "commit")
  /\ ConstraintsAccept(w)
  /\ UNCHANGED <<resource, history, active, local, lock, outcome>>

\* The rows the transaction leaves behind.
Successor(c) ==
  [status |-> c.status, score |-> Rounded(c.score), source |-> c.source,
   from |-> c.at, to |-> Open]

\* Mutant: an end one instant too early.
ClosedEarly(rows, i, at) == IF i = 0 THEN rows ELSE [rows EXCEPT ![i].to = at - 1]

Closed(rows, i, at) == IF i = 0 THEN rows ELSE [rows EXCEPT ![i].to = at]

\* Mutants: the status is not copied; the version column is not bumped.
SnapshotWithoutStatus(w) ==
  IF SnapshotDirty(w)
  THEN [status |-> loaded[w].status, score |-> Rounded(command[w].score),
        version |-> loaded[w].version + 1]
  ELSE loaded[w]

SnapshotUnversioned(w) ==
  [status |-> command[w].status, score |-> Rounded(command[w].score),
   version |-> loaded[w].version]

Snapshot(w) ==
  IF SnapshotDirty(w)
  THEN [status |-> command[w].status, score |-> Rounded(command[w].score),
        version |-> loaded[w].version + 1]
  ELSE loaded[w]

\* Mutant: the state row is written and the snapshot is not.
StoreStateOnly(w) ==
  LET c == command[w] IN
    /\ history' = [history EXCEPT ![c.id] = Append(Closed(@, current[w], c.at), Successor(c))]
    /\ UNCHANGED resource

Store(w) ==
  LET c == command[w] IN
    /\ resource' = [resource EXCEPT ![c.id] = Snapshot(w)]
    /\ history' = [history EXCEPT ![c.id] = Append(Closed(@, current[w], c.at), Successor(c))]

Commit(w) ==
  /\ phase[w] = "commit"
  /\ Store(w)
  /\ Finish(w, "transitioned")

\* The server commits and the connection breaks before the driver hears of it.
CommitUnacknowledged(w) ==
  /\ phase[w] = "commit"
  /\ Store(w)
  /\ Finish(w, "unknown")

\* The process, the connection or the server's backend is lost before COMMIT.
Lose(w) ==
  /\ phase[w] # "idle"
  /\ Fail(w, "unknown")

\* Catalog rows are administered outside the application, under no shared lock.
Deactivate ==
  /\ \E s \in active : active' = active \ {s}
  /\ UNCHANGED <<resource, history, phase, local, lock, outcome>>

Next ==
  \/ Deactivate
  \/ \E w \in Writers :
       \/ Begin(w)
       \/ LockResource(w)
       \/ ResourceMissing(w)
       \/ CatalogsActive(w)
       \/ CatalogInactive(w)
       \/ ReadCurrent(w)
       \/ TransitionNotLater(w)
       \/ TransitionUnchanged(w)
       \/ Flush(w)
       \/ Commit(w)
       \/ CommitUnacknowledged(w)
       \/ Lose(w)

Spec == Init /\ [][Next]_vars

-----------------------------------------------------------------------------
(***************************************************************************)
(* Properties                                                              *)
(***************************************************************************)
TypeOK ==
  /\ resource \in [Resources -> ResourceRow]
  /\ history \in [Resources -> Seq(StateRow)]
  /\ active \subseteq Statuses
  /\ phase \in [Writers -> Phases]
  /\ command \in [Writers -> {<<>>} \union Commands]
  /\ loaded \in [Writers -> {<<>>} \union ResourceRow]
  /\ current \in [Writers -> Nat]
  /\ \A w \in Writers :
       /\ phase[w] # "idle" => command[w] \in Commands
       /\ IF phase[w] \in {"idle", "lock"} THEN loaded[w] = <<>>
                                         ELSE loaded[w] \in ResourceRow
       /\ phase[w] \notin {"flush", "commit"} => current[w] = 0
  /\ lock \in [Resources -> Writers \union {NoOne}]
  /\ outcome \in [Writers -> Outcomes]

\* The states of a resource form one unbroken line of time, whatever transitions
\* overlapped to write it: only the last row is open, every other row ends at the
\* instant its successor starts, and no row ends before it starts.
IntervalsTile ==
  \A r \in Resources :
    LET rows == history[r] IN
      \A i \in DOMAIN rows :
        IF i = Len(rows) THEN rows[i].to = Open
        ELSE /\ rows[i].to = rows[i + 1].from
             /\ rows[i].from < rows[i].to

\* The documented invariant of the snapshot: once a resource has state history, its
\* mutable snapshot shows exactly the current state row, as both are stored.
SnapshotIsCurrentState ==
  \A r \in Resources :
    history[r] # <<>> =>
      LET row == history[r][Len(history[r])] IN
        resource[r].status = row.status /\ resource[r].score = row.score

\* What the handler read stays true until it writes: the resource row and the current
\* state row it loaded are still the committed ones, so neither the version check nor
\* a database constraint ever turns down a transition the handler accepted.
ReadsStayCurrent ==
  \A w \in Writers :
    /\ phase[w] \notin {"idle", "lock"} => loaded[w] = resource[command[w].id]
    /\ phase[w] \in {"flush", "commit"} =>
         current[w] = CurrentRow(command[w].id) /\ ConstraintsAccept(w)

\* History is never rewritten: a step adds at most one row to a resource, the rows
\* closed before keep every attribute, the row closed now keeps all but its end, and
\* the snapshot never changes without its version moving on by one.
HistoryIsKept ==
  [][\A r \in Resources :
       /\ Len(history[r]) <= Len(history'[r]) /\ Len(history'[r]) <= Len(history[r]) + 1
       /\ \A i \in DOMAIN history[r] :
            \/ history'[r][i] = history[r][i]
            \/ /\ history[r][i].to = Open
               /\ history'[r][i] = [history[r][i] EXCEPT !.to = history'[r][i + 1].from]
       /\ resource'[r] # resource[r] => resource'[r].version = resource[r].version + 1]_vars

\* The detailed handler implements the abstract timeline.
Timeline == INSTANCE StateTimeline WITH
  States <- [status : Statuses, score : StoredScores],
  Times <- 1..MaxTime,
  shown <- [r \in Resources |-> [status |-> resource[r].status, score |-> resource[r].score]],
  timeline <- [r \in Resources |->
                 [i \in 1..Len(history[r]) |->
                    [state |-> [status |-> history[r][i].status, score |-> history[r][i].score],
                     at |-> history[r][i].from]]]

ImplementsTimeline == Timeline!TimelineSpec

\* The documented promise that a replacement which changes nothing is rejected: no
\* state row repeats its predecessor in every attribute but the interval.
NoOpRejected ==
  \A r \in Resources :
    \A i \in 1..(Len(history[r]) - 1) :
      LET a == history[r][i]
          b == history[r][i + 1]
      IN ~(a.status = b.status /\ a.score = b.score /\ a.source = b.source)
=============================================================================
