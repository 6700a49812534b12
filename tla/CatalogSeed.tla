----------------------------- MODULE CatalogSeed -----------------------------
(***************************************************************************)
(* seed_catalogs, run by several processes at once beside administrators   *)
(* who edit the catalogs.  A run is one transaction at READ COMMITTED that *)
(* goes through the baseline in a fixed order: look the code up, insert the*)
(* record ON CONFLICT (code) DO NOTHING, look again, compare the ids.  The *)
(* classification values come last, under the types read before them.      *)
(***************************************************************************)
EXTENDS Integers, Sequences, FiniteSets

CONSTANTS
  Seeders,   \* concurrent runs
  Records,   \* the baseline in order, each [key, id, type]; type is "" but for values
  EditRows,  \* rows an administrator may insert, each [key, id]
  MaxEdits   \* bound on the edits

ASSUME SeedConstants ==
  /\ Records \in Seq([key : STRING, id : STRING, type : STRING])
  /\ Records # <<>>
  /\ \A i, j \in DOMAIN Records :
       Records[i].key = Records[j].key \/ Records[i].id = Records[j].id => i = j
  /\ EditRows \subseteq [key : STRING, id : STRING]
  /\ MaxEdits \in Nat

VARIABLES
  catalog,  \* committed rows: a key (catalog and code) and an id
  phase,    \* where each run is with its record
  pos,      \* the record it is at
  own,      \* the rows its transaction has inserted
  tally,    \* how many records it has found inserted and existing
  edits,    \* administrators' edits so far
  removed   \* the keys of rows that administrators have removed (for the properties)

vars == <<catalog, phase, pos, own, tally, edits, removed>>

RowOf(record) == [key |-> record.key, id |-> record.id]

Baseline == {RowOf(Records[i]) : i \in DOMAIN Records}

Rows == Baseline \union EditRows

\* Mutant: each run goes through the baseline in an order of its own.
SetOrder(t) ==
  IF t = CHOOSE s \in Seeders : TRUE THEN Records
  ELSE <<Records[2], Records[1]>> \o SubSeq(Records, 3, Len(Records))

RecordsOf(t) == Records

Record(t) == RecordsOf(t)[pos[t]]

\* What a SELECT of the transaction sees.
Visible(t) == catalog \union own[t]

WithKey(S, key) == {r \in S : r.key = key}

NoTally == [inserted |-> 0, existing |-> 0]

Init ==
  /\ catalog = {}
  /\ phase = [t \in Seeders |-> "idle"]
  /\ pos = [t \in Seeders |-> 0]
  /\ own = [t \in Seeders |-> {}]
  /\ tally = [t \in Seeders |-> NoTally]
  /\ edits = 0
  /\ removed = {}

At(t, place) == phase[t] = place

Go(t, place) == phase' = [phase EXCEPT ![t] = place]

\* The end of the transaction: its rows are kept or not, the locks go.
End(t) ==
  /\ Go(t, "idle")
  /\ pos' = [pos EXCEPT ![t] = 0]
  /\ own' = [own EXCEPT ![t] = {}]
  /\ tally' = [tally EXCEPT ![t] = NoTally]
  /\ UNCHANGED <<edits, removed>>

\* The with block rolls back, and the exception ends the process.
Fail(t) == End(t) /\ UNCHANGED catalog

\* Mutant: a record that another run inserts is not counted.
CountedIfInserted(t, how) ==
  /\ tally' = [tally EXCEPT ![t].inserted = @ + (IF how = "inserted" THEN 1 ELSE 0)]
  /\ pos' = [pos EXCEPT ![t] = @ + 1]
  /\ Go(t, IF pos[t] = Len(Records) THEN "commit" ELSE "select")
  /\ UNCHANGED <<catalog, own, edits, removed>>

\* The record is done, counted as the one or the other.
Counted(t, how) ==
  /\ tally' = [tally EXCEPT ![t][how] = @ + 1]
  /\ pos' = [pos EXCEPT ![t] = @ + 1]
  /\ Go(t, IF pos[t] = Len(Records) THEN "commit" ELSE "select")
  /\ UNCHANGED <<catalog, own, edits, removed>>

Begin(t) ==
  /\ At(t, "idle")
  /\ Go(t, "select")
  /\ pos' = [pos EXCEPT ![t] = 1]
  /\ UNCHANGED <<catalog, own, tally, edits, removed>>

\* A value needs the row of its type.
TypeKnown(t) == Record(t).type # "" => WithKey(Visible(t), Record(t).type) # {}

\* type_ids has no entry: a KeyError.  (The ids are read once, before the values; a type
\* removed later has no value yet and fails the run at its INSERT instead.)
TypeMissing(t) ==
  /\ At(t, "select")
  /\ ~TypeKnown(t)
  /\ Fail(t)

\* Mutant: a row with the code will do.
AnyIdentity(t) == TRUE

\* _validate_seed_identity
SameIdentity(t) == \A r \in WithKey(Visible(t), Record(t).key) : r.id = Record(t).id

Validated(t) == WithKey(Visible(t), Record(t).key) # {} /\ SameIdentity(t)

Exists(t) ==
  /\ At(t, "select")
  /\ TypeKnown(t)
  /\ Validated(t)
  /\ Counted(t, "existing")

IdentityConflict(t) ==
  /\ phase[t] \in {"select", "inserted", "existing"}
  /\ At(t, "select") => TypeKnown(t)
  /\ ~SameIdentity(t)
  /\ Fail(t)

Absent(t) ==
  /\ At(t, "select")
  /\ TypeKnown(t)
  /\ WithKey(Visible(t), Record(t).key) = {}
  /\ Go(t, "insert")
  /\ UNCHANGED <<catalog, pos, own, tally, edits, removed>>

\* Another transaction's uncommitted row with the key or the id: the INSERT waits.
InFlight(u, t) ==
  u # t /\ \E r \in own[u] : r.key = Record(t).key \/ r.id = Record(t).id

\* Mutant: the INSERT does not wait.
InsertAtOnce(t) ==
  /\ At(t, "insert")
  /\ TypeKnown(t)
  /\ \A r \in catalog : r.key # Record(t).key /\ r.id # Record(t).id
  /\ own' = [own EXCEPT ![t] = @ \union {RowOf(Record(t))}]
  /\ Go(t, "inserted")
  /\ UNCHANGED <<catalog, pos, tally, edits, removed>>

Insert(t) ==
  /\ At(t, "insert")
  /\ TypeKnown(t)
  /\ \A u \in Seeders : ~InFlight(u, t)
  /\ \A r \in catalog : r.key # Record(t).key /\ r.id # Record(t).id
  /\ own' = [own EXCEPT ![t] = @ \union {RowOf(Record(t))}]
  /\ Go(t, "inserted")
  /\ UNCHANGED <<catalog, pos, tally, edits, removed>>

\* ON CONFLICT (code) DO NOTHING
DoNothing(t) ==
  /\ At(t, "insert")
  /\ \A u \in Seeders : ~InFlight(u, t)
  /\ WithKey(catalog, Record(t).key) # {}
  /\ Go(t, "existing")
  /\ UNCHANGED <<catalog, pos, own, tally, edits, removed>>

\* The id is taken under another code, or the type is gone: an IntegrityError.
InsertRejected(t) ==
  /\ At(t, "insert")
  /\ \A u \in Seeders : ~InFlight(u, t)
  /\ WithKey(catalog, Record(t).key) = {}
  /\ ~TypeKnown(t) \/ \E r \in catalog : r.id = Record(t).id
  /\ Fail(t)

Confirm(t) ==
  /\ phase[t] \in {"inserted", "existing"}
  /\ Validated(t)
  /\ Counted(t, phase[t])

\* The row that was in the way has been removed before the second look.
SeedFailed(t) ==
  /\ At(t, "existing")
  /\ WithKey(Visible(t), Record(t).key) = {}
  /\ Fail(t)

Commit(t) ==
  /\ At(t, "commit")
  /\ catalog' = catalog \union own[t]
  /\ End(t)

\* The process or its connection is lost.
Lose(t) == phase[t] # "idle" /\ Fail(t)

\* A value refers to the type, so its row cannot be removed.
Referenced(row) ==
  \E i \in DOMAIN Records :
    /\ Records[i].type = row.key
    /\ RowOf(Records[i]) \in catalog \union UNION {own[t] : t \in Seeders}

\* Administrators insert and remove rows in transactions of their own; an insertion
\* that meets a row of the same key or id, committed or not, is given up.
Edit ==
  /\ edits < MaxEdits
  /\ edits' = edits + 1
  /\ \/ \E new \in EditRows :
          /\ \A r \in catalog \union UNION {own[t] : t \in Seeders} :
               r.key # new.key /\ r.id # new.id
          /\ catalog' = catalog \union {new}
          /\ UNCHANGED removed
     \/ \E r \in catalog :
          /\ ~Referenced(r)
          /\ catalog' = catalog \ {r}
          /\ removed' = removed \union {r.key}
  /\ UNCHANGED <<phase, pos, own, tally>>

Progress(t) ==
  \/ TypeMissing(t)
  \/ Exists(t)
  \/ IdentityConflict(t)
  \/ Absent(t)
  \/ Confirm(t)
  \/ SeedFailed(t)
  \/ Commit(t)

Inserting(t) ==
  \/ Insert(t)
  \/ DoNothing(t)
  \/ InsertRejected(t)

Next ==
  \/ Edit
  \/ \E t \in Seeders :
       \/ Begin(t)
       \/ Progress(t)
       \/ Inserting(t)
       \/ Lose(t)

Spec == Init /\ [][Next]_vars

\* A process that is not waiting runs on; an INSERT that waits is woken by the end of
\* the transaction it waits for, and in the long run gets its turn.
Fairness == \A t \in Seeders : WF_vars(Progress(t)) /\ SF_vars(Inserting(t))

FairSpec == Spec /\ Fairness

-----------------------------------------------------------------------------
(***************************************************************************)
(* Properties                                                              *)
(***************************************************************************)
\* Every variable has its type, and a run has counted each record it is past.
TypeOK ==
  /\ catalog \subseteq Rows
  /\ phase \in [Seeders -> {"idle", "select", "insert", "inserted", "existing", "commit"}]
  /\ \A t \in Seeders :
       /\ own[t] \subseteq Baseline
       /\ pos[t] \in 0..Len(Records) + 1
       /\ phase[t] = "idle" <=> pos[t] = 0
       /\ phase[t] # "idle" => tally[t].inserted + tally[t].existing = pos[t] - 1
       /\ tally[t].inserted <= Cardinality(own[t])
  /\ edits \in 0..MaxEdits
  /\ removed \subseteq {r.key : r \in Rows}

\* Concurrent runs do not create duplicates: a code names one row of its catalog and an
\* id is used once, also among the rows that runs have inserted and not yet committed.
NoDuplicates ==
  /\ \A r, s \in catalog \union UNION {own[t] : t \in Seeders} :
       r.key = s.key \/ r.id = s.id => r = s
  /\ \A t \in Seeders :
       /\ own[t] \intersect catalog = {}
       /\ \A u \in Seeders \ {t} : own[t] \intersect own[u] = {}

\* A run that is about to commit leaves the whole baseline behind, each code with its
\* deterministic id, whatever other runs did meanwhile; only a row that administrators
\* removed may be missing, or stand in for one they removed.
BaselineComplete ==
  \A t \in Seeders : phase[t] = "commit" =>
    \A row \in Baseline : row \in Visible(t) \/ row.key \in removed

\* Runs that wait for one another's rows do not wait in a circle, so each run ends.
RunsEnd == \A t \in Seeders : phase[t] # "idle" ~> phase[t] = "idle"
=============================================================================
