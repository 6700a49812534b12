------------------------- MODULE CatalogSeedProofs --------------------------
(***************************************************************************)
(* Proofs about CatalogSeed, for any baseline, any number of runs and any  *)
(* edits of the administrators.                                            *)
(***************************************************************************)
EXTENDS CatalogSeed, FiniteSetTheorems, SequenceTheorems, TLAPS

(***************************************************************************)
(* The inductive invariant.  The rows a run has inserted are those of      *)
(* records it is past, which is why no run inserts a row twice, and what it*)
(* is past it has left behind.                                             *)
(***************************************************************************)
Typed ==
  /\ catalog \subseteq Rows
  /\ phase \in [Seeders -> {"idle", "select", "insert", "inserted", "existing", "commit"}]
  /\ pos \in [Seeders -> Nat]
  /\ own \in [Seeders -> SUBSET Baseline]
  /\ tally \in [Seeders -> [inserted : Nat, existing : Nat]]
  /\ edits \in 0..MaxEdits
  /\ removed \subseteq {r.key : r \in Rows}

Placed(t) ==
  /\ phase[t] = "idle" => pos[t] = 0
  /\ phase[t] = "commit" => pos[t] = Len(Records) + 1
  /\ phase[t] \notin {"idle", "commit"} => pos[t] \in 1..Len(Records)

OwnIsPast(t) ==
  \A r \in own[t] : \E i \in DOMAIN Records :
    r = RowOf(Records[i]) /\ (i < pos[t] \/ (i = pos[t] /\ phase[t] = "inserted"))

Counts(t) ==
  /\ phase[t] = "idle" => tally[t] = NoTally
  /\ phase[t] # "idle" => tally[t].inserted + tally[t].existing = pos[t] - 1
  /\ IsFiniteSet(own[t])
  /\ tally[t].inserted + (IF phase[t] = "inserted" THEN 1 ELSE 0) <= Cardinality(own[t])

LeftBehind(t) ==
  \A i \in DOMAIN Records : i < pos[t] =>
    RowOf(Records[i]) \in Visible(t) \/ Records[i].key \in removed

Consistent(t) == Placed(t) /\ OwnIsPast(t) /\ Counts(t) /\ LeftBehind(t)

Inv == Typed /\ NoDuplicates /\ \A t \in Seeders : Consistent(t)

-----------------------------------------------------------------------------
LEMMA RecordsShape ==
  /\ Len(Records) \in Nat \ {0}
  /\ DOMAIN Records = 1..Len(Records)
  /\ \A i \in 1..Len(Records) : Records[i] \in [key : STRING, id : STRING, type : STRING]
  BY SeedConstants, LenProperties, EmptySeq, ElementOfSeq

LEMMA RowsAreRecords ==
  ASSUME NEW r \in Rows
  PROVE  r = [key |-> r.key, id |-> r.id]
  <1>1. CASE r \in Baseline
    BY <1>1 DEF Baseline, RowOf
  <1>2. CASE r \in EditRows
    BY <1>2, SeedConstants
  <1> QED
    BY <1>1, <1>2 DEF Rows

LEMMA BaselineInRows == Baseline \subseteq Rows
  BY DEF Rows

LEMMA InitInv == Init => Inv
  <1> SUFFICES ASSUME Init
               PROVE  Inv
    OBVIOUS
  <1>1. Typed
    BY SeedConstants DEF Init, Typed, NoTally
  <1>2. NoDuplicates
    BY DEF Init, NoDuplicates
  <1>3. ASSUME NEW t \in Seeders
        PROVE  Consistent(t)
    <2>1. pos[t] = 0 /\ phase[t] = "idle" /\ own[t] = {} /\ tally[t] = NoTally
      BY DEF Init
    <2>2. Placed(t) /\ OwnIsPast(t)
      BY <2>1 DEF Placed, OwnIsPast
    <2>3. Counts(t)
      BY <2>1, FS_EmptySet DEF Counts, NoTally
    <2>4. LeftBehind(t)
      BY <2>1, RecordsShape DEF LeftBehind
    <2> QED
      BY <2>2, <2>3, <2>4 DEF Consistent
  <1> QED
    BY <1>1, <1>2, <1>3 DEF Inv

\* A run is not disturbed by rows that come, nor by removals that are recorded.
LEMMA OthersConsistent ==
  ASSUME Typed, NEW t \in Seeders, Consistent(t),
         phase'[t] = phase[t], pos'[t] = pos[t], own'[t] = own[t], tally'[t] = tally[t],
         removed \subseteq removed',
         \A r \in catalog : r \in catalog' \/ r.key \in removed'
  PROVE  Consistent(t)'
  <1>1. Placed(t)' /\ OwnIsPast(t)' /\ Counts(t)'
    BY DEF Consistent, Placed, OwnIsPast, Counts
  <1>2. LeftBehind(t)'
    <2> SUFFICES ASSUME NEW i \in DOMAIN Records, i < pos[t]
                 PROVE  RowOf(Records[i]) \in Visible(t)' \/ Records[i].key \in removed'
      BY DEF LeftBehind
    <2>1. RowOf(Records[i]).key = Records[i].key
      BY DEF RowOf
    <2> QED
      BY <2>1 DEF Consistent, LeftBehind, Visible
  <1> QED
    BY <1>1, <1>2 DEF Consistent

-----------------------------------------------------------------------------
(***************************************************************************)
(* The steps                                                               *)
(***************************************************************************)
LEMMA EndInv ==
  ASSUME Inv, NEW t \in Seeders, End(t), catalog' = catalog \/ catalog' = catalog \union own[t]
  PROVE  Inv'
  <1>1. /\ phase'[t] = "idle" /\ pos'[t] = 0 /\ own'[t] = {} /\ tally'[t] = NoTally
        /\ \A u \in Seeders \ {t} : /\ phase'[u] = phase[u] /\ pos'[u] = pos[u]
                                    /\ own'[u] = own[u] /\ tally'[u] = tally[u]
        /\ edits' = edits /\ removed' = removed
    BY DEF End, Go, Inv, Typed
  <1>2. Typed'
    BY BaselineInRows DEF End, Go, Inv, Typed, NoTally
  <1>3. NoDuplicates'
    BY <1>1 DEF Inv, NoDuplicates
  <1>4. Consistent(t)'
    <2>1. Placed(t)' /\ OwnIsPast(t)'
      BY <1>1 DEF Placed, OwnIsPast
    <2>2. Counts(t)'
      BY <1>1, FS_EmptySet DEF Counts, NoTally
    <2>3. LeftBehind(t)'
      BY <1>1, RecordsShape DEF LeftBehind
    <2> QED
      BY <2>1, <2>2, <2>3 DEF Consistent
  <1>5. ASSUME NEW u \in Seeders \ {t}
        PROVE  Consistent(u)'
    BY <1>1, OthersConsistent DEF Inv
  <1> QED
    BY <1>2, <1>3, <1>4, <1>5 DEF Inv

LEMMA BeginInv ==
  ASSUME Inv, NEW t \in Seeders, Begin(t)
  PROVE  Inv'
  <1>1. /\ phase'[t] = "select" /\ pos'[t] = 1 /\ phase[t] = "idle"
        /\ \A u \in Seeders \ {t} : phase'[u] = phase[u] /\ pos'[u] = pos[u]
        /\ UNCHANGED <<catalog, own, tally, edits, removed>>
    BY DEF Begin, At, Go, Inv, Typed
  <1>2. Typed'
    BY DEF Begin, At, Go, Inv, Typed
  <1>3. NoDuplicates'
    BY <1>1 DEF Inv, NoDuplicates
  <1>4. Consistent(t)'
    <2>1. tally[t] = NoTally /\ IsFiniteSet(own[t]) /\ 0 <= Cardinality(own[t])
      BY <1>1, FS_CardinalityType DEF Inv, Consistent, Counts
    <2>2. own[t] = {}
      BY <1>1, RecordsShape DEF Inv, Consistent, Placed, OwnIsPast
    <2>3. Placed(t)' /\ OwnIsPast(t)'
      BY <1>1, <2>2, RecordsShape DEF Placed, OwnIsPast
    <2>4. Counts(t)'
      BY <1>1, <2>1 DEF Counts, NoTally
    <2>5. LeftBehind(t)'
      BY <1>1, RecordsShape DEF LeftBehind
    <2> QED
      BY <2>3, <2>4, <2>5 DEF Consistent
  <1>5. ASSUME NEW u \in Seeders \ {t}
        PROVE  Consistent(u)'
    BY <1>1, OthersConsistent DEF Inv
  <1> QED
    BY <1>2, <1>3, <1>4, <1>5 DEF Inv

\* The record a run is at, while it is at one.
LEMMA RecordAt ==
  ASSUME Inv, NEW t \in Seeders, phase[t] \notin {"idle", "commit"}
  PROVE  /\ pos[t] \in DOMAIN Records /\ pos[t] \in 1..Len(Records)
         /\ Record(t) = Records[pos[t]]
         /\ RowOf(Record(t)) \in Baseline
         /\ RowOf(Record(t)) = [key |-> Record(t).key, id |-> Record(t).id]
  BY RecordsShape DEF Inv, Consistent, Placed, Record, RecordsOf, Baseline, RowOf

\* A row that passes the comparison of the ids is the record's.
LEMMA ValidatedIsVisible ==
  ASSUME Inv, NEW t \in Seeders, phase[t] \notin {"idle", "commit"}, Validated(t)
  PROVE  RowOf(Record(t)) \in Visible(t)
  <1>1. PICK r \in WithKey(Visible(t), Record(t).key) : r.id = Record(t).id
    BY DEF Validated, SameIdentity
  <1>2. r \in Visible(t) /\ r.key = Record(t).key
    BY DEF WithKey
  <1>3. r \in Rows
    BY <1>2, BaselineInRows DEF Visible, Inv, Typed
  <1> QED
    BY <1>1, <1>2, <1>3, RowsAreRecords, RecordAt

LEMMA CountedInv ==
  ASSUME Inv, NEW t \in Seeders, NEW how \in {"inserted", "existing"}, Counted(t, how),
         phase[t] \in {"select", "inserted", "existing"}, Validated(t),
         how = "inserted" <=> phase[t] = "inserted"
  PROVE  Inv'
  <1>1. /\ pos[t] \in 1..Len(Records) /\ pos[t] \in DOMAIN Records
        /\ Record(t) = Records[pos[t]]
    BY RecordAt
  <1>2. /\ phase'[t] = IF pos[t] = Len(Records) THEN "commit" ELSE "select"
        /\ pos'[t] = pos[t] + 1
        /\ \A u \in Seeders \ {t} : /\ phase'[u] = phase[u] /\ pos'[u] = pos[u]
                                    /\ tally'[u] = tally[u]
        /\ UNCHANGED <<catalog, own, edits, removed>>
    BY DEF Counted, Go, Inv, Typed
  <1>3. /\ tally'[t] \in [inserted : Nat, existing : Nat]
        /\ tally'[t].inserted = tally[t].inserted + (IF how = "inserted" THEN 1 ELSE 0)
        /\ tally'[t].existing = tally[t].existing + (IF how = "inserted" THEN 0 ELSE 1)
        /\ tally' \in [Seeders -> [inserted : Nat, existing : Nat]]
    <2>1. CASE how = "inserted"
      BY <2>1 DEF Counted, Inv, Typed
    <2>2. CASE how = "existing"
      BY <2>2 DEF Counted, Inv, Typed
    <2> QED
      BY <2>1, <2>2
  <1>4. Typed'
    BY <1>2, <1>3 DEF Counted, Go, Inv, Typed
  <1>5. NoDuplicates'
    BY <1>2 DEF Inv, NoDuplicates
  <1>6. Consistent(t)'
    <2>1. Placed(t)'
      BY <1>1, <1>2, RecordsShape DEF Placed
    <2>2. OwnIsPast(t)'
      BY <1>1, <1>2, RecordsShape DEF Inv, Consistent, OwnIsPast
    <2>3. Counts(t)'
      <3>1. /\ tally[t].inserted + tally[t].existing = pos[t] - 1
            /\ IsFiniteSet(own[t])
            /\ tally[t].inserted + (IF phase[t] = "inserted" THEN 1 ELSE 0)
                 <= Cardinality(own[t])
            /\ tally[t].inserted \in Nat /\ tally[t].existing \in Nat
        BY DEF Inv, Typed, Consistent, Counts
      <3>2. pos[t] \in Nat /\ phase'[t] \in {"commit", "select"}
        BY <1>1, <1>2, RecordsShape
      <3>3. Cardinality(own[t]) \in Nat
        BY <3>1, FS_CardinalityType
      <3>4. /\ tally'[t].inserted \in Nat
            /\ tally'[t].inserted + tally'[t].existing = pos'[t] - 1
            /\ tally'[t].inserted <= Cardinality(own[t])
        <4>1. CASE how = "inserted"
          <5>1. tally'[t].inserted = tally[t].inserted + 1 /\ tally'[t].existing = tally[t].existing
            BY <1>3, <3>1, <4>1
          <5>2. tally[t].inserted + 1 <= Cardinality(own[t])
            BY <3>1, <4>1
          <5>3. pos'[t] = pos[t] + 1
            BY <1>2
          <5> QED
            BY <3>1, <3>2, <3>3, <5>1, <5>2, <5>3
        <4>2. CASE how = "existing"
          <5>1. tally'[t].inserted = tally[t].inserted /\ tally'[t].existing = tally[t].existing + 1
            BY <1>3, <3>1, <4>2
          <5>2. tally[t].inserted <= Cardinality(own[t])
            BY <3>1, <4>2
          <5>3. pos'[t] = pos[t] + 1
            BY <1>2
          <5> QED
            BY <3>1, <3>2, <3>3, <5>1, <5>2, <5>3
        <4> QED
          BY <4>1, <4>2
      <3> QED
        BY <1>2, <3>1, <3>2, <3>4 DEF Counts
    <2>4. LeftBehind(t)'
      <3> SUFFICES ASSUME NEW i \in DOMAIN Records, i < pos[t] + 1
                   PROVE  RowOf(Records[i]) \in Visible(t) \/ Records[i].key \in removed
        BY <1>2 DEF LeftBehind, Visible
      <3>1. i < pos[t] \/ i = pos[t]
        BY <1>1, RecordsShape
      <3>2. CASE i < pos[t]
        BY <3>2 DEF Inv, Consistent, LeftBehind
      <3>3. CASE i = pos[t]
        BY <1>1, <3>3, ValidatedIsVisible
      <3> QED
        BY <3>1, <3>2, <3>3
    <2> QED
      BY <2>1, <2>2, <2>3, <2>4 DEF Consistent
  <1>7. ASSUME NEW u \in Seeders \ {t}
        PROVE  Consistent(u)'
    BY <1>2, OthersConsistent DEF Inv
  <1> QED
    BY <1>4, <1>5, <1>6, <1>7 DEF Inv

LEMMA LookInv ==
  ASSUME Inv, NEW t \in Seeders, Absent(t) \/ DoNothing(t)
  PROVE  Inv'
  <1>1. /\ phase[t] \in {"select", "insert"} /\ phase'[t] \in {"insert", "existing"}
        /\ \A u \in Seeders \ {t} : phase'[u] = phase[u]
        /\ UNCHANGED <<catalog, pos, own, tally, edits, removed>>
    BY DEF Absent, DoNothing, At, Go, Inv, Typed
  <1>2. Typed'
    BY <1>1 DEF Absent, DoNothing, Go, Inv, Typed
  <1>3. NoDuplicates'
    BY <1>1 DEF Inv, NoDuplicates
  <1>4. Consistent(t)'
    BY <1>1 DEF Inv, Consistent, Placed, OwnIsPast, Counts, LeftBehind, Visible
  <1>5. ASSUME NEW u \in Seeders \ {t}
        PROVE  Consistent(u)'
    BY <1>1, OthersConsistent DEF Inv
  <1> QED
    BY <1>2, <1>3, <1>4, <1>5 DEF Inv

\* A run inserts no row that another has inserted, nor one of its own again.
LEMMA InsertInv ==
  ASSUME Inv, NEW t \in Seeders, Insert(t)
  PROVE  Inv'
  <1> DEFINE row == RowOf(Record(t))
  <1>1. /\ phase[t] = "insert" /\ phase'[t] = "inserted"
        /\ own'[t] = own[t] \union {row}
        /\ \A u \in Seeders \ {t} : phase'[u] = phase[u] /\ own'[u] = own[u]
        /\ UNCHANGED <<catalog, pos, tally, edits, removed>>
    BY DEF Insert, At, Go, Inv, Typed
  <1>2. /\ pos[t] \in DOMAIN Records /\ pos[t] \in 1..Len(Records) /\ row \in Baseline
        /\ row = RowOf(Records[pos[t]])
        /\ row.key = Record(t).key /\ row.id = Record(t).id
    BY <1>1, RecordAt
  <1>3. \A r \in own[t] : r.key # row.key /\ r.id # row.id
    <2> SUFFICES ASSUME NEW r \in own[t]
                 PROVE  r.key # row.key /\ r.id # row.id
      OBVIOUS
    <2>1. PICK i \in DOMAIN Records : r = RowOf(Records[i]) /\ i < pos[t]
      BY <1>1 DEF Inv, Consistent, OwnIsPast
    <2>2. Records[i].key # Records[pos[t]].key /\ Records[i].id # Records[pos[t]].id
      BY <1>2, <2>1, SeedConstants, RecordsShape
    <2> QED
      BY <1>2, <2>1, <2>2 DEF RowOf
  <1>4. /\ \A r \in catalog : r.key # row.key /\ r.id # row.id
        /\ \A u \in Seeders \ {t} : \A r \in own[u] : r.key # row.key /\ r.id # row.id
    BY <1>2 DEF Insert, InFlight
  <1>5. Typed'
    BY <1>2 DEF Insert, At, Go, Inv, Typed
  <1>6. NoDuplicates'
    <2>1. \A r \in catalog \union UNION {own[u] : u \in Seeders} :
            r.key # row.key /\ r.id # row.id
      BY <1>3, <1>4
    <2>2. UNION {own'[u] : u \in Seeders} = (UNION {own[u] : u \in Seeders}) \union {row}
      BY <1>1
    <2>3. \A r, s \in catalog \union UNION {own[u] : u \in Seeders} :
            r.key = s.key \/ r.id = s.id => r = s
      BY DEF Inv, NoDuplicates
    <2>4. \A r, s \in catalog \union UNION {own'[u] : u \in Seeders} :
            r.key = s.key \/ r.id = s.id => r = s
      BY <2>1, <2>2, <2>3
    <2>5. \A u \in Seeders :
            /\ own'[u] \intersect catalog = {}
            /\ \A v \in Seeders \ {u} : own'[u] \intersect own'[v] = {}
      BY <1>1, <1>3, <1>4 DEF Inv, NoDuplicates
    <2> QED
      BY <1>1, <2>4, <2>5 DEF NoDuplicates
  <1>7. Consistent(t)'
    <2>1. Placed(t)'
      BY <1>1 DEF Inv, Consistent, Placed
    <2>2. OwnIsPast(t)'
      BY <1>1, <1>2 DEF Inv, Consistent, OwnIsPast
    <2>3. Counts(t)'
      <3>1. /\ tally[t].inserted + tally[t].existing = pos[t] - 1
            /\ IsFiniteSet(own[t]) /\ tally[t].inserted <= Cardinality(own[t])
            /\ tally[t].inserted \in Nat
        BY <1>1 DEF Inv, Typed, Consistent, Counts
      <3>2. row \notin own[t]
        BY <1>3
      <3>3. /\ IsFiniteSet(own[t] \union {row})
            /\ Cardinality(own[t] \union {row}) = Cardinality(own[t]) + 1
            /\ Cardinality(own[t]) \in Nat
        BY <3>1, <3>2, FS_AddElement, FS_CardinalityType
      <3> QED
        BY <1>1, <3>1, <3>3 DEF Counts
    <2>4. LeftBehind(t)'
      BY <1>1 DEF Inv, Consistent, LeftBehind, Visible
    <2> QED
      BY <2>1, <2>2, <2>3, <2>4 DEF Consistent
  <1>8. ASSUME NEW u \in Seeders \ {t}
        PROVE  Consistent(u)'
    BY <1>1, OthersConsistent DEF Inv
  <1> QED
    BY <1>5, <1>6, <1>7, <1>8 DEF Inv

LEMMA EditInv ==
  ASSUME Inv, Edit
  PROVE  Inv'
  <1>1. UNCHANGED <<phase, pos, own, tally>> /\ edits' = edits + 1 /\ edits < MaxEdits
    BY DEF Edit
  <1>2. CASE \E new \in EditRows :
               /\ \A r \in catalog \union UNION {own[t] : t \in Seeders} :
                    r.key # new.key /\ r.id # new.id
               /\ catalog' = catalog \union {new}
               /\ UNCHANGED removed
    <2>1. PICK new \in EditRows :
            /\ \A r \in catalog \union UNION {own[t] : t \in Seeders} :
                 r.key # new.key /\ r.id # new.id
            /\ catalog' = catalog \union {new}
            /\ removed' = removed
      BY <1>2
    <2>2. Typed'
      BY <1>1, <2>1, SeedConstants DEF Inv, Typed, Rows
    <2>3. NoDuplicates'
      BY <1>1, <2>1 DEF Inv, NoDuplicates
    <2>4. \A t \in Seeders : Consistent(t)'
      BY <1>1, <2>1, OthersConsistent DEF Inv
    <2> QED
      BY <2>2, <2>3, <2>4 DEF Inv
  <1>3. CASE \E r \in catalog :
               catalog' = catalog \ {r} /\ removed' = removed \union {r.key}
    <2>1. PICK r \in catalog :
            catalog' = catalog \ {r} /\ removed' = removed \union {r.key}
      BY <1>3
    <2>2. Typed'
      BY <1>1, <2>1, SeedConstants DEF Inv, Typed
    <2>3. NoDuplicates'
      BY <1>1, <2>1 DEF Inv, NoDuplicates
    <2>4. \A t \in Seeders : Consistent(t)'
      BY <1>1, <2>1, OthersConsistent DEF Inv
    <2> QED
      BY <2>2, <2>3, <2>4 DEF Inv
  <1> QED
    BY <1>2, <1>3 DEF Edit

LEMMA NextInv ==
  ASSUME Inv, [Next]_vars
  PROVE  Inv'
  <1>1. CASE UNCHANGED vars
    <2>1. Typed' /\ NoDuplicates'
      BY <1>1 DEF vars, Inv, Typed, NoDuplicates
    <2>2. \A t \in Seeders : Consistent(t)'
      BY <1>1, OthersConsistent DEF vars, Inv
    <2> QED
      BY <2>1, <2>2 DEF Inv
  <1>2. ASSUME NEW t \in Seeders, Fail(t) \/ Commit(t)
        PROVE  Inv'
    BY <1>2, EndInv DEF Fail, Commit
  <1>3. ASSUME NEW t \in Seeders, Exists(t)
        PROVE  Inv'
    BY <1>3, CountedInv DEF Exists, At
  <1>4. ASSUME NEW t \in Seeders, Confirm(t)
        PROVE  Inv'
    BY <1>4, CountedInv DEF Confirm
  <1> QED
    BY <1>1, <1>2, <1>3, <1>4, BeginInv, LookInv, InsertInv, EditInv
    DEF Next, Progress, Inserting, TypeMissing, IdentityConflict, SeedFailed, InsertRejected,
        Lose

LEMMA Invariant == Spec => []Inv
  BY InitInv, NextInv, PTL DEF Spec

-----------------------------------------------------------------------------
\* Every variable keeps its type, and a run has counted each record it is past.
THEOREM SeedTyped == Spec => []TypeOK
  <1>1. Inv => TypeOK
    <2> SUFFICES ASSUME Inv
                 PROVE  TypeOK
      OBVIOUS
    <2>1. ASSUME NEW t \in Seeders
          PROVE  /\ own[t] \subseteq Baseline
                 /\ pos[t] \in 0..Len(Records) + 1
                 /\ phase[t] = "idle" <=> pos[t] = 0
                 /\ phase[t] # "idle" => tally[t].inserted + tally[t].existing = pos[t] - 1
                 /\ tally[t].inserted <= Cardinality(own[t])
      <3>1. /\ tally[t].inserted \in Nat /\ own[t] \subseteq Baseline
            /\ Placed(t) /\ Counts(t)
        BY DEF Inv, Typed, Consistent
      <3>2. Cardinality(own[t]) \in Nat
        BY <3>1, FS_CardinalityType DEF Counts
      <3> QED
        BY <3>1, <3>2, RecordsShape DEF Placed, Counts
    <2> QED
      BY <2>1 DEF Inv, Typed, TypeOK
  <1> QED
    BY <1>1, Invariant, PTL

\* However many runs overlap, a code names one row and an id is used once.
THEOREM RunsCreateNoDuplicates == Spec => []NoDuplicates
  <1>1. Inv => NoDuplicates
    BY DEF Inv
  <1> QED
    BY <1>1, Invariant, PTL

\* A run that is about to commit leaves the whole baseline behind, but for what
\* administrators removed.
THEOREM RunsLeaveBaseline == Spec => []BaselineComplete
  <1>1. Inv => BaselineComplete
    <2> SUFFICES ASSUME Inv, NEW t \in Seeders, phase[t] = "commit", NEW row \in Baseline
                 PROVE  row \in Visible(t) \/ row.key \in removed
      BY DEF BaselineComplete
    <2>1. PICK i \in DOMAIN Records : row = RowOf(Records[i])
      BY DEF Baseline
    <2>2. i < pos[t]
      BY RecordsShape DEF Inv, Consistent, Placed
    <2> QED
      BY <2>1, <2>2 DEF Inv, Consistent, LeftBehind, RowOf
  <1> QED
    BY <1>1, Invariant, PTL
=============================================================================
