-------------------------- MODULE ReadModelsProofs --------------------------
(***************************************************************************)
(* Proofs about ReadModels, for any number of resources, facts, states and *)
(* instants, and any number of commits beside a read.                      *)
(***************************************************************************)
EXTENDS ReadModels, FiniteSetTheorems, SequenceTheorems, TLAPS

(***************************************************************************)
(* What is committed                                                       *)
(***************************************************************************)
TimelinesOrdered ==
  /\ timeline \in [Resources -> Seq(StateRows)]
  /\ \A r \in Resources : \A i, j \in 1..Len(timeline[r]) :
       i < j => timeline[r][i].at < timeline[r][j].at

FactsClear ==
  /\ facts \subseteq Facts
  /\ \A f, g \in facts : Clashes(f, g) => f = g

MergedOnce ==
  /\ merges \subseteq MergeRows
  /\ \A m, n \in merges : m.source = n.source => m = n

WritesInv == TimelinesOrdered /\ FactsClear /\ MergedOnce

ShownTyped == shown \in [Resources -> States]

\* Rows are added and never changed.
Grows ==
  /\ facts \subseteq facts'
  /\ merges \subseteq merges'
  /\ \A r \in Resources :
       /\ Len(timeline[r]) <= Len(timeline'[r])
       /\ \A i \in 1..Len(timeline[r]) : timeline'[r][i] = timeline[r][i]

LEMMA ClashesSymmetric ==
  ASSUME NEW f, NEW g, Clashes(f, g)
  PROVE  Clashes(g, f)
  BY DEF Clashes

LEMMA TransitionGrows ==
  ASSUME TimelinesOrdered, Transitions!TimelineNext
  PROVE  /\ TimelinesOrdered'
         /\ \A r \in Resources :
              /\ Len(timeline[r]) <= Len(timeline'[r])
              /\ \A i \in 1..Len(timeline[r]) : timeline'[r][i] = timeline[r][i]
  <1>1. PICK r \in Resources, s \in States, at \in Times : Transitions!Enter(r, s, at)
    BY DEF Transitions!TimelineNext
  <1> DEFINE row == [state |-> s, at |-> at]
             old == timeline[r]
             new == Append(old, row)
  <1>2. row \in StateRows /\ old \in Seq(StateRows)
    BY DEF StateRows, TimelinesOrdered
  <1>3. timeline' = [timeline EXCEPT ![r] = new]
    BY <1>1 DEF Transitions!Enter
  <1>10. ASSUME NEW k \in 1..Len(old)
         PROVE  old[k].at \in Nat
    <2>1. old[k] \in StateRows
      BY <1>2
    <2> QED
      BY <2>1, ReadConstants DEF StateRows
  <1>11. row.at = at /\ at \in Nat
    BY ReadConstants
  <1> HIDE DEF row
  <1>4. /\ new \in Seq(StateRows)
        /\ Len(new) = Len(old) + 1
        /\ new[Len(old) + 1] = row
        /\ \A i \in 1..Len(old) : new[i] = old[i]
    BY <1>2
  <1> HIDE DEF new
  <1>5. \A i, j \in 1..Len(new) : i < j => new[i].at < new[j].at
    <2> SUFFICES ASSUME NEW i \in 1..Len(new), NEW j \in 1..Len(new), i < j
                 PROVE  new[i].at < new[j].at
      OBVIOUS
    <2>1. Len(old) \in Nat
      BY <1>2
    <2>2. CASE j \in 1..Len(old)
      BY <2>1, <2>2, <1>4 DEF TimelinesOrdered
    <2>3. CASE j = Len(old) + 1
      <3>1. i \in 1..Len(old) /\ new[i] = old[i] /\ new[j] = row
        BY <2>1, <2>3, <1>4
      <3>2. old # <<>>
        BY <3>1, <1>2
      <3>3. old[Len(old)].at < at
        BY <3>2, <1>1 DEF Transitions!Enter, Transitions!Latest
      <3>4. old[i].at <= old[Len(old)].at
        <4>1. CASE i = Len(old)
          BY <4>1, <3>1, <1>10
        <4>2. CASE i < Len(old)
          <5>1. Len(old) \in 1..Len(old)
            BY <4>2, <3>1, <2>1
          <5>2. old[i].at < old[Len(old)].at
            BY <5>1, <4>2, <3>1 DEF TimelinesOrdered
          <5>3. old[i].at \in Nat /\ old[Len(old)].at \in Nat
            BY <5>1, <3>1, <1>10
          <5> QED
            BY <5>2, <5>3
        <4> QED
          BY <4>1, <4>2, <3>1, <2>1
      <3>5. old[i].at \in Nat /\ old[Len(old)].at \in Nat /\ at \in Nat
        BY <3>1, <2>1, <1>10, <1>11
      <3> QED
        BY <3>1, <3>3, <3>4, <3>5, <1>11
    <2> QED
      BY <2>1, <2>2, <2>3, <1>4
  <1>6. ASSUME NEW q \in Resources
        PROVE  timeline'[q] = IF q = r THEN new ELSE timeline[q]
    BY <1>3 DEF TimelinesOrdered
  <1>7. timeline' \in [Resources -> Seq(StateRows)]
    BY <1>3, <1>4 DEF TimelinesOrdered
  <1>8. TimelinesOrdered'
    BY <1>5, <1>6, <1>7 DEF TimelinesOrdered, StateRows
  <1>9. ASSUME NEW q \in Resources
        PROVE  /\ Len(timeline[q]) <= Len(timeline'[q])
               /\ \A i \in 1..Len(timeline[q]) : timeline'[q][i] = timeline[q][i]
    <2>1. Len(timeline[q]) \in Nat
      BY DEF TimelinesOrdered
    <2> QED
      BY <2>1, <1>4, <1>6
  <1> QED
    BY <1>8, <1>9

LEMMA AssignGrows ==
  ASSUME FactsClear, Assignments!Record
  PROVE  FactsClear' /\ facts \subseteq facts'
  <1>1. PICK f \in Facts : /\ \A g \in facts : ~Clashes(f, g)
                           /\ facts' = facts \union {f}
    BY DEF Assignments!Record
  <1>2. \A g \in facts : ~Clashes(g, f)
    BY <1>1, ClashesSymmetric
  <1> QED
    BY <1>1, <1>2 DEF FactsClear

LEMMA MergeGrows ==
  ASSUME MergedOnce, Lineage!RecordMerge
  PROVE  MergedOnce' /\ merges \subseteq merges'
  <1>1. PICK s, t \in Resources :
          /\ Lineage!Recordable(s, t)
          /\ merges' = merges \union {[source |-> s, target |-> t]}
    BY DEF Lineage!RecordMerge
  <1>2. \A m \in merges : m.source # s
    BY <1>1 DEF Lineage!Recordable, Lineage!Joined, MergedOnce, MergeRows
  <1> QED
    BY <1>1, <1>2 DEF MergedOnce, MergeRows

\* Rows are only added, and keep what makes every look-up find one row at most.
LEMMA WritesGrow ==
  ASSUME WritesInv, [Next]_vars
  PROVE  WritesInv' /\ Grows
  <1> USE DEF WritesInv, Grows
  <1>1. \A r \in Resources : Len(timeline[r]) <= Len(timeline[r])
    BY DEF TimelinesOrdered
  <1>7. timeline' = timeline => TimelinesOrdered'
    BY DEF TimelinesOrdered
  <1>8. facts' = facts => FactsClear'
    BY DEF FactsClear
  <1>9. merges' = merges => MergedOnce'
    BY DEF MergedOnce
  <1>2. CASE Transition
    BY <1>2, <1>8, <1>9, TransitionGrows DEF Transition
  <1>3. CASE Assign
    BY <1>1, <1>3, <1>7, <1>9, AssignGrows DEF Assign
  <1>4. CASE Merge
    BY <1>1, <1>4, <1>7, <1>8, MergeGrows DEF Merge
  <1>5. CASE UNCHANGED rows
    BY <1>1, <1>5, <1>7, <1>8, <1>9 DEF rows
  <1>6. CASE ~(Transition \/ Assign \/ Merge)
    <2>1. UNCHANGED rows
      BY <1>6 DEF Next, vars, rows, Ask, ReadExists, ReadCore, ReadStates, ReadOwnership, ReadLabels,
        ReadClassifications, ReadIdentifiers, ReadAliases, ReadRelationships,
        FindByIdentifier, FindByAlias, OneOf, Execute, NotFound, RespondDetails,
        RespondHistory, RespondRelationships, RespondIdentifier, RespondAlias, RespondId,
        Respond
    <2> QED
      BY <2>1, <1>5
  <1> QED
    BY <1>2, <1>3, <1>4, <1>6

LEMMA InitWrites == Init => WritesInv
  <1> SUFFICES ASSUME Init
               PROVE  WritesInv
    OBVIOUS
  <1>1. timeline \in [Resources -> Seq(StateRows)] /\ \A r \in Resources : Len(timeline[r]) = 0
    BY DEF Init
  <1> QED
    BY <1>1 DEF Init, WritesInv, TimelinesOrdered, FactsClear, MergedOnce

-----------------------------------------------------------------------------
(***************************************************************************)
(* At most one row                                                         *)
(***************************************************************************)
LEMMA OuterIsOne ==
  ASSUME NEW S, \A x, y \in S : x = y
  PROVE  \E x : Outer(S) = {x}
  <1>1. CASE S = {}
    BY <1>1 DEF Outer
  <1>2. CASE S # {}
    <2>1. PICK x \in S : TRUE
      BY <1>2
    <2>2. S = {x}
      BY <2>1
    <2> QED
      BY <1>2, <2>2 DEF Outer
  <1> QED
    BY <1>1, <1>2

LEMMA CoreIsOne ==
  ASSUME WritesInv, NEW r \in Resources
  PROVE  \E x : CoreRows(r) = {x}
  <1>1. PICK s : Outer(CurrentState(r)) = {s}
    BY OuterIsOne DEF CurrentState
  <1>2. PICK o : Outer(PrimaryOwner(r)) = {o}
    <2>1. \A f, g \in facts :
            Owned(f) /\ Owned(g) /\ f.resource = r /\ g.resource = r => f = g
      BY DEF WritesInv, FactsClear, Clashes, Owned
    <2>2. \A x, y \in PrimaryOwner(r) : x = y
      BY <2>1 DEF PrimaryOwner
    <2> QED
      BY <2>2, OuterIsOne
  <1>3. PICK m : Outer(OutgoingMerge(r)) = {m}
    <2>1. \A x, y \in OutgoingMerge(r) : x = y
      BY DEF WritesInv, MergedOnce, OutgoingMerge
    <2> QED
      BY <2>1, OuterIsOne
  <1>4. CoreRows(r) = {[state |-> s, owner |-> o, merge |-> m]}
    <2>1. CoreRows(r) = [state : {s}, owner : {o}, merge : {m}]
      BY <1>1, <1>2, <1>3 DEF CoreRows
    <2>2. [state |-> s, owner |-> o, merge |-> m] \in CoreRows(r)
      BY <2>1
    <2>3. \A x \in CoreRows(r) : x = [state |-> s, owner |-> o, merge |-> m]
      BY <2>1
    <2> QED
      BY <2>2, <2>3
  <1> QED
    BY <1>4

LEMMA NamedIsOne ==
  ASSUME WritesInv, NEW f \in facts, f.kind \in {"identifier", "alias"}
  PROVE  Named(f.kind, f.value) =
           {[resource |-> f.resource, value |-> f.value, primary |-> f.primary]}
  <1>1. \A g \in facts : g.kind = f.kind /\ g.value = f.value => g = f
    BY DEF WritesInv, FactsClear, Clashes
  <1> QED
    BY <1>1 DEF Named

LEMMA WritesOneOrNone == WritesInv => OneOrNone
  <1> SUFFICES ASSUME WritesInv
               PROVE  OneOrNone
    OBVIOUS
  <1>1. ASSUME NEW r \in Resources
        PROVE  Cardinality(CoreRows(r)) = 1
    BY CoreIsOne, FS_Singleton
  <1>2. ASSUME NEW f \in facts, f.kind \in {"identifier", "alias"}
        PROVE  Cardinality(Named(f.kind, f.value)) = 1
    BY <1>2, NamedIsOne, FS_Singleton
  <1> QED
    BY <1>1, <1>2 DEF OneOrNone

-----------------------------------------------------------------------------
(***************************************************************************)
(* What a statement returns                                                *)
(***************************************************************************)
ListKinds == {"identifier", "ownership", "classification", "label", "alias"}

Statements == ListKinds \union {"core", "exists", "states", "relationships", "named"}

Values == {f.value : f \in Facts}

NamedRows == [resource : Resources, value : Values, primary : BOOLEAN]

\* The type of what the statement st returns.
AnswerTyped(st, r) ==
  /\ st = "exists" => r \in Resources
  /\ st = "core" => /\ r.state \in StateRows \union {Null}
                    /\ r.owner \in Values \union {Null}
                    /\ r.merge \in MergeRows \union {Null}
  /\ st = "states" => r \in Seq(StateIntervals)
  /\ st \in ListKinds => r \subseteq ListRows
  /\ st = "relationships" => r \subseteq RelationshipRows
  /\ st = "named" => r \in NamedRows

\* What the statement st of the read of the key may return now.
Answers(st, what, key, r) ==
  /\ st \in {"exists", "core"} => key \in Resources
  /\ st = "exists" => r = key
  /\ st = "core" => r \in CoreRows(key)
  /\ st = "states" => r = StateHistory(key)
  /\ st \in ListKinds => r = RowsOf(st, key)
  /\ st = "relationships" => r = Relationships(key)
  /\ st = "named" => what \in {"identifier", "alias"} /\ r \in Named(what, key)

StateHolds(key, s) == \E i \in 1..Len(timeline[key]) : timeline[key][i] = s

OwnerHolds(key, o) == \E f \in facts : Owned(f) /\ f.resource = key /\ f.value = o

MergeHolds(key, m) == m \in merges /\ m.source = key

StatesHold(key, states) ==
  /\ Len(states) \in Nat
  /\ states = [i \in 1..Len(states) |-> states[i]]
  /\ Len(states) <= Len(timeline[key])
  /\ \A i \in 1..Len(states) :
       states[i].state = timeline[key][i].state /\ states[i].from = timeline[key][i].at

RelationshipsHold(body) ==
  \A x \in body : \E g \in facts :
    g.kind = "relationship" /\ g.resource = x.source /\ g.value = x.target

NamedHolds(what, key, row) ==
  \E f \in facts : /\ f.kind = what /\ f.value = key
                   /\ row = [resource |-> f.resource, value |-> f.value, primary |-> f.primary]

\* What is true of it from then on.
StillTrue(st, what, key, r) ==
  /\ AnswerTyped(st, r)
  /\ st \in {"exists", "core", "states"} => key \in Resources
  /\ st = "core" => /\ r.state # Null => StateHolds(key, r.state)
                    /\ r.owner # Null => OwnerHolds(key, r.owner)
                    /\ r.merge # Null => MergeHolds(key, r.merge)
  /\ st = "states" => StatesHold(key, r)
  /\ st \in ListKinds => r \subseteq RowsOf(st, key)
  /\ st = "relationships" => RelationshipsHold(r)
  /\ st = "named" => NamedHolds(what, key, r)

LEMMA CoreTyped ==
  ASSUME WritesInv, NEW key \in Resources, NEW r \in CoreRows(key)
  PROVE  AnswerTyped("core", r)
  <1>1. /\ r.state \in Outer(CurrentState(key)) /\ r.owner \in Outer(PrimaryOwner(key))
        /\ r.merge \in Outer(OutgoingMerge(key))
    BY DEF CoreRows
  <1>2. CurrentState(key) \subseteq StateRows
    <2>1. ASSUME timeline[key] # <<>>
          PROVE  timeline[key][Len(timeline[key])] \in StateRows
      BY <2>1 DEF WritesInv, TimelinesOrdered
    <2> QED
      BY <2>1 DEF CurrentState, Transitions!Latest
  <1>3. PrimaryOwner(key) \subseteq Values /\ OutgoingMerge(key) \subseteq MergeRows
    BY DEF PrimaryOwner, OutgoingMerge, Values, WritesInv, FactsClear, MergedOnce
  <1> QED
    BY <1>1, <1>2, <1>3 DEF Outer, AnswerTyped, ListKinds

LEMMA HistoryTyped ==
  ASSUME WritesInv, NEW key \in Resources
  PROVE  StateHistory(key) \in Seq(StateIntervals)
  <1> DEFINE line == timeline[key]
             n == Len(line)
             to(i) == IF i = n THEN Null ELSE line[i + 1].at
             row(i) == [state |-> line[i].state, from |-> line[i].at, to |-> to(i)]
  <1>1. /\ n \in Nat /\ DOMAIN line = 1..n
        /\ \A i \in 1..n : line[i] \in StateRows
    BY DEF WritesInv, TimelinesOrdered
  <1>2. \A i \in 1..n : line[i].state \in States /\ line[i].at \in Times
    BY <1>1 DEF StateRows
  <1>3. ASSUME NEW i \in 1..n
        PROVE  row(i) \in StateIntervals
    <2>1. i # n => i + 1 \in 1..n
      BY <1>1
    <2>2. to(i) \in Times \union {Null}
      BY <2>1, <1>2
    <2> HIDE DEF to
    <2> QED
      BY <2>2, <1>2 DEF StateIntervals
  <1>4. StateHistory(key) = [i \in 1..n |-> row(i)]
    BY <1>1 DEF StateHistory
  <1> HIDE DEF row
  <1>5. [i \in 1..n |-> row(i)] \in Seq(StateIntervals)
    BY <1>1, <1>3
  <1> QED
    BY <1>4, <1>5

LEMMA RowsTyped ==
  ASSUME WritesInv, NEW kind, NEW key
  PROVE  RowsOf(kind, key) \subseteq ListRows
  <1> SUFFICES ASSUME NEW f \in facts
               PROVE  Row(f) \in ListRows
    BY DEF RowsOf
  <1>1. f \in Facts /\ f.primary \in BOOLEAN
    BY ReadConstants DEF WritesInv, FactsClear
  <1> QED
    BY <1>1 DEF Row, ListRows

\* A relationship starts and ends at stored resources, and at the one asked about.
LEMMA RelationshipsTyped ==
  ASSUME WritesInv, NEW key
  PROVE  Relationships(key) \subseteq RelationshipRows
  <1> SUFFICES ASSUME NEW f \in facts, f.kind = "relationship", key \in {f.resource, f.value}
               PROVE  [source |-> f.resource, target |-> f.value,
                       direction |-> RelationshipDirection(f, key)] \in RelationshipRows
    BY DEF Relationships
  <1>1. f.resource \in Resources /\ f.value \in Resources
    BY ReadConstants DEF WritesInv, FactsClear
  <1>2. RelationshipDirection(f, key) \in {"outgoing", "incoming"}
    BY DEF RelationshipDirection
  <1> QED
    BY <1>1, <1>2 DEF RelationshipRows

LEMMA NamedTyped ==
  ASSUME WritesInv, NEW kind, NEW value
  PROVE  Named(kind, value) \subseteq NamedRows
  <1> SUFFICES ASSUME NEW f \in facts, f.value = value
               PROVE  [resource |-> f.resource, value |-> value, primary |-> f.primary]
                        \in NamedRows
    BY DEF Named
  <1>1. f \in Facts /\ f.resource \in Resources /\ f.primary \in BOOLEAN
    BY ReadConstants DEF WritesInv, FactsClear
  <1>2. value \in Values
    BY <1>1 DEF Values
  <1> QED
    BY <1>1, <1>2 DEF NamedRows

LEMMA AnswerIsTyped ==
  ASSUME WritesInv, NEW st, NEW what, NEW key, NEW r, Answers(st, what, key, r),
         st = "states" => key \in Resources
  PROVE  AnswerTyped(st, r)
  <1>1. CASE st = "core"
    BY <1>1, CoreTyped DEF Answers
  <1>2. CASE st = "states"
    BY <1>2, HistoryTyped DEF Answers, AnswerTyped, ListKinds
  <1>3. CASE st \in ListKinds
    BY <1>3, RowsTyped DEF Answers, AnswerTyped, ListKinds
  <1>4. CASE st \in {"exists", "relationships", "named"}
    BY <1>4, RelationshipsTyped, NamedTyped DEF Answers, AnswerTyped, ListKinds
  <1>5. CASE st \notin ListKinds \union {"core", "states", "exists", "relationships", "named"}
    BY <1>5 DEF AnswerTyped
  <1> QED
    BY <1>1, <1>2, <1>3, <1>4, <1>5

LEMMA AnswerIsTrue ==
  ASSUME WritesInv, NEW st, NEW what, NEW key, NEW r, Answers(st, what, key, r),
         st = "states" => key \in Resources
  PROVE  StillTrue(st, what, key, r)
  <1>7. AnswerTyped(st, r)
    BY AnswerIsTyped
  <1>1. CASE st = "core"
    <2>1. /\ key \in Resources
          /\ r.state \in Outer(CurrentState(key)) /\ r.owner \in Outer(PrimaryOwner(key))
          /\ r.merge \in Outer(OutgoingMerge(key))
      BY <1>1 DEF Answers, CoreRows
    <2>2. r.state # Null => StateHolds(key, r.state)
      <3> SUFFICES ASSUME r.state # Null
                   PROVE  StateHolds(key, r.state)
        OBVIOUS
      <3>1. r.state \in CurrentState(key)
        BY <2>1 DEF Outer
      <3>2. timeline[key] # <<>> /\ r.state = timeline[key][Len(timeline[key])]
        BY <3>1 DEF CurrentState, Transitions!Latest
      <3>3. Len(timeline[key]) \in 1..Len(timeline[key])
        BY <3>2, <2>1 DEF WritesInv, TimelinesOrdered
      <3> QED
        BY <3>2, <3>3 DEF StateHolds
    <2>3. r.owner # Null => OwnerHolds(key, r.owner)
      BY <2>1 DEF Outer, PrimaryOwner, OwnerHolds
    <2>4. r.merge # Null => MergeHolds(key, r.merge)
      BY <2>1 DEF Outer, OutgoingMerge, MergeHolds
    <2> QED
      BY <1>7, <1>1, <2>1, <2>2, <2>3, <2>4 DEF StillTrue, ListKinds
  <1>2. CASE st = "states"
    <2>1. key \in Resources /\ r = StateHistory(key)
      BY <1>2 DEF Answers
    <2>2. Len(timeline[key]) \in Nat /\ DOMAIN timeline[key] = 1..Len(timeline[key])
      BY <2>1 DEF WritesInv, TimelinesOrdered
    <2>3. DOMAIN r = 1..Len(timeline[key])
      BY <2>1, <2>2 DEF StateHistory
    <2>4. Len(r) = Len(timeline[key])
      BY <2>1, <2>2 DEF StateHistory
    <2>6. r = [i \in 1..Len(r) |-> r[i]]
      BY <2>1, <2>2, <2>4 DEF StateHistory
    <2>5. \A i \in 1..Len(r) :
            r[i].state = timeline[key][i].state /\ r[i].from = timeline[key][i].at
      BY <2>1, <2>2, <2>4 DEF StateHistory
    <2> QED
      BY <1>7, <1>2, <2>1, <2>3, <2>4, <2>5, <2>6 DEF StillTrue, StatesHold, ListKinds
  <1>3. CASE st \in ListKinds
    BY <1>7, <1>3 DEF Answers, StillTrue, ListKinds
  <1>4. CASE st = "relationships"
    BY <1>7, <1>4 DEF Answers, StillTrue, RelationshipsHold, Relationships, ListKinds
  <1>5. CASE st = "named"
    BY <1>7, <1>5 DEF Answers, StillTrue, Named, NamedHolds, ListKinds
  <1>6. CASE st \notin ListKinds \union {"core", "states", "relationships", "named"}
    BY <1>7, <1>6 DEF Answers, StillTrue
  <1> QED
    BY <1>1, <1>2, <1>3, <1>4, <1>5, <1>6

\* Nothing that was true of the rows stops being so.
LEMMA StateHoldsOn ==
  ASSUME WritesInv, WritesInv', Grows, NEW key \in Resources, NEW s, StateHolds(key, s)
  PROVE  StateHolds(key, s)'
  <1>1. PICK i \in 1..Len(timeline[key]) : timeline[key][i] = s
    BY DEF StateHolds
  <1>2. i \in 1..Len(timeline'[key]) /\ timeline'[key][i] = s
    BY <1>1 DEF Grows, WritesInv, TimelinesOrdered
  <1> QED
    BY <1>2 DEF StateHolds

LEMMA StatesHoldOn ==
  ASSUME WritesInv, WritesInv', Grows, NEW key \in Resources, NEW s, StatesHold(key, s)
  PROVE  StatesHold(key, s)'
  <1>1. /\ Len(timeline[key]) \in Nat /\ Len(timeline'[key]) \in Nat
        /\ Len(timeline[key]) <= Len(timeline'[key])
        /\ \A i \in 1..Len(timeline[key]) : timeline'[key][i] = timeline[key][i]
    BY DEF Grows, WritesInv, TimelinesOrdered
  <1> QED
    BY <1>1 DEF StatesHold

LEMMA FactsHoldOn ==
  ASSUME Grows
  PROVE  /\ \A key, o : OwnerHolds(key, o) => OwnerHolds(key, o)'
         /\ \A key, m : MergeHolds(key, m) => MergeHolds(key, m)'
         /\ \A body : RelationshipsHold(body) => RelationshipsHold(body)'
         /\ \A what, key, row : NamedHolds(what, key, row) => NamedHolds(what, key, row)'
         /\ \A kind, key : RowsOf(kind, key) \subseteq RowsOf(kind, key)'
  BY DEF Grows, OwnerHolds, MergeHolds, RelationshipsHold, NamedHolds, RowsOf

LEMMA TrueStays ==
  ASSUME WritesInv, WritesInv', Grows,
         NEW st, NEW what, NEW key, NEW r, StillTrue(st, what, key, r)
  PROVE  StillTrue(st, what, key, r)'
  BY StateHoldsOn, StatesHoldOn, FactsHoldOn DEF StillTrue

-----------------------------------------------------------------------------
(***************************************************************************)
(* What a client was told                                                  *)
(***************************************************************************)
Detailed(what) == what \in {"details", "name"}

OwnerListed(body) ==
  body.organization # Null =>
    [value |-> body.organization, primary |-> TRUE] \in body.lists["ownership"]

\* The shapes of the responses, one for each way to ask.
BodyTyped(what, body) ==
  /\ what \in {"details", "name"} => DetailsBody(body)
  /\ what = "history" => HistoryBody(body)
  /\ what = "relationships" => body \subseteq RelationshipRows
  /\ what \in {"identifier", "alias"} => LookupBody(body)
  /\ what = "id" => body \in Resources

BodyHolds(what, key, body) ==
  /\ BodyTyped(what, body)
  /\ Detailed(what) =>
       /\ key \in Resources
       /\ body.state # Null => StateHolds(key, body.state)
       /\ body.merge # Null => MergeHolds(key, body.merge)
       /\ OwnerListed(body)
  /\ what = "history" => key \in Resources /\ StatesHold(key, body.states)
  /\ what \in {"details", "name", "history"} =>
       \A kind \in DOMAIN body.lists :
         kind \in ListKinds /\ body.lists[kind] \subseteq RowsOf(kind, key)
  /\ what = "relationships" => RelationshipsHold(body)
  /\ what \in {"identifier", "alias"} => NamedHolds(what, key, body)

EarlierHolds == BodyHolds(earlier.what, earlier.key, earlier.body)

\* What the client was told before binds what the statement st may still return.
Respects(st, what, key, r) ==
  LET told == Told(earlier.what, earlier.key, earlier.body)
  IN /\ st \in ListKinds =>
          \A f \in told : f.kind = st /\ f.resource = key => Row(f) \in r
     /\ st = "relationships" =>
          \A f \in told : f.kind = "relationship" /\ key \in {f.resource, f.value} =>
            \E x \in r : x.source = f.resource /\ x.target = f.value
     /\ st = "named" =>
          \A f \in told : f.kind = what /\ f.value = key =>
            r = [resource |-> f.resource, value |-> f.value, primary |-> f.primary]
     /\ st = "core" /\ earlier.key = key =>
          /\ Detailed(earlier.what) /\ earlier.body.merge # Null => r.merge = earlier.body.merge
          /\ earlier.what = "history" /\ earlier.body.states # <<>> =>
               /\ r.state # Null
               /\ r.state.at >= Transitions!Latest(earlier.body.states).from
     /\ st = "states" /\ earlier.key = key =>
          (Detailed(earlier.what) /\ earlier.body.state # Null =>
             \E i \in DOMAIN r : /\ r[i].state = earlier.body.state.state
                                 /\ r[i].from = earlier.body.state.at)

LEMMA BodyHoldsOn ==
  ASSUME WritesInv, WritesInv', Grows, NEW what, NEW key, NEW body, BodyHolds(what, key, body)
  PROVE  BodyHolds(what, key, body)'
  BY StateHoldsOn, StatesHoldOn, FactsHoldOn DEF BodyHolds, OwnerListed, Detailed

\* A told fact is stored; a relationship may be told with either value of a column it
\* does not show.
LEMMA ToldIsStored ==
  ASSUME WritesInv, NEW what, NEW key, NEW body, BodyHolds(what, key, body),
         NEW f \in Told(what, key, body)
  PROVE  /\ f \in Facts
         /\ f.kind # "relationship" => f \in facts
         /\ \E g \in facts : g.kind = f.kind /\ g.resource = f.resource /\ g.value = f.value
  <1> USE DEF WritesInv, FactsClear
  <1>1. CASE what \in {"details", "name", "history"}
    <2>1. /\ f \in Facts /\ f.resource = key /\ f.kind \in DOMAIN body.lists
          /\ Row(f) \in body.lists[f.kind]
      BY <1>1 DEF Told
    <2>2. PICK g \in facts : g.kind = f.kind /\ g.resource = key /\ Row(f) = Row(g)
      BY <1>1, <2>1 DEF BodyHolds, RowsOf
    <2>3. f.value = g.value /\ f.primary = g.primary
      BY <2>2 DEF Row
    <2>4. f = g
      BY <2>1, <2>2, <2>3, ReadConstants
    <2> QED
      BY <2>1, <2>4
  <1>2. CASE what = "relationships"
    BY <1>2 DEF Told, BodyHolds, RelationshipsHold
  <1>3. CASE what \in {"identifier", "alias"}
    <2>1. /\ f \in Facts /\ f.kind = what
          /\ body = [resource |-> f.resource, value |-> f.value, primary |-> f.primary]
      BY <1>3 DEF Told
    <2>2. PICK g \in facts :
            /\ g.kind = what
            /\ body = [resource |-> g.resource, value |-> g.value, primary |-> g.primary]
      BY <1>3 DEF BodyHolds, NamedHolds
    <2>3. f.resource = g.resource /\ f.value = g.value /\ f.primary = g.primary
      BY <2>1, <2>2
    <2>4. f = g
      BY <2>1, <2>2, <2>3, ReadConstants
    <2> QED
      BY <2>1, <2>4
  <1>4. CASE what \notin {"details", "name", "history", "relationships", "identifier", "alias"}
    BY <1>4 DEF Told
  <1> QED
    BY <1>1, <1>2, <1>3, <1>4

\* What a statement returns shows all that the client was told of it.
LEMMA AnswerRespectsFacts ==
  ASSUME WritesInv, EarlierHolds, NEW st, NEW what, NEW key, NEW r,
         Answers(st, what, key, r),
         NEW f \in Told(earlier.what, earlier.key, earlier.body)
  PROVE  /\ st \in ListKinds /\ f.kind = st /\ f.resource = key => Row(f) \in r
         /\ st = "relationships" /\ f.kind = "relationship" /\ key \in {f.resource, f.value} =>
              \E x \in r : x.source = f.resource /\ x.target = f.value
         /\ st = "named" /\ f.kind = what /\ f.value = key =>
              r = [resource |-> f.resource, value |-> f.value, primary |-> f.primary]
  <1>1. /\ f.kind # "relationship" => f \in facts
        /\ \E g \in facts : g.kind = f.kind /\ g.resource = f.resource /\ g.value = f.value
    BY ToldIsStored DEF EarlierHolds
  <1>2. st \in ListKinds /\ f.kind = st /\ f.resource = key => Row(f) \in r
    BY <1>1 DEF Answers, ListKinds, RowsOf
  <1>3. st = "relationships" /\ f.kind = "relationship" /\ key \in {f.resource, f.value} =>
          \E x \in r : x.source = f.resource /\ x.target = f.value
    <2> SUFFICES ASSUME st = "relationships", f.kind = "relationship",
                        key \in {f.resource, f.value}
                 PROVE  \E x \in r : x.source = f.resource /\ x.target = f.value
      OBVIOUS
    <2>1. PICK g \in facts :
            g.kind = "relationship" /\ g.resource = f.resource /\ g.value = f.value
      BY <1>1
    <2> DEFINE x == [source |-> g.resource, target |-> g.value,
                     direction |-> RelationshipDirection(g, key)]
    <2>2. x \in r
      BY <2>1 DEF Answers, Relationships
    <2> QED
      BY <2>1, <2>2
  <1>4. st = "named" /\ f.kind = what /\ f.value = key =>
          r = [resource |-> f.resource, value |-> f.value, primary |-> f.primary]
    <2> SUFFICES ASSUME st = "named", f.kind = what, f.value = key
                 PROVE  r = [resource |-> f.resource, value |-> f.value, primary |-> f.primary]
      OBVIOUS
    <2>1. f.kind \in {"identifier", "alias"} /\ r \in Named(f.kind, f.value)
      BY DEF Answers
    <2>2. f \in facts
      BY <2>1, <1>1
    <2> QED
      BY <2>1, <2>2, NamedIsOne
  <1> QED
    BY <1>2, <1>3, <1>4

LEMMA CoreRespects ==
  ASSUME WritesInv, EarlierHolds, NEW key, NEW what, NEW r,
         Answers("core", what, key, r), earlier.key = key
  PROVE  /\ Detailed(earlier.what) /\ earlier.body.merge # Null => r.merge = earlier.body.merge
         /\ earlier.what = "history" /\ earlier.body.states # <<>> =>
              /\ r.state # Null
              /\ r.state.at >= Transitions!Latest(earlier.body.states).from
  <1>1. /\ key \in Resources
        /\ r.state \in Outer(CurrentState(key))
        /\ r.merge \in Outer(OutgoingMerge(key))
    BY DEF Answers, CoreRows
  <1>2. ASSUME Detailed(earlier.what), earlier.body.merge # Null
        PROVE  r.merge = earlier.body.merge
    <2>1. earlier.body.merge \in OutgoingMerge(key)
      BY <1>2 DEF EarlierHolds, BodyHolds, MergeHolds, OutgoingMerge
    <2>2. r.merge \in OutgoingMerge(key)
      BY <1>1, <2>1 DEF Outer
    <2> QED
      BY <2>1, <2>2 DEF OutgoingMerge, WritesInv, MergedOnce
  <1>3. ASSUME earlier.what = "history", earlier.body.states # <<>>
        PROVE  /\ r.state # Null
               /\ r.state.at >= Transitions!Latest(earlier.body.states).from
    <2> DEFINE told == earlier.body.states
               line == timeline[key]
               n == Len(told)
               m == Len(line)
    <2>1. line \in Seq(StateRows) /\ m \in Nat
      BY <1>1 DEF WritesInv, TimelinesOrdered
    <2>2. /\ n \in Nat /\ told = [i \in 1..n |-> told[i]] /\ n <= m
          /\ \A i \in 1..n : told[i].from = line[i].at
      BY <1>3 DEF EarlierHolds, BodyHolds, StatesHold, Detailed
    <2>3. n # 0
      <3>1. CASE n = 0
        <4>1. told = [i \in {} |-> told[i]]
          BY <3>1, <2>2
        <4>2. told = <<>>
          BY <4>1
        <4> QED
          BY <4>2, <1>3
      <3> QED
        BY <3>1
    <2>4. n \in 1..n /\ n \in 1..m /\ m \in 1..m
      BY <2>1, <2>2, <2>3
    <2>5. line # <<>>
      BY <2>1, <2>4
    <2>6. r.state = line[m]
      BY <1>1, <2>5 DEF Outer, CurrentState, Transitions!Latest
    <2>7. line[m] \in StateRows /\ line[n] \in StateRows
      BY <2>1, <2>4
    <2>8. line[m].at \in Nat /\ line[n].at \in Nat
      BY <2>7, ReadConstants DEF StateRows
    <2>9. line[n].at <= line[m].at
      <3>1. CASE n = m
        BY <3>1, <2>8
      <3>2. CASE n < m
        BY <3>2, <1>1, <2>4, <2>8 DEF WritesInv, TimelinesOrdered
      <3> QED
        BY <3>1, <3>2, <2>1, <2>2
    <2>10. Transitions!Latest(told).from = line[n].at
      BY <2>2, <2>4 DEF Transitions!Latest
    <2>11. r.state # Null
      BY <2>6, <2>7, ReadConstants DEF StateRows
    <2> QED
      BY <2>6, <2>8, <2>9, <2>10, <2>11
  <1> QED
    BY <1>2, <1>3

LEMMA StatesRespect ==
  ASSUME WritesInv, EarlierHolds, NEW key \in Resources, NEW what, NEW r,
         Answers("states", what, key, r), earlier.key = key,
         Detailed(earlier.what), earlier.body.state # Null
  PROVE  \E i \in DOMAIN r : /\ r[i].state = earlier.body.state.state
                             /\ r[i].from = earlier.body.state.at
  <1>1. PICK i \in 1..Len(timeline[key]) : timeline[key][i] = earlier.body.state
    BY DEF EarlierHolds, BodyHolds, StateHolds
  <1>2. r = StateHistory(key) /\ i \in DOMAIN timeline[key]
    BY <1>1 DEF Answers, WritesInv, TimelinesOrdered
  <1>3. /\ i \in DOMAIN r /\ r[i].state = timeline[key][i].state
        /\ r[i].from = timeline[key][i].at
    BY <1>2 DEF StateHistory
  <1> QED
    BY <1>1, <1>3

LEMMA AnswerRespects ==
  ASSUME WritesInv, EarlierHolds, NEW st, NEW what, NEW key, NEW r,
         Answers(st, what, key, r), st = "states" => key \in Resources
  PROVE  Respects(st, what, key, r)
  BY AnswerRespectsFacts, CoreRespects, StatesRespect DEF Respects

-----------------------------------------------------------------------------
(***************************************************************************)
(* The statements of a read                                                *)
(***************************************************************************)
LEMMA NameStatements ==
  /\ StatementsOf("name") \in Seq(Statements)
  /\ Len(StatementsOf("name")) = 7
  /\ StatementsOf("name")[1] = "exists"
  /\ \A i \in 1..6 : StatementsOf("name")[i + 1] = DetailsStatements[i]
  <1> DEFINE first == <<"exists">>
  <1>1. StatementsOf("name") = first \o DetailsStatements
    BY DEF StatementsOf
  <1>2. DetailsStatements \in Seq(Statements) /\ Len(DetailsStatements) = 6
    BY DEF DetailsStatements, Statements, ListKinds
  <1>3. first \in Seq(Statements) /\ Len(first) = 1 /\ first[1] = "exists"
    BY DEF Statements, ListKinds
  <1> HIDE DEF first
  <1>4. /\ StatementsOf("name") \in Seq(Statements)
        /\ Len(StatementsOf("name")) = 7
        /\ \A i \in 1..7 :
             StatementsOf("name")[i] = IF i <= 1 THEN first[i] ELSE DetailsStatements[i - 1]
    <2>1. Len(first) + Len(DetailsStatements) = 7
      BY <1>2, <1>3
    <2>2. /\ first \o DetailsStatements \in Seq(Statements)
          /\ Len(first \o DetailsStatements) = Len(first) + Len(DetailsStatements)
          /\ \A i \in 1..Len(first) + Len(DetailsStatements) :
               (first \o DetailsStatements)[i] =
                 IF i <= Len(first) THEN first[i] ELSE DetailsStatements[i - Len(first)]
      BY <1>2, <1>3, ConcatProperties, Zenon
    <2> QED
      BY <2>1, <2>2, <1>1, <1>3
  <1> HIDE DEF DetailsStatements
  <1>5. StatementsOf("name")[1] = "exists"
    BY <1>3, <1>4
  <1>6. ASSUME NEW i \in 1..6
        PROVE  StatementsOf("name")[i + 1] = DetailsStatements[i]
    BY <1>4
  <1> QED
    BY <1>4, <1>5, <1>6

LEMMA StatementsShape ==
  ASSUME NEW what \in Queries
  PROVE  /\ StatementsOf(what) \in Seq(Statements)
         /\ StatementsOf(what) # <<>>
         /\ what \notin {"identifier", "alias"} => StatementsOf(what)[1] \in {"core", "exists"}
         /\ what \in {"identifier", "alias"} => StatementsOf(what) = <<"named">>
  <1>1. CASE what = "name"
    <2>1. StatementsOf(what) # <<>>
      <3>1. Len(StatementsOf(what)) = 7
        BY <1>1, NameStatements
      <3> QED
        BY <3>1
    <2> QED
      BY <1>1, <2>1, NameStatements
  <1>2. CASE what = "details"
    BY <1>2 DEF StatementsOf, Statements, ListKinds, DetailsStatements
  <1>5. CASE what = "history"
    <2>1. StatementsOf(what) = HistoryStatements
      BY <1>5 DEF StatementsOf
    <2>2. /\ HistoryStatements \in Seq(Statements) /\ HistoryStatements # <<>>
          /\ HistoryStatements[1] = "exists"
      BY DEF HistoryStatements, Statements, ListKinds
    <2> QED
      BY <1>5, <2>1, <2>2
  <1>3. CASE what = "relationships"
    <2>1. StatementsOf(what) = <<"exists", "relationships">>
      BY <1>3 DEF StatementsOf
    <2>2. <<"exists", "relationships">> \in Seq(Statements)
      BY DEF Statements, ListKinds
    <2>3. <<"exists", "relationships">>[1] = "exists" /\ <<"exists", "relationships">> # <<>>
      OBVIOUS
    <2> QED
      BY <1>3, <2>1, <2>2, <2>3
  <1>6. CASE what = "id"
    <2>1. StatementsOf(what) = <<"exists">>
      BY <1>6 DEF StatementsOf
    <2>2. <<"exists">> \in Seq(Statements)
      BY DEF Statements, ListKinds
    <2>3. <<"exists">>[1] = "exists" /\ <<"exists">> # <<>>
      OBVIOUS
    <2> QED
      BY <1>6, <2>1, <2>2, <2>3
  <1>4. CASE what \in {"identifier", "alias"}
    <2>1. StatementsOf(what) = <<"named">>
      BY <1>4 DEF StatementsOf
    <2> QED
      BY <1>4, <2>1 DEF Statements, ListKinds
  <1> QED
    BY <1>1, <1>2, <1>3, <1>4, <1>5, <1>6 DEF Queries

\* Which statements a read makes, and that the core precedes the owners.
LEMMA StatementsMade ==
  /\ \A what \in {"details", "name"} :
       /\ \A st \in ListKinds \union {"core"} :
            \E i \in 1..Len(StatementsOf(what)) : StatementsOf(what)[i] = st
       /\ \A i, j \in 1..Len(StatementsOf(what)) :
            StatementsOf(what)[i] = "core" /\ StatementsOf(what)[j] = "ownership" => i < j
  /\ \A st \in {"states", "ownership", "label", "classification", "identifier"} :
       \E i \in 1..Len(StatementsOf("history")) : StatementsOf("history")[i] = st
  /\ \E i \in 1..Len(StatementsOf("relationships")) :
       StatementsOf("relationships")[i] = "relationships"
  /\ \A what \in {"identifier", "alias"} :
       \E i \in 1..Len(StatementsOf(what)) : StatementsOf(what)[i] = "named"
  <1>1. \A st \in ListKinds \union {"core"} :
          \E i \in 1..Len(StatementsOf("details")) : StatementsOf("details")[i] = st
    BY DEF StatementsOf, DetailsStatements, ListKinds
  <1>2. \A i, j \in 1..Len(StatementsOf("details")) :
          StatementsOf("details")[i] = "core" /\ StatementsOf("details")[j] = "ownership" => i < j
    BY DEF StatementsOf, DetailsStatements
  <1>3. \A st \in ListKinds \union {"core"} :
          \E i \in 1..Len(StatementsOf("name")) : StatementsOf("name")[i] = st
    <2> SUFFICES ASSUME NEW st \in ListKinds \union {"core"}
                 PROVE  \E i \in 1..7 : StatementsOf("name")[i] = st
      BY NameStatements
    <2>1. PICK i \in 1..6 : DetailsStatements[i] = st
      BY <1>1 DEF StatementsOf, DetailsStatements
    <2> QED
      BY <2>1, NameStatements
  <1>4. \A i, j \in 1..Len(StatementsOf("name")) :
          StatementsOf("name")[i] = "core" /\ StatementsOf("name")[j] = "ownership" => i < j
    <2> SUFFICES ASSUME NEW i \in 1..7, NEW j \in 1..7, StatementsOf("name")[i] = "core",
                        StatementsOf("name")[j] = "ownership"
                 PROVE  i < j
      BY NameStatements
    <2>1. i - 1 \in 1..6 /\ j - 1 \in 1..6
      BY NameStatements
    <2>2. DetailsStatements[i - 1] = "core" /\ DetailsStatements[j - 1] = "ownership"
      <3>1. (i - 1) + 1 = i /\ (j - 1) + 1 = j
        OBVIOUS
      <3>2. /\ StatementsOf("name")[(i - 1) + 1] = DetailsStatements[i - 1]
            /\ StatementsOf("name")[(j - 1) + 1] = DetailsStatements[j - 1]
        BY <2>1, NameStatements, Zenon
      <3> QED
        BY <3>1, <3>2, Zenon
    <2>3. i - 1 = 1 /\ j - 1 = 3
      BY <2>1, <2>2 DEF DetailsStatements
    <2> QED
      BY <2>3
  <1>5. \A st \in {"states", "ownership", "label", "classification", "identifier"} :
          \E i \in 1..Len(StatementsOf("history")) : StatementsOf("history")[i] = st
    BY DEF StatementsOf, HistoryStatements
  <1>6. \E i \in 1..Len(StatementsOf("relationships")) :
          StatementsOf("relationships")[i] = "relationships"
    BY DEF StatementsOf
  <1>7. \A what \in {"identifier", "alias"} :
          \E i \in 1..Len(StatementsOf(what)) : StatementsOf(what)[i] = "named"
    BY DEF StatementsOf
  <1> QED
    BY <1>1, <1>2, <1>3, <1>4, <1>5, <1>6, <1>7

(***************************************************************************)
(* The inductive invariant: what the statements so far have returned is    *)
(* true still, shows what the client was told before, and the owners read  *)
(* after the core include the owner it shows.                              *)
(***************************************************************************)
Progressing(what, key) ==
  /\ query = [what |-> what, key |-> key, left |-> query.left]
  /\ key \in Keys(what)
  /\ query.left \in Seq(Statements)
  /\ \E S : found \in Seq(S)
  /\ Len(found) + Len(query.left) = Len(StatementsOf(what))
  /\ \A i \in 1..Len(query.left) : query.left[i] = StatementsOf(what)[Len(found) + i]
  /\ found # <<>> /\ what \notin {"identifier", "alias"} => key \in Resources

FoundHolds(what, key) ==
  \A i \in 1..Len(found) : \E r :
    /\ found[i] = r
    /\ StillTrue(StatementsOf(what)[i], what, key, r)
    /\ Respects(StatementsOf(what)[i], what, key, r)

OwnerFound(what) ==
  \A i, j \in 1..Len(found) :
    StatementsOf(what)[i] = "core" /\ StatementsOf(what)[j] = "ownership" /\ found[i].owner # Null
      => [value |-> found[i].owner, primary |-> TRUE] \in found[j]

Asking(what, key) == Progressing(what, key) /\ FoundHolds(what, key) /\ OwnerFound(what)

QueryInv ==
  \/ query = Idle /\ found = <<>>
  \/ \E what \in Queries : \E key : Asking(what, key)

ReadInv == WritesInv /\ EarlierHolds /\ QueryInv

\* A statement that returns rows.
Executes ==
  \E st \in Statements : \E r :
    /\ Execute(st, r)
    /\ Answers(st, query.what, query.key, r)

LEMMA StatementsExecute ==
  ASSUME \/ ReadExists \/ ReadCore \/ ReadStates
         \/ ReadOwnership \/ ReadLabels \/ ReadClassifications \/ ReadIdentifiers \/ ReadAliases
         \/ ReadRelationships
         \/ FindByIdentifier \/ FindByAlias
  PROVE  Executes
  <1> USE DEF Executes, Statements, ListKinds, Answers
  <1>1. CASE ReadExists
    BY <1>1 DEF ReadExists
  <1>2. CASE ReadCore
    BY <1>2 DEF ReadCore, OneOf
  <1>3. CASE ReadStates
    BY <1>3 DEF ReadStates
  <1>4. CASE ReadOwnership \/ ReadLabels
    BY <1>4 DEF ReadOwnership, ReadLabels, OwnershipHistory, CurrentOwnership, LabelHistory,
                CurrentLabels
  <1>5. CASE ReadClassifications \/ ReadIdentifiers \/ ReadAliases
    BY <1>5 DEF ReadClassifications, ReadIdentifiers, ReadAliases, ClassificationHistory,
                CurrentClassifications, IdentifierHistory, CurrentIdentifiers, Aliases
  <1>6. CASE ReadRelationships
    BY <1>6 DEF ReadRelationships
  <1>7. CASE FindByIdentifier \/ FindByAlias
    BY <1>7 DEF FindByIdentifier, FindByAlias, OneOf, NamedByIdentifier, NamedByAlias
  <1> QED
    BY <1>1, <1>2, <1>3, <1>4, <1>5, <1>6, <1>7

LEMMA CoreOfDetails ==
  ASSUME NEW what \in Queries, NEW i \in 1..Len(StatementsOf(what)),
         StatementsOf(what)[i] = "core"
  PROVE  what \in {"details", "name"}
  <1>1. CASE what = "history"
    BY <1>1 DEF StatementsOf, HistoryStatements
  <1>2. CASE what \in {"relationships", "id", "identifier", "alias"}
    BY <1>2 DEF StatementsOf
  <1> QED
    BY <1>1, <1>2 DEF Queries

LEMMA InitInv == Init => ReadInv
  BY InitWrites DEF Init, ReadInv, EarlierHolds, BodyHolds, Detailed, Nobody, QueryInv, NoRows,
    BodyTyped

LEMMA AskInv ==
  ASSUME ReadInv, Ask
  PROVE  QueryInv'
  <1>1. PICK what, key :
          /\ what \in Queries /\ key \in Keys(what)
          /\ query' = [what |-> what, key |-> key, left |-> StatementsOf(what)]
    BY DEF Ask
  <1>2. found' = <<>> /\ Len(found') = 0
    <2>1. \A w \in Queries : w # "none"
      BY DEF Queries
    <2> QED
      BY <2>1 DEF ReadInv, QueryInv, Ask, Asking, Progressing, Idle
  <1>3. StatementsOf(what) \in Seq(Statements)
    BY <1>1, StatementsShape
  <1>4. query'.left = StatementsOf(what)
    BY <1>1
  <1>5. Progressing(what, key)'
    <2>1. \E S : found' \in Seq(S)
      <3>1. found' \in Seq({})
        BY <1>2
      <3> QED
        BY <3>1
    <2>2. Len(found') + Len(query'.left) = Len(StatementsOf(what))
      BY <1>2, <1>3, <1>4
    <2>3. \A i \in 1..Len(query'.left) : query'.left[i] = StatementsOf(what)[Len(found') + i]
      BY <1>2, <1>3, <1>4
    <2> QED
      BY <1>1, <1>2, <1>3, <1>4, <2>1, <2>2, <2>3 DEF Progressing
  <1>6. FoundHolds(what, key)' /\ OwnerFound(what)'
    BY <1>2 DEF FoundHolds, OwnerFound
  <1> QED
    BY <1>1, <1>5, <1>6 DEF QueryInv, Asking

LEMMA RespectsOn ==
  ASSUME UNCHANGED earlier, NEW st, NEW what, NEW key, NEW r, Respects(st, what, key, r)
  PROVE  Respects(st, what, key, r)'
  BY DEF Respects, Told, Detailed, Row, Transitions!Latest

LEMMA ExecuteInv ==
  ASSUME ReadInv, WritesInv', Grows, Executes
  PROVE  QueryInv'
  <1>1. PICK st, r :
          st \in Statements /\ Execute(st, r) /\ Answers(st, query.what, query.key, r)
    BY DEF Executes
  <1>2. /\ query.left # <<>> /\ Head(query.left) = st
        /\ query' = [query EXCEPT !.left = Tail(query.left)]
        /\ found' = Append(found, r)
        /\ UNCHANGED <<rows, earlier>>
    BY <1>1 DEF Execute
  <1>3. PICK what, key : what \in Queries /\ Asking(what, key)
    BY <1>2 DEF ReadInv, QueryInv, Idle
  <1> DEFINE n == Len(found)
             makes == StatementsOf(what)
  <1>4. PICK S : found \in Seq(S)
    BY <1>3 DEF Asking, Progressing
  <1>5. /\ n \in Nat
        /\ \E T : found' \in Seq(T)
        /\ Len(found') = n + 1 /\ found'[n + 1] = r
        /\ \A i \in 1..n : found'[i] = found[i]
    <2>1. found \in Seq(S \union {r})
      BY <1>4, SeqMonotonic
    <2>2. found' \in Seq(S \union {r})
      BY <1>2, <2>1
    <2> QED
      BY <1>2, <2>1, <2>2
  <1>6. /\ query.left \in Seq(Statements) /\ Len(query.left) \in Nat
        /\ Len(query.left) # 0 /\ query.left[1] = st
        /\ Tail(query.left) \in Seq(Statements)
        /\ Len(Tail(query.left)) = Len(query.left) - 1
        /\ \A i \in 1..Len(query.left) - 1 : Tail(query.left)[i] = query.left[i + 1]
    BY <1>2, <1>3 DEF Asking, Progressing
  <1>7. /\ query.what = what /\ query.key = key /\ query'.left = Tail(query.left)
        /\ query' = [what |-> what, key |-> key, left |-> query'.left]
    <2>1. query = [what |-> what, key |-> key, left |-> query.left]
      BY <1>3 DEF Asking, Progressing
    <2>2. query' = [what |-> what, key |-> key, left |-> Tail(query.left)]
      <3>1. PICK old : query = [what |-> what, key |-> key, left |-> old]
        BY <2>1, Zenon
      <3>2. \A new : [query EXCEPT !.left = new] = [what |-> what, key |-> key, left |-> new]
        BY <3>1
      <3> QED
        BY <1>2, <3>2
    <2>3. query.what = what /\ query.key = key
      BY <2>1
    <2>4. query'.left = Tail(query.left)
      BY <2>2
    <2> QED
      BY <2>2, <2>3, <2>4
  <1>8. makes \in Seq(Statements) /\ Len(makes) = n + Len(query.left)
    <2>1. Len(makes) = n + Len(query.left)
      BY <1>3, Zenon DEF Asking, Progressing
    <2> QED
      BY <1>3, <2>1, StatementsShape
  <1>9. n + 1 \in 1..Len(makes) /\ makes[n + 1] = st
    <2>1. \A i \in 1..Len(query.left) : query.left[i] = makes[n + i]
      BY <1>3, Zenon DEF Asking, Progressing
    <2> HIDE DEF makes, n
    <2>2. n + 1 \in 1..Len(makes) /\ 1 \in 1..Len(query.left)
      BY <1>5, <1>6, <1>8
    <2>3. makes[n + 1] = query.left[1]
      BY <2>1, <2>2, Zenon
    <2> QED
      BY <1>6, <2>2, <2>3, Zenon
  <1> HIDE DEF makes
  <1>10. what \notin {"identifier", "alias"} => key \in Resources
    <2>1. CASE found # <<>>
      BY <2>1, <1>3 DEF Asking, Progressing
    <2>2. CASE found = <<>> /\ what \notin {"identifier", "alias"}
      <3>1. n = 0
        BY <2>2
      <3>2. st \in {"core", "exists"}
        BY <2>2, <3>1, <1>3, <1>9, StatementsShape DEF makes
      <3> QED
        BY <3>2, <1>1, <1>7 DEF Answers
    <2> QED
      BY <2>1, <2>2
  <1>11. st = "states" => key \in Resources
    <2>1. ASSUME what \in {"identifier", "alias"}
          PROVE  st = "named"
      <3>1. makes = <<"named">>
        BY <2>1, <1>3, StatementsShape DEF makes
      <3> QED
        BY <3>1, <1>5, <1>9
    <2> QED
      BY <2>1, <1>10
  <1>12. StillTrue(st, what, key, r) /\ Respects(st, what, key, r)
    BY <1>1, <1>7, <1>11, AnswerIsTrue, AnswerRespects DEF ReadInv
  <1>13. Progressing(what, key)'
    <2>1. Len(found') + Len(query'.left) = Len(makes)
      <3>1. Len(query'.left) = Len(query.left) - 1
        BY <1>6, <1>7
      <3>2. Len(found') = n + 1 /\ n \in Nat /\ Len(query.left) \in Nat
        BY <1>5, <1>6
      <3>3. Len(makes) = n + Len(query.left)
        BY <1>8
      <3>4. \A a, b \in Nat : (a + 1) + (b - 1) = a + b
        OBVIOUS
      <3>5. (n + 1) + (Len(query.left) - 1) = n + Len(query.left)
        BY <3>2, <3>4
      <3> QED
        BY <3>1, <3>2, <3>3, <3>5, Zenon
    <2>2. \A i \in 1..Len(query'.left) : query'.left[i] = makes[Len(found') + i]
      <3> SUFFICES ASSUME NEW i \in 1..Len(query.left) - 1
                   PROVE  Tail(query.left)[i] = makes[n + 1 + i]
        BY <1>5, <1>6, <1>7
      <3>1. i + 1 \in 1..Len(query.left)
        BY <1>6
      <3>2. query.left[i + 1] = makes[n + (i + 1)]
        BY <3>1, <1>3 DEF Asking, Progressing, makes
      <3>3. n + (i + 1) = n + 1 + i
        BY <1>5
      <3> QED
        BY <3>2, <3>3, <1>6
    <2>3. key \in Keys(what)
      BY <1>3 DEF Asking, Progressing
    <2> QED
      BY <2>1, <2>2, <2>3, <1>5, <1>6, <1>7, <1>10 DEF Progressing, makes
  <1>14. FoundHolds(what, key)'
    <2> SUFFICES ASSUME NEW i \in 1..n + 1
                 PROVE  \E x : /\ found'[i] = x
                               /\ StillTrue(makes[i], what, key, x)'
                               /\ Respects(makes[i], what, key, x)'
      BY <1>5 DEF FoundHolds, makes
    <2>1. PICK x : /\ found'[i] = x
                   /\ StillTrue(makes[i], what, key, x)
                   /\ Respects(makes[i], what, key, x)
      <3>1. CASE i = n + 1
        BY <3>1, <1>5, <1>9, <1>12
      <3>2. CASE i \in 1..n
        BY <3>2, <1>3, <1>5 DEF Asking, FoundHolds, makes
      <3> QED
        BY <3>1, <3>2, <1>5
    <2>2. StillTrue(makes[i], what, key, x)'
      BY <2>1, TrueStays DEF ReadInv, makes
    <2>3. Respects(makes[i], what, key, x)'
      BY <2>1, <1>2, RespectsOn DEF makes
    <2> QED
      BY <2>1, <2>2, <2>3
  <1>15. OwnerFound(what)'
    <2>1. ASSUME NEW i \in 1..n + 1, NEW j \in 1..n + 1,
                 makes[i] = "core", makes[j] = "ownership", found'[i].owner # Null
          PROVE  [value |-> found'[i].owner, primary |-> TRUE] \in found'[j]
      <3>1. i < j
        <4>1. i \in 1..Len(makes) /\ j \in 1..Len(makes)
          BY <1>5, <1>9, <1>8, <1>6
        <4>2. what \in {"details", "name"}
          BY <2>1, <4>1, <1>3, CoreOfDetails DEF makes
        <4>3. \A a, b \in 1..Len(makes) : makes[a] = "core" /\ makes[b] = "ownership" => a < b
          BY <4>2, StatementsMade DEF makes
        <4> QED
          BY <2>1, <4>1, <4>3
      <3>2. CASE j \in 1..n
        BY <2>1, <3>1, <3>2, <1>3, <1>5 DEF Asking, OwnerFound, makes
      <3>3. CASE j = n + 1
        <4>1. i \in 1..n /\ found'[i] = found[i] /\ found'[j] = r /\ st = "ownership"
          BY <2>1, <3>1, <3>3, <1>5, <1>9
        <4>2. PICK x : found[i] = x /\ StillTrue(makes[i], what, key, x)
          BY <4>1, <1>3 DEF Asking, FoundHolds, makes
        <4>3. OwnerHolds(key, x.owner)
          BY <2>1, <4>1, <4>2 DEF StillTrue
        <4>4. PICK f \in facts : Owned(f) /\ f.resource = key /\ f.value = x.owner
          BY <4>3 DEF OwnerHolds
        <4>5. Row(f) = [value |-> x.owner, primary |-> TRUE]
          BY <4>4 DEF Row, Owned, ReadInv, WritesInv, FactsClear
        <4>6. Row(f) \in RowsOf("ownership", key)
          BY <4>4 DEF RowsOf, Owned
        <4>7. r = RowsOf("ownership", key)
          BY <4>1, <1>1, <1>7 DEF Answers, ListKinds
        <4> QED
          BY <4>1, <4>2, <4>5, <4>6, <4>7
      <3> QED
        BY <3>2, <3>3, <1>5
    <2>2. Len(found') = n + 1
      BY <1>5
    <2> QED
      BY <2>1, <2>2 DEF OwnerFound, makes
  <1> QED
    BY <1>3, <1>13, <1>14, <1>15 DEF QueryInv, Asking
LEMMA IdleInv ==
  ASSUME query' = Idle, found' = NoRows
  PROVE  QueryInv'
  BY DEF QueryInv, NoRows, Idle

\* What the statement st of a finished read returned.
LEMMA ReturnedHolds ==
  ASSUME ReadInv, NEW what \in Queries, NEW key, Asking(what, key), query.left = <<>>,
         NEW st, \E i \in 1..Len(StatementsOf(what)) : StatementsOf(what)[i] = st
  PROVE  \E i \in 1..Len(found) :
           /\ StatementsOf(what)[i] = st
           /\ Returned(st) = found[i]
           /\ StillTrue(st, what, key, Returned(st))
           /\ Respects(st, what, key, Returned(st))
  <1>1. query.what = what /\ Len(query.left) = 0 /\ Len(found) = Len(StatementsOf(what))
    <2>1. query = [what |-> what, key |-> key, left |-> query.left]
      BY DEF Asking, Progressing
    <2>2. query.what = what
      BY <2>1
    <2>3. Len(query.left) = 0
      OBVIOUS
    <2>4. Len(found) \in Nat
      <3>1. PICK S : found \in Seq(S)
        BY DEF Asking, Progressing
      <3> QED
        BY <3>1
    <2>5. Len(found) + 0 = Len(StatementsOf(what))
      BY <2>3 DEF Asking, Progressing
    <2>6. \A a \in Nat : a + 0 = a
      OBVIOUS
    <2> QED
      BY <2>2, <2>3, <2>4, <2>5, <2>6
  <1> DEFINE i == CHOOSE k \in 1..Len(found) : StatementsOf(query.what)[k] = st
  <1>2. i \in 1..Len(found) /\ StatementsOf(what)[i] = st
    <2>1. \E k \in 1..Len(found) : StatementsOf(query.what)[k] = st
      BY <1>1
    <2> QED
      BY <1>1, <2>1
  <1>3. Returned(st) = found[i]
    BY DEF Returned
  <1> QED
    BY <1>2, <1>3 DEF Asking, FoundHolds
-----------------------------------------------------------------------------
(***************************************************************************)
(* The responses                                                           *)
(***************************************************************************)
Before == Told(earlier.what, earlier.key, earlier.body)

FactsOwed(what, key, body) ==
  \A f \in Before :
    Covers([what |-> what, key |-> key, body |-> body], f) => f \in Told(what, key, body)

MergeOwed(what, key, body) ==
  Detailed(earlier.what) /\ Detailed(what) /\ earlier.key = key /\ earlier.body.merge # Null
    => body.merge = earlier.body.merge

StatesOwed(what, key, body) ==
  earlier.key = key =>
    /\ what = "history" /\ Detailed(earlier.what) /\ earlier.body.state # Null =>
         \E i \in DOMAIN body.states : /\ body.states[i].state = earlier.body.state.state
                                       /\ body.states[i].from = earlier.body.state.at
    /\ Detailed(what) /\ earlier.what = "history" /\ earlier.body.states # <<>> =>
         /\ body.state # Null
         /\ body.state.at >= Transitions!Latest(earlier.body.states).from

\* A body is true, and shows what the client was told before.
Responds(what, key, body) ==
  /\ BodyHolds(what, key, body)
  /\ FactsOwed(what, key, body)
  /\ MergeOwed(what, key, body)
  /\ StatesOwed(what, key, body)

LEMMA ToldKinds ==
  ASSUME EarlierHolds, NEW f \in Before
  PROVE  /\ f \in Facts
         /\ f.kind \in ListKinds \union {"relationship"}
  BY DEF Before, Told, EarlierHolds, BodyHolds, ListKinds

LEMMA DetailsRespond ==
  ASSUME ReadInv, NEW what \in {"details", "name"}, NEW key, Asking(what, key),
         query.left = <<>>
  PROVE  Responds(what, key, DetailsResult(DetailsProjection))
  <1> DEFINE body == DetailsResult(DetailsProjection)
             core == Returned("core")
  <1>1. /\ body.state = core.state
        /\ body.organization = core.owner
        /\ body.merge = core.merge
        /\ DOMAIN body.lists = ListKinds
        /\ \A kind \in ListKinds : body.lists[kind] = Returned(kind)
    BY DEF DetailsResult, DetailsProjection, ListKinds
  <1> HIDE DEF body
  <1>2. \A st \in ListKinds \union {"core"} : \E i \in 1..Len(found) :
          /\ StatementsOf(what)[i] = st
          /\ Returned(st) = found[i]
          /\ StillTrue(st, what, key, Returned(st))
          /\ Respects(st, what, key, Returned(st))
    <2> SUFFICES ASSUME NEW st \in ListKinds \union {"core"}
                 PROVE  \E i \in 1..Len(found) :
                          /\ StatementsOf(what)[i] = st
                          /\ Returned(st) = found[i]
                          /\ StillTrue(st, what, key, Returned(st))
                          /\ Respects(st, what, key, Returned(st))
      OBVIOUS
    <2>1. what \in Queries
      BY DEF Queries
    <2>2. \E i \in 1..Len(StatementsOf(what)) : StatementsOf(what)[i] = st
      BY StatementsMade
    <2> QED
      BY <2>1, <2>2, ReturnedHolds, Zenon
  <1>3. /\ key \in Resources
        /\ core.state # Null => StateHolds(key, core.state)
        /\ core.merge # Null => MergeHolds(key, core.merge)
    BY <1>2 DEF StillTrue
  <1>4. OwnerListed(body)
    <2>1. PICK i \in 1..Len(found) : StatementsOf(what)[i] = "core" /\ core = found[i]
      BY <1>2
    <2>2. PICK j \in 1..Len(found) :
            StatementsOf(what)[j] = "ownership" /\ Returned("ownership") = found[j]
      BY <1>2 DEF ListKinds
    <2>3. found[i].owner # Null => [value |-> found[i].owner, primary |-> TRUE] \in found[j]
      BY <2>1, <2>2 DEF Asking, OwnerFound
    <2> QED
      BY <2>1, <2>2, <2>3, <1>1 DEF OwnerListed, ListKinds
  <1>5. \A kind \in DOMAIN body.lists :
          kind \in ListKinds /\ body.lists[kind] \subseteq RowsOf(kind, key)
    <2> SUFFICES ASSUME NEW kind \in ListKinds
                 PROVE  body.lists[kind] \subseteq RowsOf(kind, key)
      BY <1>1
    <2>1. StillTrue(kind, what, key, Returned(kind))
      BY <1>2
    <2>2. Returned(kind) \subseteq RowsOf(kind, key)
      BY <2>1 DEF StillTrue
    <2> QED
      BY <1>1, <2>2
  <1>6. BodyHolds(what, key, body)
    <2>1. /\ body.state # Null => StateHolds(key, body.state)
          /\ body.merge # Null => MergeHolds(key, body.merge)
      BY <1>1, <1>3
    <2>2. DetailsBody(body)
      <3>1. AnswerTyped("core", core)
        BY <1>2 DEF StillTrue
      <3>2. \A kind \in ListKinds : Returned(kind) \subseteq ListRows
        BY <1>2 DEF StillTrue, AnswerTyped
      <3> HIDE DEF core
      <3> QED
        BY <3>1, <3>2, <1>1 DEF DetailsBody, AnswerTyped, Values
    <2>3. BodyTyped(what, body)
      BY <2>2 DEF BodyTyped
    <2> HIDE DEF core
    <2> QED
      BY <1>3, <1>4, <1>5, <2>1, <2>3 DEF BodyHolds, Detailed
  <1>7. FactsOwed(what, key, body)
    <2> SUFFICES ASSUME NEW f \in Before,
                        Covers([what |-> what, key |-> key, body |-> body], f)
                 PROVE  f \in Told(what, key, body)
      BY DEF FactsOwed
    <2>1. f \in Facts /\ f.kind \in ListKinds /\ f.resource = key
      BY ToldKinds DEF ReadInv, Covers, ListKinds
    <2>2. Row(f) \in Returned(f.kind)
      BY <2>1, <1>2 DEF Respects, Before
    <2>3. Row(f) \in body.lists[f.kind]
      BY <2>1, <2>2, <1>1
    <2> QED
      BY <2>1, <2>3, <1>1 DEF Told
  <1>8. Respects("core", what, key, core)
    BY <1>2
  <1>9. MergeOwed(what, key, body)
    BY <1>1, <1>8 DEF MergeOwed, Respects, Detailed
  <1>10. StatesOwed(what, key, body)
    BY <1>1, <1>8 DEF StatesOwed, Respects, Detailed
  <1> QED
    BY <1>6, <1>7, <1>9, <1>10 DEF Responds, body

LEMMA HistoryResponds ==
  ASSUME ReadInv, NEW key, Asking("history", key), query.left = <<>>
  PROVE  Responds("history", key, HistoryResult)
  <1> DEFINE body == HistoryResult
             kinds == {"ownership", "label", "classification", "identifier"}
  <1>1. /\ body.states = Returned("states")
        /\ DOMAIN body.lists = kinds
        /\ \A kind \in kinds : body.lists[kind] = Returned(kind)
    BY DEF HistoryResult
  <1> HIDE DEF body
  <1>2. \A st \in kinds \union {"states"} :
          /\ StillTrue(st, "history", key, Returned(st))
          /\ Respects(st, "history", key, Returned(st))
    <2> SUFFICES ASSUME NEW st \in kinds \union {"states"}
                 PROVE  /\ StillTrue(st, "history", key, Returned(st))
                        /\ Respects(st, "history", key, Returned(st))
      OBVIOUS
    <2>1. st \in {"states", "ownership", "label", "classification", "identifier"}
      OBVIOUS
    <2>2. \E i \in 1..Len(StatementsOf("history")) : StatementsOf("history")[i] = st
      BY <2>1, StatementsMade, Zenon
    <2>3. "history" \in Queries
      BY DEF Queries
    <2> QED
      BY <2>2, <2>3, ReturnedHolds, Zenon
  <1>3. key \in Resources /\ StatesHold(key, body.states)
    BY <1>1, <1>2 DEF StillTrue
  <1>4. \A kind \in kinds : kind \in ListKinds /\ body.lists[kind] \subseteq RowsOf(kind, key)
    BY <1>1, <1>2 DEF StillTrue, ListKinds
  <1>5. BodyHolds("history", key, body)
    <2>1. HistoryBody(body)
      BY <1>1, <1>2 DEF HistoryBody, StillTrue, AnswerTyped, ListKinds
    <2>2. BodyTyped("history", body)
      BY <2>1 DEF BodyTyped
    <2> QED
      BY <2>2, <1>1, <1>3, <1>4 DEF BodyHolds, Detailed
  <1>6. FactsOwed("history", key, body)
    <2> SUFFICES ASSUME NEW f \in Before,
                        Covers([what |-> "history", key |-> key, body |-> body], f)
                 PROVE  f \in Told("history", key, body)
      BY DEF FactsOwed
    <2>1. f \in Facts /\ f.kind \in kinds /\ f.resource = key
      BY ToldKinds DEF ReadInv, Covers, ListKinds
    <2>2. Row(f) \in Returned(f.kind)
      BY <2>1, <1>2 DEF Respects, Before, ListKinds
    <2> QED
      BY <2>1, <2>2, <1>1 DEF Told
  <1>7. MergeOwed("history", key, body)
    BY DEF MergeOwed, Detailed
  <1>8. StatesOwed("history", key, body)
    BY <1>1, <1>2 DEF StatesOwed, Respects, Detailed
  <1> QED
    BY <1>5, <1>6, <1>7, <1>8 DEF Responds, body

LEMMA OthersRespond ==
  ASSUME ReadInv, NEW what \in {"relationships", "identifier", "alias", "id"}, NEW key,
         Asking(what, key), query.left = <<>>
  PROVE  \A st \in {"relationships", "named", "exists"} :
           (\E i \in 1..Len(StatementsOf(what)) : StatementsOf(what)[i] = st)
             /\ (what = "relationships" => st = "relationships")
             /\ (what \in {"identifier", "alias"} => st = "named")
             /\ (what = "id" => st = "exists")
           => Responds(what, key, Returned(st))
  <1> SUFFICES ASSUME NEW st,
                      \E i \in 1..Len(StatementsOf(what)) : StatementsOf(what)[i] = st,
                      what = "relationships" => st = "relationships",
                      what \in {"identifier", "alias"} => st = "named",
                      what = "id" => st = "exists"
               PROVE  Responds(what, key, Returned(st))
    OBVIOUS
  <1> DEFINE body == Returned(st)
  <1>1. StillTrue(st, what, key, body) /\ Respects(st, what, key, body)
    BY ReturnedHolds DEF Queries
  <1> HIDE DEF body
  <1>2. BodyHolds(what, key, body)
    <2>1. BodyTyped(what, body)
      BY <1>1 DEF BodyTyped, StillTrue, AnswerTyped, LookupBody, NamedRows, Values
    <2> QED
      BY <2>1, <1>1 DEF BodyHolds, Detailed, StillTrue
  <1>3. FactsOwed(what, key, body)
    <2> SUFFICES ASSUME NEW f \in Before,
                        Covers([what |-> what, key |-> key, body |-> body], f)
                 PROVE  f \in Told(what, key, body)
      BY DEF FactsOwed
    <2>1. f \in Facts /\ f.kind \in ListKinds \union {"relationship"}
      BY ToldKinds DEF ReadInv
    <2>2. CASE what = "relationships"
      <3>1. f.kind = "relationship" /\ key \in {f.resource, f.value}
        BY <2>1, <2>2 DEF Covers, ListKinds
      <3>2. \E x \in body : x.source = f.resource /\ x.target = f.value
        BY <2>2, <3>1, <1>1 DEF Respects, Before
      <3> QED
        BY <2>1, <2>2, <3>1, <3>2 DEF Told
    <2>3. CASE what \in {"identifier", "alias"}
      <3>1. f.kind = what /\ f.value = key
        BY <2>1, <2>3 DEF Covers, ListKinds
      <3>2. body = [resource |-> f.resource, value |-> f.value, primary |-> f.primary]
        BY <2>3, <3>1, <1>1 DEF Respects, Before
      <3> QED
        BY <2>1, <2>3, <3>1, <3>2 DEF Told
    <2>4. CASE what = "id"
      BY <2>1, <2>4 DEF Covers, ListKinds
    <2> QED
      BY <2>2, <2>3, <2>4
  <1>4. MergeOwed(what, key, body) /\ StatesOwed(what, key, body)
    BY DEF MergeOwed, StatesOwed, Detailed
  <1> QED
    BY <1>2, <1>3, <1>4 DEF Responds, body
\* Every response.
RespondSome ==
  \/ RespondDetails \/ RespondHistory \/ RespondRelationships
  \/ RespondIdentifier \/ RespondAlias \/ RespondId

LEMMA RespondTrue ==
  ASSUME ReadInv, RespondSome
  PROVE  \E what, key, body :
           Responds(what, key, body) /\ earlier' = [what |-> what, key |-> key, body |-> body]
  <1>1. query.left = <<>> /\ query.what \in Queries
    BY DEF RespondSome, RespondDetails, RespondHistory, RespondRelationships, RespondIdentifier,
           RespondAlias, RespondId, Complete, Queries
  <1>2. PICK what, key : what \in Queries /\ Asking(what, key)
    BY <1>1 DEF ReadInv, QueryInv, Idle, Queries
  <1>3. query.what = what /\ query.key = key
    <2>1. query = [what |-> what, key |-> key, left |-> query.left]
      BY <1>2 DEF Asking, Progressing
    <2> QED
      BY <2>1
  <1>4. ASSUME NEW body, Respond(body)
        PROVE  earlier' = [what |-> what, key |-> key, body |-> body]
    BY <1>3, <1>4 DEF Respond
  <1>5. CASE RespondDetails
    <2>1. what \in {"details", "name"} /\ Respond(DetailsResult(DetailsProjection))
      BY <1>3, <1>5 DEF RespondDetails, Complete
    <2> QED
      BY <1>1, <1>2, <1>4, <2>1, DetailsRespond
  <1>6. CASE RespondHistory
    <2>1. what = "history" /\ Respond(HistoryResult)
      BY <1>3, <1>6 DEF RespondHistory, Complete
    <2> QED
      BY <1>1, <1>2, <1>4, <2>1, HistoryResponds
  <1>7. CASE RespondRelationships
    <2>1. what = "relationships" /\ Respond(Returned("relationships"))
      BY <1>3, <1>7 DEF RespondRelationships, RelationshipsResult, Complete
    <2>2. Responds(what, key, Returned("relationships"))
      BY <1>1, <1>2, <2>1, StatementsMade, OthersRespond
    <2> QED
      BY <1>4, <2>1, <2>2
  <1>8. CASE RespondIdentifier \/ RespondAlias
    <2>1. what \in {"identifier", "alias"} /\ Respond(Returned("named"))
      BY <1>3, <1>8 DEF RespondIdentifier, RespondAlias, Complete
    <2>2. Responds(what, key, Returned("named"))
      <3>1. \E i \in 1..Len(StatementsOf(what)) : StatementsOf(what)[i] = "named"
        BY <2>1, StatementsMade, Zenon
      <3> QED
        BY <1>1, <1>2, <2>1, <3>1, OthersRespond
    <2> QED
      BY <1>4, <2>1, <2>2
  <1>9. CASE RespondId
    <2>1. what = "id" /\ Respond(Returned("exists"))
      BY <1>3, <1>9 DEF RespondId, Complete
    <2>2. \E i \in 1..Len(StatementsOf("id")) : StatementsOf("id")[i] = "exists"
      BY DEF StatementsOf
    <2>3. Responds(what, key, Returned("exists"))
      BY <1>1, <1>2, <2>1, <2>2, OthersRespond
    <2> QED
      BY <1>4, <2>1, <2>3
  <1> QED
    BY <1>5, <1>6, <1>7, <1>8, <1>9 DEF RespondSome

-----------------------------------------------------------------------------
(***************************************************************************)
(* Every step                                                              *)
(***************************************************************************)
\* The steps that are not responses leave what the client was told.
LEMMA NextCases ==
  ASSUME [Next]_vars
  PROVE  \/ Ask
         \/ Executes
         \/ NotFound
         \/ RespondSome
         \/ UNCHANGED <<query, found, earlier>>
  BY StatementsExecute DEF Next, vars, RespondSome, Transition, Assign, Merge

LEMMA AskingStays ==
  ASSUME WritesInv, WritesInv', Grows, UNCHANGED <<query, found, earlier>>,
         NEW what, NEW key, Asking(what, key)
  PROVE  Asking(what, key)'
  <1>1. Progressing(what, key)' /\ OwnerFound(what)'
    BY DEF Asking, Progressing, OwnerFound
  <1>2. FoundHolds(what, key)'
    <2> SUFFICES ASSUME NEW i \in 1..Len(found)
                 PROVE  \E x : /\ found[i] = x
                               /\ StillTrue(StatementsOf(what)[i], what, key, x)'
                               /\ Respects(StatementsOf(what)[i], what, key, x)'
      BY DEF FoundHolds
    <2>1. PICK x : /\ found[i] = x
                   /\ StillTrue(StatementsOf(what)[i], what, key, x)
                   /\ Respects(StatementsOf(what)[i], what, key, x)
      BY DEF Asking, FoundHolds
    <2>2. StillTrue(StatementsOf(what)[i], what, key, x)'
      BY <2>1, TrueStays
    <2>3. Respects(StatementsOf(what)[i], what, key, x)'
      BY <2>1, RespectsOn
    <2> QED
      BY <2>1, <2>2, <2>3
  <1> QED
    BY <1>1, <1>2 DEF Asking

LEMMA EarlierStays ==
  ASSUME ReadInv, WritesInv', Grows, UNCHANGED earlier
  PROVE  EarlierHolds'
  <1>1. BodyHolds(earlier.what, earlier.key, earlier.body)'
    BY BodyHoldsOn DEF ReadInv, EarlierHolds
  <1> QED
    BY <1>1 DEF EarlierHolds

LEMMA NextInv == ReadInv /\ [Next]_vars => ReadInv'
  <1> SUFFICES ASSUME ReadInv, [Next]_vars
               PROVE  ReadInv'
    OBVIOUS
  <1>1. WritesInv' /\ Grows
    BY WritesGrow DEF ReadInv
  <1>2. CASE Ask
    BY <1>1, <1>2, AskInv, EarlierStays DEF ReadInv, Ask
  <1>3. CASE Executes
    BY <1>1, <1>3, ExecuteInv, EarlierStays DEF ReadInv, Executes, Execute
  <1>4. CASE NotFound
    BY <1>1, <1>4, IdleInv, EarlierStays DEF ReadInv, NotFound
  <1>5. CASE RespondSome
    <2>1. PICK what, key, body :
            /\ BodyHolds(what, key, body)
            /\ earlier' = [what |-> what, key |-> key, body |-> body]
      BY <1>5, RespondTrue DEF Responds
    <2>2. BodyHolds(what, key, body)'
      BY <1>1, <2>1, BodyHoldsOn DEF ReadInv
    <2>3. EarlierHolds'
      <3>1. earlier'.what = what /\ earlier'.key = key /\ earlier'.body = body
        BY <2>1
      <3> QED
        BY <2>2, <3>1 DEF EarlierHolds
    <2>4. query' = Idle /\ found' = NoRows
      BY <1>5 DEF RespondSome, RespondDetails, RespondHistory, RespondRelationships,
                  RespondIdentifier, RespondAlias, RespondId, Respond
    <2> QED
      BY <1>1, <2>3, <2>4, IdleInv DEF ReadInv
  <1>6. CASE UNCHANGED <<query, found, earlier>>
    <2>1. QueryInv'
      BY <1>1, <1>6, AskingStays DEF ReadInv, QueryInv
    <2> QED
      BY <1>1, <1>6, <2>1, EarlierStays DEF ReadInv
  <1> QED
    BY <1>2, <1>3, <1>4, <1>5, <1>6, NextCases
LEMMA Invariant == Spec => []ReadInv
  <1>1. Init => ReadInv
    BY InitInv
  <1>2. ReadInv /\ [Next]_vars => ReadInv'
    BY NextInv
  <1> QED
    BY <1>1, <1>2, PTL DEF Spec

\* A step that tells the client more is a response.
LEMMA TellingResponds ==
  ASSUME ReadInv, [Next]_vars, earlier' # earlier
  PROVE  /\ FactsOwed(earlier'.what, earlier'.key, earlier'.body)
         /\ MergeOwed(earlier'.what, earlier'.key, earlier'.body)
         /\ StatesOwed(earlier'.what, earlier'.key, earlier'.body)
         /\ \A f : Covers([what |-> earlier'.what, key |-> earlier'.key, body |-> earlier'.body], f)
                     <=> Covers(earlier', f)
  <1>1. RespondSome
    BY NextCases DEF Ask, Executes, Execute, NotFound
  <1>2. PICK what, key, body :
          Responds(what, key, body) /\ earlier' = [what |-> what, key |-> key, body |-> body]
    BY <1>1, RespondTrue
  <1>3. earlier'.what = what /\ earlier'.key = key /\ earlier'.body = body
    BY <1>2
  <1>4. \A f : Covers([what |-> what, key |-> key, body |-> body], f) <=> Covers(earlier', f)
    BY <1>2, Zenon
  <1> QED
    BY <1>2, <1>3, <1>4 DEF Responds

LEMMA ShownStays ==
  ASSUME ShownTyped, [Next]_vars
  PROVE  ShownTyped'
  <1>1. CASE Transition
    BY <1>1 DEF Transition, Transitions!TimelineNext, Transitions!Enter, ShownTyped
  <1>2. CASE ~Transition
    <2>1. UNCHANGED shown
      BY <1>2 DEF Next, vars, rows, Ask, ReadExists, ReadCore, ReadStates, ReadOwnership, ReadLabels,
        ReadClassifications, ReadIdentifiers, ReadAliases, ReadRelationships,
        FindByIdentifier, FindByAlias, OneOf, Execute, NotFound, RespondDetails,
        RespondHistory, RespondRelationships, RespondIdentifier, RespondAlias, RespondId,
        Respond, Assign, Merge
    <2> QED
      BY <2>1 DEF ShownTyped
  <1> QED
    BY <1>1, <1>2

LEMMA AtMostSeven ==
  ASSUME NEW what \in Queries
  PROVE  Len(StatementsOf(what)) <= 7
  <1>1. CASE what = "name"
    <2>1. Len(StatementsOf(what)) = 7
      BY <1>1, NameStatements
    <2> QED
      BY <2>1
  <1>2. CASE what = "details"
    <2>1. StatementsOf(what) = DetailsStatements
      BY <1>2 DEF StatementsOf
    <2>2. Len(DetailsStatements) = 6
      BY DEF DetailsStatements
    <2> QED
      BY <2>1, <2>2
  <1>3. CASE what = "history"
    <2>1. StatementsOf(what) = HistoryStatements
      BY <1>3 DEF StatementsOf
    <2>2. Len(HistoryStatements) = 6
      BY DEF HistoryStatements
    <2> QED
      BY <2>1, <2>2
  <1>4. CASE what = "relationships"
    <2>1. StatementsOf(what) = <<"exists", "relationships">>
      BY <1>4 DEF StatementsOf
    <2> QED
      BY <2>1
  <1>5. CASE what = "id"
    BY <1>5 DEF StatementsOf
  <1>6. CASE what \in {"identifier", "alias"}
    BY <1>6 DEF StatementsOf
  <1> QED
    BY <1>1, <1>2, <1>3, <1>4, <1>5, <1>6 DEF Queries

\* A read in progress asks one of the queries, and has no more rows than statements.
LEMMA QueryTyped ==
  ASSUME QueryInv
  PROVE  /\ query = Idle \/ (query.what \in Queries /\ query.key \in Keys(query.what))
         /\ Len(found) <= Len(DetailsStatements) + 1
  <1>1. Len(DetailsStatements) + 1 = 7
    BY DEF DetailsStatements
  <1>2. CASE query = Idle /\ found = <<>>
    BY <1>1, <1>2
  <1>3. ASSUME NEW what \in Queries, NEW key, Asking(what, key)
        PROVE  /\ query.what \in Queries /\ query.key \in Keys(query.what)
               /\ Len(found) <= 7
    <2>1. query.what = what /\ query.key = key
      <3>1. query = [what |-> what, key |-> key, left |-> query.left]
        BY <1>3 DEF Asking, Progressing
      <3> QED
        BY <3>1
    <2>2. /\ key \in Keys(what)
          /\ Len(found) + Len(query.left) = Len(StatementsOf(what))
          /\ query.left \in Seq(Statements)
      BY <1>3 DEF Asking, Progressing
    <2>3. PICK S : found \in Seq(S)
      BY <1>3 DEF Asking, Progressing
    <2>4. Len(found) \in Nat /\ Len(query.left) \in Nat
      BY <2>2, <2>3
    <2>5. Len(found) + Len(query.left) <= 7
      BY <2>2, AtMostSeven
    <2> QED
      BY <2>1, <2>2, <2>4, <2>5
  <1> QED
    BY <1>1, <1>2, <1>3 DEF QueryInv

-----------------------------------------------------------------------------
(***************************************************************************)
(* Theorems                                                                *)
(***************************************************************************)
\* Every response has the shape of its response model, however the rows change between
\* its statements: the open interval of a history has no end and the others have one, and
\* a look-up or a relationship names stored resources only.
THEOREM BodiesFitTheirModels == Spec => []TypeOK
  <1>1. Spec => []ShownTyped
    <2>1. Init => ShownTyped
      BY DEF Init, ShownTyped
    <2>2. ShownTyped /\ [Next]_vars => ShownTyped'
      BY ShownStays
    <2> QED
      BY <2>1, <2>2, PTL DEF Spec
  <1>2. ReadInv /\ ShownTyped => TypeOK
    BY QueryTyped DEF TypeOK, ReadInv, ShownTyped, WritesInv, TimelinesOrdered, FactsClear,
                      MergedOnce, EarlierHolds, BodyHolds, BodyTyped
  <1> QED
    BY <1>1, <1>2, Invariant, PTL

\* No statement that ends in one_or_none meets two rows, whatever the write path has
\* committed: a resource has one current state, one primary owner and one outgoing merge
\* at most, and an identifier or an alias names one resource.
THEOREM LookUpsFindOne == Spec => []OneOrNone
  <1>1. ReadInv => OneOrNone
    BY WritesOneOrNone DEF ReadInv
  <1> QED
    BY <1>1, Invariant, PTL

\* The organization of a details response is among the primary owners it lists, however
\* many assignments commit between the two statements.
THEOREM OwnersAgree == Spec => []PrimaryIsListed
  <1>1. ReadInv => PrimaryIsListed
    BY DEF ReadInv, EarlierHolds, BodyHolds, OwnerListed, Detailed, PrimaryIsListed
  <1> QED
    BY <1>1, Invariant, PTL

\* No response takes back a fact or a merge that the response before it told, whichever
\* way the two reads ask for it and whatever commits between their statements.
THEOREM AnswersAccumulate == Spec => NothingTakenBack
  <1> DEFINE Kept ==
        earlier' # earlier =>
          /\ \A f \in Before : Covers(earlier', f) => f \in Told(earlier'.what, earlier'.key, earlier'.body)
          /\ (/\ {earlier.what, earlier'.what} \subseteq {"details", "name"}
              /\ earlier.key = earlier'.key
              /\ earlier.body.merge # Null)
               => earlier'.body.merge = earlier.body.merge
  <1>1. ReadInv /\ [Next]_vars => Kept
    BY TellingResponds DEF FactsOwed, MergeOwed, Detailed
  <1>2. ReadInv /\ [Next]_vars => [Kept]_vars
    BY <1>1
  <1>3. [][Kept]_vars => NothingTakenBack
    BY PTL DEF NothingTakenBack, Before
  <1> QED
    BY <1>2, <1>3, Invariant, PTL DEF Spec

\* The state a details response shows as current begins an interval of the history the
\* client reads next, and details after a history are no older than the last of it.
THEOREM HistoriesAgree == Spec => HistoryAgrees
  <1> DEFINE Agrees ==
        earlier' # earlier /\ earlier'.key = earlier.key =>
          /\ (/\ earlier'.what = "history"
              /\ earlier.what \in {"details", "name"}
              /\ earlier.body.state # Null)
               => \E i \in DOMAIN earlier'.body.states :
                    /\ earlier'.body.states[i].state = earlier.body.state.state
                    /\ earlier'.body.states[i].from = earlier.body.state.at
          /\ (/\ earlier'.what \in {"details", "name"}
              /\ earlier.what = "history"
              /\ earlier.body.states # <<>>)
               => /\ earlier'.body.state # Null
                  /\ earlier'.body.state.at >= Transitions!Latest(earlier.body.states).from
  <1>1. ReadInv /\ [Next]_vars => Agrees
    BY TellingResponds DEF StatesOwed, Detailed
  <1>2. ReadInv /\ [Next]_vars => [Agrees]_vars
    BY <1>1
  <1>3. [][Agrees]_vars => HistoryAgrees
    BY PTL DEF HistoryAgrees
  <1> QED
    BY <1>2, <1>3, Invariant, PTL DEF Spec
=============================================================================
