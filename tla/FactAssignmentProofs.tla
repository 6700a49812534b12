------------------------ MODULE FactAssignmentProofs ------------------------
(***************************************************************************)
(* Proofs about FactAssignment, for any number of requests, resources and  *)
(* referenced rows, and any of the six kinds.                              *)
(***************************************************************************)
EXTENDS FactAssignment, NaturalExtrema, SequenceTheorems

(***************************************************************************)
(* The inductive invariant.  A request past its locks holds the row of the *)
(* resource its fact is about, and one that still waits holds less than it *)
(* waits for.  Under the lock no fact of that resource appears, which is   *)
(* what keeps the look-ups true; the facts that are inserted and not yet   *)
(* committed clash neither with the stored ones nor with each other.       *)
(***************************************************************************)
Typed ==
  /\ TypeOK
  /\ command \in [Writers -> Facts \union {<<>>}]
  /\ awaited \in [Writers -> Seq(Ids)]

Locked == {"references", "duplicate", "primary", "flush", "commit"}

HoldsLess(w) ==
  \E a, b \in Ids :
    /\ a < b
    /\ command[w].resource \in {a, b}
    /\ awaited[w] = <<b>>
    /\ a \in Resources
    /\ \A r \in Resources : lock[r] = w <=> r = a

LocksOf(w) ==
  /\ phase[w] = "idle" => \A r \in Resources : lock[r] # w
  /\ phase[w] = "lock" =>
       \/ awaited[w] = LockOrder(command[w]) /\ \A r \in Resources : lock[r] # w
       \/ HoldsLess(w)
  /\ phase[w] \in Locked =>
       command[w].resource \in Resources /\ lock[command[w].resource] = w

LocksHeld == \A w \in Writers : LocksOf(w)

NotRepeated(c) == \A f \in facts : ~(SameValue(f, c) /\ f.resource = c.resource)
NoPrimary(c) == \A f \in facts : ~SamePrimary(f, c)

ChecksHold ==
  \A w \in Writers :
    /\ phase[w] \in {"primary", "flush", "commit"} => NotRepeated(command[w])
    /\ phase[w] \in {"flush", "commit"} => NoPrimary(command[w])

InsertedAreClear ==
  \A w \in Writers : phase[w] = "commit" =>
    /\ \A f \in facts : ~Clashes(f, command[w])
    /\ \A v \in Writers \ {w} : phase[v] = "commit" => ~Clashes(command[v], command[w])

Inv == Typed /\ LocksHeld /\ ChecksHold /\ InsertedAreClear

-----------------------------------------------------------------------------
LEMMA ClashesSymmetric ==
  ASSUME NEW f, NEW g
  PROVE  Clashes(f, g) <=> Clashes(g, f)
  <1>1. f.kind = g.kind => (f.kind \in TenantWide <=> g.kind \in TenantWide)
    OBVIOUS
  <1> QED
    BY <1>1 DEF Clashes, SameValue, SamePrimary

LEMMA FactShape ==
  ASSUME NEW c \in Facts
  PROVE  /\ c.kind \in Kinds /\ c.resource \in Ids /\ c.group \in Groups
         /\ c.primary \in BOOLEAN /\ c.primary => c.kind \in PrimaryKinds
         /\ c.value \in ValuesOf(c.kind, c.resource, c.group)
  BY DEF Facts

LEMMA IdsAreNumbers == \A i \in Ids : i \in Nat
  BY AssignmentConstants

LEMMA TailOf ==
  ASSUME NEW S, NEW s \in Seq(S), s # <<>>
  PROVE  Tail(s) \in Seq(S) /\ (Tail(s) = <<>> <=> Len(s) = 1)
  <1>1. Tail(s) \in Seq(S) /\ Len(Tail(s)) = Len(s) - 1
    BY HeadTailProperties
  <1>2. Len(s) \in Nat /\ (Tail(s) = <<>> <=> Len(Tail(s)) = 0)
    BY <1>1, EmptySeq, LenProperties
  <1> QED
    BY <1>1, <1>2

\* The rows are locked in the order of their ids.
LEMMA LockOrderShape ==
  ASSUME NEW c \in Facts
  PROVE  \/ LockOrder(c) = <<c.resource>> /\ c.resource \in Ids
         \/ \E a, b \in Ids : /\ a < b
                              /\ c.resource \in {a, b}
                              /\ LockOrder(c) = <<a, b>>
  <1>1. CASE c.kind # "relationship"
    BY <1>1, FactShape DEF LockOrder
  <1>2. CASE c.kind = "relationship"
    <2>1. c.resource \in Ids /\ c.value \in Ids /\ c.resource # c.value
      BY <1>2, FactShape DEF ValuesOf
    <2>2. c.resource \in Int /\ c.value \in Int
      BY <2>1, IdsAreNumbers
    <2> QED
      BY <1>2, <2>1, <2>2 DEF LockOrder
  <1> QED
    BY <1>1, <1>2

LEMMA ReferencesTyped ==
  ASSUME NEW c \in Facts
  PROVE  Managed(c) \subseteq Groups \union Values
  BY FactShape DEF Managed, References, ValuesOf

LEMMA InitInv == Init => Inv
  <1> SUFFICES ASSUME Init
               PROVE  Inv
    OBVIOUS
  <1>1. active \subseteq Groups \union Values
    BY ReferencesTyped DEF Init
  <1>2. awaited \in [Writers -> Seq(Ids)]
    BY DEF Init
  <1>3. Typed
    BY <1>1, <1>2 DEF Init, Typed, TypeOK, Phases, Outcomes
  <1>4. LocksHeld
    BY AssignmentConstants DEF Init, LocksHeld, LocksOf, Locked
  <1>5. ChecksHold /\ InsertedAreClear
    BY DEF Init, ChecksHold, InsertedAreClear
  <1> QED
    BY <1>3, <1>4, <1>5 DEF Inv

(***************************************************************************)
(* Types                                                                   *)
(***************************************************************************)
LEMMA LockOrderTyped ==
  ASSUME NEW c \in Facts
  PROVE  LockOrder(c) \in Seq(Ids) /\ LockOrder(c) # <<>>
  <1>1. CASE LockOrder(c) = <<c.resource>> /\ c.resource \in Ids
    BY <1>1
  <1>2. ASSUME NEW a \in Ids, NEW b \in Ids, LockOrder(c) = <<a, b>>
        PROVE  LockOrder(c) \in Seq(Ids) /\ LockOrder(c) # <<>>
    BY <1>2
  <1> QED
    BY <1>1, <1>2, LockOrderShape

LEMMA FinishTyped ==
  ASSUME Typed, NEW w \in Writers, NEW o \in Outcomes, Finish(w, o), facts' \subseteq Facts
  PROVE  Typed'
  <1> USE DEF Typed, TypeOK, Phases
  <1>1. lock' \in [Resources -> Writers \union {NoOne}]
    BY DEF Finish, Release
  <1>2. /\ phase' \in [Writers -> Phases]
        /\ command' \in [Writers -> Facts \union {<<>>}]
        /\ awaited' \in [Writers -> Seq(Ids)]
        /\ outcome' \in [Writers -> Outcomes]
    BY DEF Finish
  <1> QED
    BY <1>1, <1>2 DEF Finish

LEMMA LockNextTyped ==
  ASSUME Typed, NEW w \in Writers, LockNext(w)
  PROVE  Typed'
  <1> USE DEF Typed, TypeOK, Phases
  <1>1. awaited[w] \in Seq(Ids) /\ awaited[w] # <<>> /\ phase[w] = "lock"
    BY DEF LockNext, Advance
  <1>2. /\ Head(awaited[w]) \in Resources
        /\ lock' = [lock EXCEPT ![Head(awaited[w])] = w]
        /\ awaited' = [awaited EXCEPT ![w] = Tail(awaited[w])]
        /\ phase' = [phase EXCEPT ![w] = IF Len(awaited[w]) = 1 THEN "references" ELSE "lock"]
        /\ UNCHANGED <<facts, active, outcome, command>>
    BY DEF LockNext, Advance
  <1>3. Tail(awaited[w]) \in Seq(Ids) /\ (Tail(awaited[w]) = <<>> <=> Len(awaited[w]) = 1)
    BY <1>1, TailOf
  <1> QED
    BY <1>1, <1>2, <1>3

LEMMA NextTyped ==
  ASSUME Typed, [Next]_vars
  PROVE  Typed'
  <1> USE DEF Typed, TypeOK, Phases
  <1>1. CASE Deactivate \/ UNCHANGED vars
    BY <1>1 DEF Deactivate, vars
  <1>2. ASSUME NEW w \in Writers, Begin(w)
        PROVE  Typed'
    <2>1. PICK c \in Facts : command' = [command EXCEPT ![w] = c]
                             /\ awaited' = [awaited EXCEPT ![w] = LockOrder(c)]
      BY <1>2 DEF Begin
    <2> QED
      BY <1>2, <2>1, LockOrderTyped DEF Begin, Outcomes
  <1>3. ASSUME NEW w \in Writers, LockNext(w)
        PROVE  Typed'
    BY <1>3, LockNextTyped
  <1>4. ASSUME NEW w \in Writers,
               CheckReferences(w) \/ CheckDuplicate(w) \/ CheckPrimary(w) \/ Flush(w)
        PROVE  Typed'
    BY <1>4 DEF CheckReferences, CheckDuplicate, CheckPrimary, Flush, Advance
  <1>5. ASSUME NEW w \in Writers, NEW o \in Outcomes, Fail(w, o)
        PROVE  Typed'
    BY <1>5, FinishTyped DEF Fail
  <1>6. ASSUME NEW w \in Writers, NEW o \in Outcomes, phase[w] = "commit", Store(w),
               Finish(w, o)
        PROVE  Typed'
    BY <1>6, FinishTyped DEF Store
  <1> QED
    BY <1>1, <1>2, <1>3, <1>4, <1>5, <1>6
    DEF Next, Outcomes, ResourceMissing, ReferenceMissing, ReferenceInactive,
        ValueOfOtherType, Duplicate, PrimaryExists, InsertRejected, Lose, Commit,
        CommitUnacknowledged

(***************************************************************************)
(* Locks                                                                   *)
(***************************************************************************)
\* What happens to others' locks and requests is nothing to v.
LEMMA OthersLocks ==
  ASSUME NEW v \in Writers, LocksOf(v),
         phase'[v] = phase[v], command'[v] = command[v], awaited'[v] = awaited[v],
         \A r \in Resources : lock'[r] = v <=> lock[r] = v
  PROVE  LocksOf(v)'
  BY DEF LocksOf, HoldsLess

LEMMA FinishLocks ==
  ASSUME Typed, LocksHeld, NEW w \in Writers, NEW o, Finish(w, o)
  PROVE  LocksHeld'
  <1> SUFFICES ASSUME NEW v \in Writers
               PROVE  LocksOf(v)'
    BY DEF LocksHeld
  <1>1. \A r \in Resources : lock'[r] = IF lock[r] = w THEN NoOne ELSE lock[r]
    BY DEF Finish, Release
  <1>2. CASE v = w
    <2>1. phase'[w] = "idle" /\ \A r \in Resources : lock'[r] # w
      BY <1>1, AssignmentConstants DEF Finish, Typed, TypeOK
    <2> QED
      BY <1>2, <2>1 DEF LocksOf, Locked
  <1>3. CASE v # w
    <2>1. \A r \in Resources : lock'[r] = v <=> lock[r] = v
      BY <1>1, <1>3, AssignmentConstants
    <2>2. phase'[v] = phase[v] /\ command'[v] = command[v] /\ awaited'[v] = awaited[v]
      BY <1>3 DEF Finish, Typed, TypeOK
    <2> QED
      BY <2>1, <2>2, OthersLocks DEF LocksHeld
  <1> QED
    BY <1>2, <1>3

LEMMA LockNextLocks ==
  ASSUME Typed, LocksHeld, NEW w \in Writers, LockNext(w)
  PROVE  LocksHeld'
  <1> SUFFICES ASSUME NEW v \in Writers
               PROVE  LocksOf(v)'
    BY DEF LocksHeld
  <1> DEFINE h == Head(awaited[w])
             c == command[w]
  <1>1. /\ phase[w] = "lock" /\ h \in Resources /\ lock[h] = NoOne
        /\ lock' = [lock EXCEPT ![h] = w]
        /\ awaited' = [awaited EXCEPT ![w] = Tail(awaited[w])]
        /\ phase' = [phase EXCEPT ![w] = IF Len(awaited[w]) = 1 THEN "references" ELSE "lock"]
        /\ command' = command
    BY DEF LockNext, Advance
  <1>2. /\ lock'[h] = w
        /\ \A r \in Resources \ {h} : lock'[r] = lock[r]
    BY <1>1 DEF Typed, TypeOK
  <1>3. /\ awaited'[w] = Tail(awaited[w]) /\ command'[w] = c
        /\ phase'[w] = IF Len(awaited[w]) = 1 THEN "references" ELSE "lock"
    BY <1>1 DEF Typed, TypeOK
  <1>4. CASE v # w
    <2>1. \A r \in Resources : lock'[r] = v <=> lock[r] = v
      BY <1>1, <1>2, <1>4, AssignmentConstants
    <2> QED
      BY <1>1, <1>4, <2>1, OthersLocks DEF LocksHeld, Typed, TypeOK
  <1>5. CASE v = w /\ awaited[w] = LockOrder(c) /\ \A r \in Resources : lock[r] # w
    <2>1. c \in Facts
      BY <1>1 DEF Typed, TypeOK
    <2>2. CASE LockOrder(c) = <<c.resource>> /\ c.resource \in Ids
      <3>1. h = c.resource /\ Len(awaited[w]) = 1
        BY <1>5, <2>2
      <3> QED
        BY <1>1, <1>2, <1>3, <1>5, <3>1 DEF LocksOf, Locked
    <2>3. ASSUME NEW a \in Ids, NEW b \in Ids, a < b, c.resource \in {a, b},
                 LockOrder(c) = <<a, b>>
          PROVE  LocksOf(v)'
      <3>1. h = a /\ Len(awaited[w]) # 1 /\ Tail(awaited[w]) = <<b>>
        BY <1>5, <2>3
      <3>2. phase'[w] = "lock" /\ awaited'[w] = <<b>> /\ command'[w] = c
        BY <1>3, <3>1
      <3>3. a \in Resources /\ \A r \in Resources : lock'[r] = w <=> r = a
        BY <1>1, <1>2, <1>5, <3>1
      <3>4. HoldsLess(w)'
        BY <2>3, <3>2, <3>3 DEF HoldsLess
      <3> QED
        BY <1>5, <3>2, <3>4 DEF LocksOf, Locked
    <2> QED
      BY <2>1, <2>2, <2>3, LockOrderShape
  <1>6. CASE v = w /\ HoldsLess(w)
    <2>1. PICK a \in Ids, b \in Ids :
            /\ c.resource \in {a, b} /\ awaited[w] = <<b>> /\ a \in Resources
            /\ lock[a] = w
      BY <1>6 DEF HoldsLess
    <2>2. h = b /\ Len(awaited[w]) = 1
      BY <2>1
    <2>3. phase'[w] = "references"
      BY <1>3, <2>2
    <2>4. c.resource \in Resources /\ lock'[c.resource] = w
      BY <1>1, <1>2, <2>1, <2>2
    <2> QED
      BY <1>3, <1>6, <2>3, <2>4 DEF LocksOf, Locked
  <1> QED
    BY <1>1, <1>4, <1>5, <1>6 DEF LocksHeld, LocksOf

LEMMA NextLocks ==
  ASSUME Typed, LocksHeld, [Next]_vars
  PROVE  LocksHeld'
  <1>1. CASE Deactivate \/ UNCHANGED vars
    BY <1>1 DEF Deactivate, vars, LocksHeld, LocksOf, HoldsLess
  <1>2. ASSUME NEW w \in Writers, Begin(w), NEW v \in Writers
        PROVE  LocksOf(v)'
    <2>1. PICK c \in Facts : command' = [command EXCEPT ![w] = c]
                             /\ awaited' = [awaited EXCEPT ![w] = LockOrder(c)]
      BY <1>2 DEF Begin
    <2>2. phase[w] = "idle" /\ phase' = [phase EXCEPT ![w] = "lock"] /\ lock' = lock
      BY <1>2 DEF Begin
    <2>3. CASE v = w
      <3>1. \A r \in Resources : lock'[r] # w
        BY <2>2 DEF LocksHeld, LocksOf
      <3>2. phase'[w] = "lock" /\ awaited'[w] = LockOrder(command'[w])
        BY <2>1, <2>2 DEF Typed, TypeOK
      <3>3. LockOrder(command'[w]) = LockOrder(command[w])'
        BY DEF LockOrder
      <3> QED
        BY <2>3, <3>1, <3>2, <3>3 DEF LocksOf, Locked
    <2>4. CASE v # w
      BY <2>1, <2>2, <2>4, OthersLocks DEF LocksHeld, Typed, TypeOK
    <2> QED
      BY <2>3, <2>4
  <1>3. ASSUME NEW w \in Writers, NEW v \in Writers,
               CheckReferences(w) \/ CheckDuplicate(w) \/ CheckPrimary(w) \/ Flush(w)
        PROVE  LocksOf(v)'
    <2>1. lock' = lock /\ command' = command /\ awaited' = awaited
      BY <1>3 DEF CheckReferences, CheckDuplicate, CheckPrimary, Flush
    <2>2. IF v = w THEN phase[v] \in Locked /\ phase'[v] \in Locked ELSE phase'[v] = phase[v]
      BY <1>3 DEF CheckReferences, CheckDuplicate, CheckPrimary, Flush, Advance, Locked,
                  Typed, TypeOK
    <2>3. CASE v = w
      BY <2>1, <2>2, <2>3 DEF LocksHeld, LocksOf, Locked
    <2>4. CASE v # w
      BY <2>1, <2>2, <2>4, OthersLocks DEF LocksHeld
    <2> QED
      BY <2>3, <2>4
  <1> QED
    BY <1>1, <1>2, <1>3, LockNextLocks, FinishLocks
    DEF Next, LocksHeld, Fail, ResourceMissing, ReferenceMissing, ReferenceInactive,
        ValueOfOtherType, Duplicate, PrimaryExists, InsertRejected, Lose, Commit,
        CommitUnacknowledged

(***************************************************************************)
(* Look-ups and insertions                                                 *)
(***************************************************************************)
\* Two requests past their locks work on different resources.
LEMMA ResourcesDiffer ==
  ASSUME LocksHeld, NEW v \in Writers, NEW w \in Writers, v # w,
         phase[v] \in Locked, phase[w] \in Locked
  PROVE  command[v].resource # command[w].resource
  BY DEF LocksHeld, LocksOf

LEMMA FinishChecks ==
  ASSUME Typed, LocksHeld, ChecksHold, InsertedAreClear,
         NEW w \in Writers, NEW o, Finish(w, o),
         \/ facts' = facts
         \/ phase[w] = "commit" /\ Store(w)
  PROVE  ChecksHold' /\ InsertedAreClear'
  <1>1. phase'[w] = "idle"
    BY DEF Finish, Typed, TypeOK
  <1>2. ASSUME NEW v \in Writers, v # w
        PROVE  phase'[v] = phase[v] /\ command'[v] = command[v]
    BY <1>2 DEF Finish, Typed, TypeOK
  <1>3. CASE facts' = facts
    BY <1>1, <1>2, <1>3 DEF ChecksHold, InsertedAreClear, NotRepeated, NoPrimary
  <1>4. CASE phase[w] = "commit" /\ Store(w)
    <2>1. facts' = facts \union {command[w]}
      BY <1>4 DEF Store
    <2>2. ChecksHold'
      <3>1. ASSUME NEW v \in Writers, phase'[v] \in {"primary", "flush", "commit"}
            PROVE  /\ v # w /\ phase'[v] = phase[v] /\ command'[v] = command[v]
                   /\ command[w].resource # command[v].resource
        BY <1>1, <1>2, <1>4, <3>1, ResourcesDiffer DEF Locked
      <3> QED
        BY <2>1, <3>1 DEF ChecksHold, NotRepeated, NoPrimary, SamePrimary
    <2>3. InsertedAreClear'
      BY <1>1, <1>2, <1>4, <2>1 DEF InsertedAreClear
    <2> QED
      BY <2>2, <2>3
  <1> QED
    BY <1>3, <1>4

LEMMA NextChecks ==
  ASSUME Typed, LocksHeld, ChecksHold, InsertedAreClear, [Next]_vars
  PROVE  ChecksHold' /\ InsertedAreClear'
  <1> USE DEF ChecksHold, InsertedAreClear, NotRepeated, NoPrimary
  <1>1. CASE Deactivate \/ UNCHANGED vars
    BY <1>1 DEF Deactivate, vars
  <1>2. ASSUME NEW w \in Writers, Begin(w) \/ LockNext(w) \/ CheckReferences(w)
        PROVE  ChecksHold' /\ InsertedAreClear'
    <2>1. facts' = facts /\ phase'[w] \notin {"primary", "flush", "commit"}
      BY <1>2 DEF Begin, LockNext, CheckReferences, Advance, Typed, TypeOK
    <2>2. \A v \in Writers \ {w} : phase'[v] = phase[v] /\ command'[v] = command[v]
      BY <1>2 DEF Begin, LockNext, CheckReferences, Advance, Typed, TypeOK
    <2> QED
      BY <2>1, <2>2
  <1>3. ASSUME NEW w \in Writers, CheckDuplicate(w) \/ CheckPrimary(w)
        PROVE  ChecksHold' /\ InsertedAreClear'
    <2>1. facts' = facts /\ command' = command
      BY <1>3 DEF CheckDuplicate, CheckPrimary, Advance
    <2>2. phase'[w] \in {"primary", "flush"} /\ \A v \in Writers \ {w} : phase'[v] = phase[v]
      BY <1>3 DEF CheckDuplicate, CheckPrimary, Advance, Typed, TypeOK
    <2>3. NotRepeated(command[w])
      BY <1>3 DEF CheckDuplicate, CheckPrimary, Advance, Repeats
    <2>4. phase'[w] = "flush" => NoPrimary(command[w])
      BY <1>3 DEF CheckDuplicate, CheckPrimary, CurrentPrimary, SamePrimary, Advance, Typed,
                  TypeOK
    <2> QED
      BY <2>1, <2>2, <2>3, <2>4
  <1>4. ASSUME NEW w \in Writers, Flush(w)
        PROVE  ChecksHold' /\ InsertedAreClear'
    <2>1. facts' = facts /\ command' = command /\ phase[w] = "flush"
          /\ phase'[w] = "commit" /\ \A v \in Writers \ {w} : phase'[v] = phase[v]
      BY <1>4 DEF Flush, Advance, Typed, TypeOK
    <2>2. \A v \in Writers \ {w} : phase[v] = "commit" =>
            ~Clashes(command[v], command[w]) /\ ~Clashes(command[w], command[v])
      BY <1>4, ClashesSymmetric DEF Flush, InFlightClash
    <2>3. \A f \in facts : ~Clashes(f, command[w])
      BY <1>4 DEF Flush
    <2> QED
      BY <2>1, <2>2, <2>3
  <1>5. ASSUME NEW w \in Writers, NEW o, Fail(w, o)
        PROVE  ChecksHold' /\ InsertedAreClear'
    BY <1>5, FinishChecks DEF Fail
  <1>6. ASSUME NEW w \in Writers, Commit(w) \/ CommitUnacknowledged(w)
        PROVE  ChecksHold' /\ InsertedAreClear'
    BY <1>6, FinishChecks DEF Commit, CommitUnacknowledged
  <1> QED
    BY <1>1, <1>2, <1>3, <1>4, <1>5, <1>6
    DEF Next, ResourceMissing, ReferenceMissing, ReferenceInactive, ValueOfOtherType,
        Duplicate, PrimaryExists, InsertRejected, Lose

LEMMA Invariant == Spec => []Inv
  <1>1. Inv /\ [Next]_vars => Inv'
    BY NextTyped, NextLocks, NextChecks DEF Inv
  <1> QED
    BY <1>1, InitInv, PTL DEF Spec

-----------------------------------------------------------------------------
\* Every variable of the assignment model keeps its type.
THEOREM AssignmentsTyped == Spec => []TypeOK
  <1>1. Inv => TypeOK
    BY DEF Inv, Typed
  <1> QED
    BY <1>1, Invariant, PTL

\* What a handler looked up under the row lock is true until it commits.
THEOREM LookUpsHold == Spec => []ChecksStillHold
  <1>1. Inv => ChecksStillHold
    <2> SUFFICES ASSUME Inv, NEW w \in Writers, phase[w] \in {"flush", "commit"},
                        NEW f \in facts, Clashes(f, command[w])
                 PROVE  command[w].kind \in TenantWide /\ f.resource # command[w].resource
      BY DEF ChecksStillHold
    <2> QED
      BY DEF Inv, ChecksHold, NotRepeated, NoPrimary, Clashes, SameValue
  <1> QED
    BY <1>1, Invariant, PTL

(***************************************************************************)
(* The abstract store                                                      *)
(***************************************************************************)
\* Only a commit adds a fact, the request's, and nothing stored clashes with it.
LEMMA StepRecords ==
  ASSUME Inv, [Next]_vars, facts' # facts
  PROVE  \E c \in Facts : facts' = facts \union {c} /\ \A g \in facts : ~Clashes(c, g)
  <1>1. PICK w \in Writers : phase[w] = "commit" /\ Store(w)
    BY DEF Next, vars, Deactivate, Begin, LockNext, ResourceMissing, CheckReferences,
           ReferenceMissing, ReferenceInactive, ValueOfOtherType, CheckDuplicate, Duplicate,
           CheckPrimary, PrimaryExists, Flush, InsertRejected, Commit, CommitUnacknowledged,
           Lose, Fail, Advance
  <1>2. command[w] \in Facts /\ \A g \in facts : ~Clashes(g, command[w])
    BY <1>1 DEF Inv, Typed, TypeOK, InsertedAreClear
  <1> QED
    BY <1>1, <1>2, ClashesSymmetric DEF Store

\* The handlers and the indexes implement the abstract store.
THEOREM RefinesFactStore == Spec => ImplementsFactStore
  <1>1. Init => Promise!StoreInit
    BY DEF Init, Promise!StoreInit
  <1>2. Inv /\ [Next]_vars => [Promise!Record]_facts
    BY StepRecords DEF Promise!Record
  <1> QED
    BY <1>1, <1>2, Invariant, PTL DEF Spec, ImplementsFactStore, Promise!StoreSpec

\* An identifier or alias resolves to one resource, and always to the same.
THEOREM IdentityKept == Spec => IdentityIsStable
  <1> DEFINE Stable ==
        \A kind \in Kinds \intersect TenantWide, group \in Groups, value \in Values :
          LET before == ResolvesTo(facts, kind, group, value)
              after == ResolvesTo(facts', kind, group, value)
          IN IF before # {} THEN after = before
             ELSE \A r, s \in after : r = s
  <1>1. ASSUME Inv, [Next]_vars, facts' # facts
        PROVE  Stable
    <2>1. PICK c \in Facts : facts' = facts \union {c} /\ \A g \in facts : ~Clashes(c, g)
      BY <1>1, StepRecords
    <2> SUFFICES ASSUME NEW kind \in Kinds \intersect TenantWide, NEW group \in Groups,
                        NEW value \in Values
                 PROVE  LET before == ResolvesTo(facts, kind, group, value)
                            after == ResolvesTo(facts', kind, group, value)
                        IN IF before # {} THEN after = before
                           ELSE \A r, s \in after : r = s
      OBVIOUS
    <2>2. CASE c.kind = kind /\ c.group = group /\ c.value = value
      <3>1. ResolvesTo(facts, kind, group, value) = {}
        BY <2>1, <2>2 DEF ResolvesTo, Clashes, SameValue
      <3>2. \A r \in ResolvesTo(facts', kind, group, value) : r = c.resource
        BY <2>1, <2>2, <3>1 DEF ResolvesTo
      <3> QED
        BY <3>1, <3>2
    <2>3. CASE ~(c.kind = kind /\ c.group = group /\ c.value = value)
      <3>1. ResolvesTo(facts', kind, group, value) = ResolvesTo(facts, kind, group, value)
        BY <2>1, <2>3 DEF ResolvesTo
      <3> QED
        BY <3>1
    <2> QED
      BY <2>2, <2>3
  <1>2. Inv /\ [Next]_vars => [Stable]_vars
    <2> SUFFICES ASSUME Inv, [Next]_vars, facts' = facts, vars' # vars
                 PROVE  Stable
      BY <1>1
    <2> QED
      OBVIOUS
  <1> QED
    BY <1>2, Invariant, PTL DEF Spec, IdentityIsStable

-----------------------------------------------------------------------------
(***************************************************************************)
(* Deadlock                                                                *)
(***************************************************************************)
\* A request that holds a row and waits for another waits for a later one.
LEMMA WaitsUpwards ==
  ASSUME Inv, NEW v \in Writers, NEW w \in Writers,
         phase[v] = "lock", Waits(v, w), phase[w] = "lock"
  PROVE  Head(awaited[v]) < Head(awaited[w])
  <1>1. Head(awaited[v]) \in Resources /\ lock[Head(awaited[v])] = w
    BY DEF Waits
  <1>2. HoldsLess(w)
    BY <1>1 DEF Inv, LocksHeld, LocksOf
  <1>3. PICK a \in Ids, b \in Ids :
          a < b /\ awaited[w] = <<b>> /\ \A r \in Resources : lock[r] = w <=> r = a
    BY <1>2 DEF HoldsLess
  <1> QED
    BY <1>1, <1>3

\* No set of requests waits in a circle.  Those that wait for an insertion wait for
\* one that waits for nothing, those that wait for rows wait upwards.
THEOREM NoCircle == Spec => []NoDeadlock
  <1>1. Inv => NoDeadlock
    <2> SUFFICES ASSUME Inv, NEW S \in (SUBSET Writers) \ {{}}
                 PROVE  \E v \in S : \A w \in S : ~Waits(v, w)
      BY DEF NoDeadlock
    <2>0. S \subseteq Writers /\ S # {}
      OBVIOUS
    <2> SUFFICES ASSUME \A v \in S : \E w \in S : Waits(v, w)
                 PROVE  FALSE
      OBVIOUS
    <2>1. \A v \in S : phase[v] \in {"lock", "flush"}
      BY DEF Waits
    <2>2. \A v \in S : phase[v] = "lock"
      BY <2>1 DEF Waits, InFlightClash
    <2> DEFINE awaitedRow == [v \in S |-> Head(awaited[v])]
    <2>3. \A v \in S : Head(awaited[v]) \in Nat
      BY <2>0, <2>2, HeadTailProperties, IdsAreNumbers DEF Inv, Typed, TypeOK
    <2>4. PICK v \in S : \A w \in S : awaitedRow[w] <= awaitedRow[v]
      BY <2>0, <2>3, AssignmentConstants, FS_Subset, GreatestValue
    <2>5. PICK w \in S : Waits(v, w)
      OBVIOUS
    <2>6. Head(awaited[v]) < Head(awaited[w])
      BY <2>0, <2>2, <2>5, WaitsUpwards
    <2> QED
      BY <2>3, <2>4, <2>6
  <1> QED
    BY <1>1, Invariant, PTL
=============================================================================
