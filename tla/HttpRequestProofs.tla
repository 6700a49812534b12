------------------------- MODULE HttpRequestProofs --------------------------
(***************************************************************************)
(* Proofs about UnitOfWork, whose callers make the calls in any order, and *)
(* about HttpRequest, which calls it: for any number of requests and of    *)
(* other callers, any size of the pool, and the rules for any values of    *)
(* the command's fields.                                                   *)
(***************************************************************************)
EXTENDS HttpRequest, TLAPS

USE DEF VerdictType

(***************************************************************************)
(* The Unit of Work alone.  The inductive invariant: a unit that may still *)
(* commit has not yet made anything durable; without it a second commit    *)
(* could follow the first.                                                 *)
(***************************************************************************)
OpenIsUndecided == \A u \in Units : state[u] \in {"new", "active"} => u \notin durable

UnitInv == UnitTypeOK /\ OpenIsUndecided

-----------------------------------------------------------------------------
LEMMA UnitInitInv == UnitInit => UnitInv
  BY UnitConstants
  DEF UnitInit, UnitInv, UnitTypeOK, OpenIsUndecided, States, Sessions

\* A call keeps the types.
LEMMA CallTypeOK ==
  ASSUME UnitTypeOK, NEW u \in Units, Call(u) \/ Renew(u)
  PROVE  UnitTypeOK'
  <1> USE DEF UnitTypeOK, States, Sessions
  <1>1. CASE Enter(u) \/ Connect(u) \/ LockRow(u) \/ Add(u) \/ Flush(u)
    BY <1>1 DEF Enter, Connect, LockRow, Add, Flush, Become
  <1>2. CASE FlushFails(u) \/ StatementFails(u) \/ NoticeFailure(u)
    BY <1>2 DEF FlushFails, StatementFails, NoticeFailure, EndTransaction, Released, Become
  <1>3. CASE Commit(u) \/ CommitAborted(u) \/ CommitFails(u) \/ CommitUnacknowledged(u)
    BY <1>3 DEF Commit, CommitAborted, CommitFails, CommitUnacknowledged, EndTransaction,
                Released, Become
  <1>4. CASE Rollback(u) \/ (\E s \in {"idle", "none"} : Exit(u, s)) \/ LetGo(u) \/ Renew(u)
    BY <1>4 DEF Rollback, Exit, LetGo, Renew, EndTransaction, Released, Become
  <1> QED
    BY <1>1, <1>2, <1>3, <1>4 DEF Call

LEMMA CallOpenIsUndecided ==
  ASSUME UnitTypeOK, OpenIsUndecided, NEW u \in Units, Call(u) \/ Renew(u)
  PROVE  OpenIsUndecided'
  <1> USE DEF UnitTypeOK, OpenIsUndecided
  <1>1. CASE Enter(u) \/ Connect(u) \/ LockRow(u) \/ Add(u) \/ Flush(u)
    BY <1>1 DEF Enter, Connect, LockRow, Add, Flush, Become
  <1>2. CASE FlushFails(u) \/ StatementFails(u) \/ NoticeFailure(u)
    BY <1>2 DEF FlushFails, StatementFails, NoticeFailure, EndTransaction, Become
  <1>3. CASE Commit(u) \/ CommitAborted(u) \/ CommitFails(u) \/ CommitUnacknowledged(u)
    BY <1>3
    DEF Commit, CommitAborted, CommitFails, CommitUnacknowledged, MayCommit, EndTransaction,
        Become
  <1>4. CASE Rollback(u) \/ (\E s \in {"idle", "none"} : Exit(u, s)) \/ LetGo(u) \/ Renew(u)
    BY <1>4 DEF Rollback, Exit, Entered, LetGo, Renew, Become
  <1> QED
    BY <1>1, <1>2, <1>3, <1>4 DEF Call

LEMMA UnitNextInv ==
  ASSUME UnitInv, [UnitNext]_unitVars
  PROVE  UnitInv'
  <1>1. CASE Die
    BY <1>1, UnitConstants
    DEF Die, UnitInv, UnitTypeOK, OpenIsUndecided, States, Sessions
  <1>2. ASSUME NEW u \in Units, Call(u) \/ Renew(u)
        PROVE  UnitInv'
    BY <1>2, CallTypeOK, CallOpenIsUndecided DEF UnitInv
  <1>3. CASE UNCHANGED unitVars
    BY <1>3 DEF unitVars, UnitInv, UnitTypeOK, OpenIsUndecided
  <1> QED
    BY <1>1, <1>2, <1>3 DEF UnitNext

-----------------------------------------------------------------------------
(***************************************************************************)
(* Each step of a unit is a step of the abstract scope, or none            *)
(***************************************************************************)
LEMMA ScopeStarts == UnitInit => Scope!ScopeInit
  BY DEF UnitInit, Scope!ScopeInit, Fate

\* A call that moves neither the state nor what is durable moves no fate.
LEMMA FateOf ==
  ASSUME UNCHANGED <<state, durable>>
  PROVE  Fate' = Fate
  BY DEF Fate

\* An active unit whose work is not made durable by the step that ends it is dropped.
LEMMA Dropped ==
  ASSUME UnitInv, NEW u \in Units, state[u] = "active",
         NEW s \in {"committed", "rolled_back", "failed", "closed"}, Become(u, s),
         durable' = durable
  PROVE  Scope!Drop({u})
  <1>1. Fate[u] = "open"
    BY DEF UnitInv, OpenIsUndecided, Fate
  <1>2. Fate' = [v \in Units |-> IF v \in {u} THEN "dropped" ELSE Fate[v]]
    BY DEF UnitInv, UnitTypeOK, OpenIsUndecided, Fate, Become
  <1> QED
    BY <1>1, <1>2 DEF Scope!Drop

\* A unit that is no longer active keeps its fate when its state changes.
LEMMA Settled ==
  ASSUME UnitInv, NEW u \in Units, state[u] \notin {"new", "active"},
         NEW s \in {"committed", "rolled_back", "failed", "closed"}, Become(u, s),
         durable' = durable
  PROVE  Fate' = Fate
  BY DEF UnitInv, UnitTypeOK, Fate, Become

LEMMA Kept ==
  ASSUME UnitInv, NEW u \in Units, state[u] = "active",
         NEW s \in {"committed", "failed"}, Become(u, s), durable' = durable \union {u}
  PROVE  Scope!Keep(u)
  <1>1. Fate[u] = "open"
    BY DEF UnitInv, OpenIsUndecided, Fate
  <1>2. Fate' = [Fate EXCEPT ![u] = "kept"]
    BY DEF UnitInv, UnitTypeOK, OpenIsUndecided, Fate, Become
  <1> QED
    BY <1>1, <1>2 DEF Scope!Keep

LEMMA UnitStepIsScopeStep ==
  ASSUME UnitInv, [UnitNext]_unitVars
  PROVE  [Scope!ScopeNext]_Fate
  <1>0. \A u \in Units : {u} \in SUBSET Units
    OBVIOUS
  <1>1. ASSUME NEW u \in Units,
               \/ Connect(u) \/ LockRow(u) \/ Add(u) \/ Flush(u)
               \/ FlushFails(u) \/ StatementFails(u) \/ LetGo(u)
        PROVE  Fate' = Fate
    BY <1>1, FateOf DEF Connect, LockRow, Add, Flush, FlushFails, StatementFails, LetGo
  <1>2. ASSUME NEW u \in Units, Enter(u)
        PROVE  Scope!Open(u)
    <2>1. Fate[u] = "unused"
      BY <1>2 DEF Enter, Fate
    <2>2. Fate' = [Fate EXCEPT ![u] = "open"]
      BY <1>2 DEF Enter, Become, Fate, UnitInv, UnitTypeOK, OpenIsUndecided
    <2> QED
      BY <2>1, <2>2 DEF Scope!Open
  <1>3. ASSUME NEW u \in Units, NoticeFailure(u)
        PROVE  Scope!Drop({u})
    BY <1>3, Dropped DEF NoticeFailure
  <1>4. ASSUME NEW u \in Units, Commit(u) \/ CommitAborted(u) \/ CommitFails(u)
        PROVE  Scope!Drop({u}) \/ Scope!Keep(u)
    <2>1. CASE durable' = durable
      BY <1>4, <2>1, Dropped DEF Commit, CommitAborted, CommitFails, MayCommit
    <2>2. CASE durable' = durable \union {u}
      BY <1>4, <2>1, <2>2, Kept DEF Commit, CommitAborted, CommitFails, MayCommit
    <2> QED
      BY <1>4, <2>1, <2>2 DEF Commit, CommitAborted, CommitFails
  <1>5. ASSUME NEW u \in Units, CommitUnacknowledged(u)
        PROVE  Scope!Keep(u)
    BY <1>5, Kept DEF CommitUnacknowledged, MayCommit
  <1>6. ASSUME NEW u \in Units, Rollback(u)
        PROVE  Scope!Drop({u}) \/ Fate' = Fate
    BY <1>6, Dropped, Settled DEF Rollback
  <1>7. ASSUME NEW u \in Units, NEW s, Exit(u, s)
        PROVE  Scope!Drop({u}) \/ Fate' = Fate
    BY <1>7, Dropped, Settled DEF Exit, Entered
  <1>8. ASSUME NEW u \in Units, Renew(u)
        PROVE  Scope!Renew(u)
    <2>1. Fate[u] \in {"kept", "dropped"}
      BY <1>8 DEF Renew, Fate
    <2>2. Fate' = [Fate EXCEPT ![u] = "unused"]
      BY <1>8 DEF Renew, Become, Fate, UnitInv, UnitTypeOK
    <2> QED
      BY <2>1, <2>2 DEF Scope!Renew
  <1>9. ASSUME Die
        PROVE  Scope!Drop({u \in Units : Fate[u] = "open"})
    <2>1. Fate' = [u \in Units |-> IF Fate[u] = "open" THEN "dropped" ELSE Fate[u]]
      BY <1>9 DEF Die, Fate, UnitInv, UnitTypeOK
    <2> QED
      BY <2>1 DEF Scope!Drop
  <1>10. CASE UNCHANGED unitVars
    BY <1>10, FateOf DEF unitVars
  <1> QED
    BY <1>0, <1>1, <1>2, <1>3, <1>4, <1>5, <1>6, <1>7, <1>8, <1>9, <1>10
    DEF UnitNext, Call, Scope!ScopeNext

-----------------------------------------------------------------------------
LEMMA UnitInvariant == UnitSpec => []UnitInv
  BY UnitInitInv, UnitNextInv, PTL DEF UnitSpec

\* Whatever its callers do, also with repositories they keep after __exit__, the work
\* of a unit is kept or dropped once.
THEOREM UnitsDecideOnce == UnitSpec => ImplementsScope
  BY ScopeStarts, UnitStepIsScopeStep, UnitInvariant, PTL
  DEF UnitSpec, ImplementsScope, Scope!ScopeSpec

-----------------------------------------------------------------------------
(***************************************************************************)
(* The rules: what the validators accept, the CHECK constraints accept     *)
(***************************************************************************)
\* Rounding to four places does not leave the range.
LEMMA RoundedScoreFits ==
  ASSUME NEW score \in Int, ScoreInRange(score)
  PROVE  ScoreFits(score)
  <1>1. (score + 5) \div 10 \in 0..10000
    BY DEF ScoreInRange
  <1> QED
    BY <1>1 DEF ScoreFits, Column

\* What Python strips to nothing includes all that SQL trims to nothing.
LEMMA FilledTextFits ==
  ASSUME NEW text \in OptionalStrings
  PROVE  /\ text # Null /\ Filled(text) => TextFits(text)
         /\ FilledOrNull(text) => OptionalTextFits(text)
  BY DEF OptionalStrings, Strings, Null, Filled, FilledOrNull, Blank, TextFits,
         OptionalTextFits, TrimmedEmpty

LEMMA StringsHaveValues == \A text \in Strings : text \in OptionalStrings /\ text # Null
  BY DEF Strings, OptionalStrings, Null

\* Every command its validator accepts meets the CHECK constraints of its table.
THEOREM AcceptedCommandsFit == AcceptedFits
  <1> SUFFICES ASSUME NEW c \in AllCommands, Valid(c)
               PROVE  Fits(c)
    BY DEF AcceptedFits
  <1> USE RuleConstants, RoundedScoreFits, FilledTextFits, StringsHaveValues
  <1>1. CASE c \in CreateCommands
    <2>1. c.kind = "create" /\ c.confidence_score \in Int
      BY <1>1 DEF CreateCommands
    <2>2. ValidCreate(c)
      BY <2>1 DEF Valid
    <2>3. TextFits(c.canonical_name) /\ TextFits(c.display_name)
      <3>1. c.canonical_name \in Strings /\ c.display_name \in Strings
        BY <1>1 DEF CreateCommands
      <3> QED
        BY <2>2, <3>1 DEF ValidCreate
    <2>4. ScoreFits(c.confidence_score)
      BY <2>1, <2>2 DEF ValidCreate
    <2>5. FitsCreate(c)
      BY <2>2, <2>3, <2>4 DEF ValidCreate, FitsCreate, PriorityInRange, SeenInOrder
    <2> QED
      BY <2>1, <2>5 DEF Fits
  <1>2. CASE c \in TransitionCommands
    BY <1>2 DEF TransitionCommands, Valid, ValidTransition, Fits, FitsTransition,
                PriorityInRange
  <1>3. CASE c \in IdentifierCommands
    BY <1>3 DEF IdentifierCommands, Valid, ValidIdentifier, Fits, FitsIdentifier
  <1>4. CASE c \in OwnershipCommands
    BY <1>4 DEF OwnershipCommands, Valid, ValidOwnership, Fits, FitsOwnership
  <1>5. CASE c \in ClassificationCommands
    BY <1>5 DEF ClassificationCommands, Valid, ValidClassification, Fits, FitsClassification
  <1>6. CASE c \in LabelCommands
    BY <1>6 DEF LabelCommands, Valid, ValidLabel, Fits, FitsLabel
  <1>7. CASE c \in RelationshipCommands
    BY <1>7 DEF RelationshipCommands, Valid, ValidRelationship, Fits, FitsRelationship
  <1>8. CASE c \in AliasCommands
    BY <1>8 DEF AliasCommands, Datetimes, Valid, ValidAlias, Fits, FitsAlias, SeenInOrder
  <1>9. CASE c \in MergeCommands
    BY <1>9 DEF MergeCommands, Valid, ValidMerge, Fits, FitsMerge
  <1> QED
    BY <1>1, <1>2, <1>3, <1>4, <1>5, <1>6, <1>7, <1>8, <1>9 DEF AllCommands

-----------------------------------------------------------------------------
(***************************************************************************)
(* The inductive invariant: where a request is says what its unit has come *)
(* to, and the error it carries says whether its write is committed.       *)
(***************************************************************************)
Typed ==
  /\ pc \in [Requests -> Places]
  /\ verdict \in [Requests -> VerdictType]
  /\ error \in [Requests -> Errors]
  /\ status \in [Requests -> {0, 200, 404, 409, 422, 500, 503}]

UnitIsAt(r) ==
  /\ pc[r] = "done" => state[r] \in {"new", "closed"}
  /\ pc[r] = "arrived" => state[r] = "new"
  /\ pc[r] \in {"connect", "lock", "check", "read", "commit"} => state[r] = "active"
  /\ pc[r] = "connect" => session[r] = "idle" /\ work[r] = "none"
  /\ pc[r] \in {"lock", "check", "read"} => session[r] = "begun" /\ work[r] = "none"
  /\ pc[r] = "commit" => session[r] = "begun" /\ work[r] = "added"
  /\ pc[r] \in {"done", "arrived"} =>
       session[r] = "none" /\ work[r] = "none" /\ holder # r

WritesAt(r) ==
  /\ verdict[r].rules # "missed"
  /\ pc[r] \in {"connect", "lock", "check", "commit"} => verdict[r].rules = "met"
  /\ verdict[r].locks => verdict[r].writes
  /\ pc[r] \in {"lock", "check", "commit"} => verdict[r].writes
  /\ pc[r] = "read" => ~verdict[r].writes

ErrorTellsEffect(r) ==
  /\ pc[r] # "exit" => error[r] = "none"
  /\ pc[r] = "exit" =>
       /\ error[r] = "none" /\ verdict[r].writes => r \in durable
       /\ error[r] \in {"validation", "not_found", "conflict", "concurrent"} =>
            r \notin durable

StatusTells(r) ==
  pc[r] = "done" =>
    /\ status[r] = 200 /\ verdict[r].writes => r \in durable
    /\ status[r] \in {404, 409, 422} => r \notin durable

Consistent(r) == UnitIsAt(r) /\ WritesAt(r) /\ ErrorTellsEffect(r) /\ StatusTells(r)

RequestInv == UnitInv /\ Typed /\ \A r \in Requests : Consistent(r)

\* What Consistent(r) looks at.
Unmoved(r) ==
  /\ state'[r] = state[r] /\ session'[r] = session[r] /\ work'[r] = work[r]
  /\ (r \in durable') <=> (r \in durable)
  /\ holder # r => holder' # r
  /\ pc'[r] = pc[r] /\ verdict'[r] = verdict[r]
  /\ error'[r] = error[r] /\ status'[r] = status[r]

-----------------------------------------------------------------------------
\* What the rules say of a command has the fields of a verdict, only commands that write
\* lock, and no CHECK refuses what a validator accepts.
LEMMA VerdictShape ==
  ASSUME NEW v \in Verdicts
  PROVE  /\ v \in VerdictType
         /\ v.locks => v.writes
         /\ v.rules # "missed"
  <1>1. CASE v = Reading
    BY <1>1 DEF Reading
  <1>2. ASSUME NEW c \in AllCommands, v = VerdictOf(c)
        PROVE  /\ v \in VerdictType
               /\ v.locks => v.writes
               /\ v.rules # "missed"
    <2>1. CASE ~(Parsed(c) /\ Valid(c))
      BY <1>2, <2>1 DEF VerdictOf, Reading
    <2>2. CASE Parsed(c) /\ Valid(c)
      BY <1>2, <2>2, AcceptedCommandsFit DEF VerdictOf, AcceptedFits
    <2> QED
      BY <2>1, <2>2
  <1> QED
    BY <1>1, <1>2 DEF Verdicts

\* A unit that somebody else calls is not this request's.
LEMMA OthersLeaveUnit ==
  ASSUME UnitTypeOK, NEW r \in Units, NEW u \in Units, u # r, Call(u) \/ Renew(u)
  PROVE  /\ state'[r] = state[r] /\ session'[r] = session[r] /\ work'[r] = work[r]
         /\ (r \in durable') <=> (r \in durable)
         /\ holder # r => holder' # r
  <1> USE UnitConstants DEF UnitTypeOK
  <1>1. CASE Enter(u) \/ Connect(u) \/ LockRow(u) \/ Add(u) \/ Flush(u)
    BY <1>1 DEF Enter, Connect, LockRow, Add, Flush, Become
  <1>2. CASE FlushFails(u) \/ StatementFails(u) \/ NoticeFailure(u)
    BY <1>2 DEF FlushFails, StatementFails, NoticeFailure, EndTransaction, Released, Become
  <1>3. CASE Commit(u) \/ CommitAborted(u) \/ CommitFails(u) \/ CommitUnacknowledged(u)
    BY <1>3 DEF Commit, CommitAborted, CommitFails, CommitUnacknowledged, EndTransaction,
                Released, Become
  <1>4. CASE Rollback(u) \/ (\E s \in {"idle", "none"} : Exit(u, s)) \/ LetGo(u) \/ Renew(u)
    BY <1>4 DEF Rollback, Exit, LetGo, Renew, EndTransaction, Released, Become
  <1> QED
    BY <1>1, <1>2, <1>3, <1>4 DEF Call

LEMMA UnmovedConsistent ==
  ASSUME NEW r \in Requests, Consistent(r), Unmoved(r)
  PROVE  Consistent(r)'
  BY DEF Consistent, UnitIsAt, WritesAt, ErrorTellsEffect, StatusTells, Unmoved

(***************************************************************************)
(* A request only makes calls the unit allows                              *)
(***************************************************************************)
LEMMA StepCallsUnit ==
  ASSUME NEW r \in Requests, Step(r)
  PROVE  Call(r) \/ Renew(r) \/ UNCHANGED unitVars
  <1>1. CASE Arrive(r) \/ Refused(r) \/ EnterUnit(r) \/ FirstStatement(r) \/ PoolTimeout(r)
    BY <1>1 DEF Arrive, Refused, EnterUnit, FirstStatement, PoolTimeout, Call
  <1>2. CASE LockResource(r) \/ ResourceMissing(r) \/ LookUpRefuses(r) \/ BreakDown(r)
             \/ AddRow(r) \/ ReadRows(r)
    BY <1>2 DEF LockResource, ResourceMissing, LookUpRefuses, BreakDown, AddRow, ReadRows,
                Call, unitVars
  <1>3. CASE CommitUnit(r) \/ CommitRejected(r) \/ CommitUnanswered(r) \/ ExitUnit(r)
    BY <1>3 DEF CommitUnit, CommitRejected, CommitUnanswered, ExitUnit, Call
  <1> QED
    BY <1>1, <1>2, <1>3 DEF Step, Progress

LEMMA NextCallsUnits == [Next]_vars => [UnitNext]_unitVars
  <1> SUFFICES ASSUME [Next]_vars
               PROVE  UnitNext \/ UNCHANGED unitVars
    BY DEF vars
  <1>1. CASE Crash
    BY <1>1 DEF Crash, UnitNext
  <1>2. ASSUME NEW r \in Requests, Step(r)
        PROVE  UnitNext \/ UNCHANGED unitVars
    BY <1>2, StepCallsUnit, RequestConstants DEF UnitNext
  <1>3. ASSUME NEW u \in Units \ Requests, Call(u) \/ Renew(u)
        PROVE  UnitNext
    BY <1>3 DEF UnitNext
  <1>4. CASE UNCHANGED vars
    BY <1>4 DEF vars
  <1> QED
    BY <1>1, <1>2, <1>3, <1>4 DEF Next

-----------------------------------------------------------------------------
(***************************************************************************)
(* Every step of a request leaves it consistent                            *)
(***************************************************************************)
LEMMA InitInv == Init => RequestInv
  <1> SUFFICES ASSUME Init
               PROVE  RequestInv
    OBVIOUS
  <1>1. UnitInv
    BY UnitInitInv DEF Init
  <1>2. Typed
    BY DEF Init, Typed, Reading, Places, Errors
  <1>3. ASSUME NEW r \in Requests
        PROVE  Consistent(r)
    BY <1>3, RequestConstants, UnitConstants
    DEF Init, UnitInit, Reading, Consistent, UnitIsAt, WritesAt, ErrorTellsEffect, StatusTells
  <1> QED
    BY <1>1, <1>2, <1>3 DEF RequestInv

\* What is remembered of a command is its kind.
LEMMA KindShape ==
  ASSUME NEW v \in VerdictType
  PROVE  /\ Kind(v) \in VerdictType
         /\ Kind(v).writes = v.writes /\ ~Kind(v).locks /\ Kind(v).rules = "met"
  <1>1. CASE v.writes = TRUE
    BY <1>1 DEF Kind, Reading
  <1>2. CASE v.writes = FALSE
    BY <1>2 DEF Kind, Reading
  <1> QED
    BY <1>1, <1>2

LEMMA AnswerTyped ==
  ASSUME Typed, NEW r \in Requests, NEW from, NEW e \in Errors, Answer(r, from, e)
  PROVE  Typed'
  <1> USE DEF Typed, Places, Errors
  <1>1. StatusOf(e) \in {200, 404, 409, 422, 500, 503}
    BY DEF StatusOf
  <1>2. status' = [status EXCEPT ![r] = StatusOf(e)]
    BY DEF Answer
  <1>3. Kind(verdict[r]) \in VerdictType
    BY KindShape
  <1> QED
    BY <1>1, <1>2, <1>3 DEF Answer

LEMMA LeaveTyped ==
  ASSUME Typed, NEW r \in Requests, NEW from, NEW e \in Errors, Leave(r, from, e)
  PROVE  Typed'
  <1>1. Kind(verdict[r]) \in VerdictType
    BY KindShape DEF Typed
  <1> QED
    BY <1>1 DEF Typed, Places, Leave

LEMMA StepTyped ==
  ASSUME Typed, NEW r \in Requests, Step(r)
  PROVE  Typed'
  <1> USE DEF Typed, Places, Errors
  <1>1. CASE Arrive(r)
    <2>1. PICK v \in Verdicts : verdict' = [verdict EXCEPT ![r] = v]
      BY <1>1 DEF Arrive
    <2> QED
      BY <1>1, <2>1, VerdictShape DEF Arrive
  <1>2. CASE Refused(r)
    BY <1>2, AnswerTyped DEF Refused, Errors
  <1>3. CASE EnterUnit(r) \/ FirstStatement(r) \/ LockResource(r) \/ AddRow(r)
    BY <1>3 DEF EnterUnit, FirstStatement, LockResource, AddRow, Go
  <1>4. CASE PoolTimeout(r) \/ ResourceMissing(r) \/ LookUpRefuses(r) \/ BreakDown(r)
             \/ ReadRows(r)
    BY <1>4, LeaveTyped
    DEF PoolTimeout, ResourceMissing, LookUpRefuses, BreakDown, ReadRows
  <1>5. CASE CommitUnit(r) \/ CommitRejected(r) \/ CommitUnanswered(r)
    BY <1>5, LeaveTyped DEF CommitUnit, CommitRejected, CommitUnanswered
  <1>6. CASE ExitUnit(r)
    BY <1>6, AnswerTyped DEF ExitUnit
  <1> QED
    BY <1>1, <1>2, <1>3, <1>4, <1>5, <1>6 DEF Step, Progress

\* The requests that stand still are not disturbed by the one that moves.
LEMMA StepLeavesOthers ==
  ASSUME RequestInv, NEW r \in Requests, Step(r), NEW q \in Requests, q # r
  PROVE  Unmoved(q)
  <1> USE DEF RequestInv, Typed
  <1>1. /\ state'[q] = state[q] /\ session'[q] = session[q] /\ work'[q] = work[q]
        /\ (q \in durable') <=> (q \in durable)
        /\ holder # q => holder' # q
    BY StepCallsUnit, OthersLeaveUnit, RequestConstants DEF UnitInv, unitVars
  <1>2. CASE Arrive(r) \/ Refused(r) \/ EnterUnit(r) \/ FirstStatement(r) \/ PoolTimeout(r)
    BY <1>1, <1>2 DEF Unmoved, Arrive, Refused, Answer, EnterUnit, FirstStatement,
                      PoolTimeout, Leave, Go
  <1>3. CASE LockResource(r) \/ ResourceMissing(r) \/ LookUpRefuses(r) \/ BreakDown(r)
             \/ AddRow(r) \/ ReadRows(r)
    BY <1>1, <1>3 DEF Unmoved, LockResource, ResourceMissing, LookUpRefuses, BreakDown,
                      AddRow, ReadRows, Leave, Go
  <1>4. CASE CommitUnit(r) \/ CommitRejected(r) \/ CommitUnanswered(r) \/ ExitUnit(r)
    BY <1>1, <1>4 DEF Unmoved, CommitUnit, CommitRejected, CommitUnanswered, ExitUnit,
                      Answer, Leave, Go
  <1> QED
    BY <1>2, <1>3, <1>4 DEF Step, Progress

LEMMA ArriveConsistent ==
  ASSUME RequestInv, NEW r \in Requests, Arrive(r)
  PROVE  Consistent(r)'
  <1> USE RequestConstants DEF RequestInv, Typed, UnitInv, UnitTypeOK
  <1>1. PICK v \in Verdicts : verdict' = [verdict EXCEPT ![r] = v]
    BY DEF Arrive
  <1>2. (v.locks => v.writes) /\ v.rules # "missed"
    BY VerdictShape
  <1>3. /\ state'[r] = "new" /\ session'[r] = "none" /\ work'[r] = "none" /\ holder' # r
    BY DEF Arrive, Renew, Become, unitVars, Consistent, UnitIsAt
  <1>4. pc'[r] = "arrived" /\ error'[r] = "none" /\ verdict'[r] = v
    BY <1>1 DEF Arrive
  <1> QED
    BY <1>2, <1>3, <1>4 DEF Consistent, UnitIsAt, WritesAt, ErrorTellsEffect, StatusTells

\* Nothing is written when a command is refused before the unit is entered.
LEMMA RefusedConsistent ==
  ASSUME RequestInv, NEW r \in Requests, Refused(r)
  PROVE  Consistent(r)'
  <1> USE RequestConstants DEF RequestInv, Typed, UnitInv, UnitTypeOK
  <1>1. /\ state'[r] = "new" /\ r \notin durable'
        /\ session'[r] = "none" /\ work'[r] = "none" /\ holder' # r
    BY DEF Refused, Answer, Consistent, UnitIsAt, OpenIsUndecided, unitVars
  <1>2. pc'[r] = "done" /\ error'[r] = "none" /\ status'[r] = 422
    BY DEF Refused, Answer, StatusOf
  <1>3. ~verdict'[r].locks /\ verdict'[r].rules = "met"
    BY KindShape DEF Refused, Answer
  <1> QED
    BY <1>1, <1>2, <1>3
    DEF Consistent, UnitIsAt, WritesAt, ErrorTellsEffect, StatusTells

\* Before the COMMIT an error leaves nothing durable behind.
LEMMA LeftConsistent ==
  ASSUME RequestInv, NEW r \in Requests, NEW e \in Errors, e # "none",
         pc[r] \in {"connect", "lock", "check", "read", "commit"},
         Leave(r, pc[r], e), durable' = durable
  PROVE  Consistent(r)'
  <1> USE RequestConstants DEF RequestInv, Typed, UnitInv, UnitTypeOK
  <1>1. r \notin durable'
    BY DEF Consistent, UnitIsAt, OpenIsUndecided
  <1>2. pc'[r] = "exit" /\ error'[r] = e /\ verdict'[r] = Kind(verdict[r])
    BY DEF Leave
  <1>3. ~verdict'[r].locks /\ verdict'[r].rules = "met"
    BY <1>2, KindShape
  <1> QED
    BY <1>1, <1>2, <1>3 DEF Consistent, UnitIsAt, WritesAt, ErrorTellsEffect, StatusTells

LEMMA GoConsistent ==
  ASSUME RequestInv, NEW r \in Requests,
         \/ EnterUnit(r) \/ FirstStatement(r) \/ LockResource(r) \/ AddRow(r) \/ ReadRows(r)
  PROVE  Consistent(r)'
  <1> USE RequestConstants DEF RequestInv, Typed, UnitInv, UnitTypeOK, Consistent, UnitIsAt,
      WritesAt, ErrorTellsEffect, StatusTells
  <1>1. CASE EnterUnit(r)
    BY <1>1 DEF EnterUnit, Go, Enter, Become
  <1>2. CASE FirstStatement(r)
    BY <1>2 DEF FirstStatement, Go, Connect
  <1>3. CASE LockResource(r)
    BY <1>3 DEF LockResource, Go, LockRow
  <1>4. CASE AddRow(r)
    BY <1>4 DEF AddRow, Go, Add
  <1>5. CASE ReadRows(r)
    BY <1>5, KindShape DEF ReadRows, Leave
  <1> QED
    BY <1>1, <1>2, <1>3, <1>4, <1>5

LEMMA StepConsistent ==
  ASSUME RequestInv, NEW r \in Requests, Step(r)
  PROVE  Consistent(r)'
  <1> USE RequestConstants DEF RequestInv, Typed, UnitInv, UnitTypeOK
  <1>1. CASE Arrive(r) \/ Refused(r)
    BY <1>1, ArriveConsistent, RefusedConsistent
  <1>2. CASE EnterUnit(r) \/ FirstStatement(r) \/ LockResource(r) \/ AddRow(r) \/ ReadRows(r)
    BY <1>2, GoConsistent
  <1>3. CASE PoolTimeout(r) \/ ResourceMissing(r) \/ LookUpRefuses(r) \/ BreakDown(r)
             \/ CommitRejected(r)
    <2>1. durable' = durable
      BY <1>3 DEF PoolTimeout, ResourceMissing, LookUpRefuses, BreakDown, CommitRejected,
                  StatementFails, CommitFails, unitVars
    <2>2. \E e \in Errors \ {"none"} :
            /\ pc[r] \in {"connect", "lock", "check", "read", "commit"}
            /\ Leave(r, pc[r], e)
      BY <1>3 DEF PoolTimeout, ResourceMissing, LookUpRefuses, BreakDown, CommitRejected,
                  Leave, Errors
    <2> QED
      BY <2>1, <2>2, LeftConsistent
  <1>4. CASE CommitUnit(r)
    <2>1. r \in durable'
      BY <1>4 DEF CommitUnit, Commit, Leave, Consistent, UnitIsAt
    <2>2. /\ pc'[r] = "exit" /\ error'[r] = "none"
          /\ ~verdict'[r].locks /\ verdict'[r].rules = "met"
      BY <1>4, KindShape DEF CommitUnit, Leave
    <2> QED
      BY <2>1, <2>2 DEF Consistent, UnitIsAt, WritesAt, ErrorTellsEffect, StatusTells
  <1>5. CASE CommitUnanswered(r)
    BY <1>5, KindShape
    DEF CommitUnanswered, Leave, Consistent, UnitIsAt, WritesAt, ErrorTellsEffect, StatusTells
  <1>6. CASE ExitUnit(r)
    <2>1. /\ state'[r] = "closed" /\ durable' = durable
          /\ session'[r] = "none" /\ work'[r] = "none" /\ holder' # r
      BY <1>6, UnitConstants DEF ExitUnit, Exit, EndTransaction, Released, Become
    <2>2. /\ pc[r] = "exit" /\ pc'[r] = "done" /\ error'[r] = "none"
          /\ status'[r] = StatusOf(error[r])
          /\ verdict'[r] = Kind(verdict[r])
      BY <1>6 DEF ExitUnit, Answer
    <2>3. /\ verdict'[r].writes = verdict[r].writes /\ ~verdict'[r].locks
          /\ verdict'[r].rules = "met"
      BY <2>2, KindShape
    <2>4. status'[r] = 200 => error[r] = "none"
      BY <2>2 DEF StatusOf, Errors
    <2>5. status'[r] \in {404, 409, 422} =>
            error[r] \in {"validation", "not_found", "conflict", "concurrent"}
      BY <2>2 DEF StatusOf, Errors
    <2> QED
      BY <2>1, <2>2, <2>3, <2>4, <2>5
      DEF Consistent, UnitIsAt, WritesAt, ErrorTellsEffect, StatusTells
  <1> QED
    BY <1>1, <1>2, <1>3, <1>4, <1>5, <1>6 DEF Step, Progress

LEMMA CrashInv ==
  ASSUME RequestInv, Crash
  PROVE  Typed' /\ \A r \in Requests : Consistent(r)'
  <1> USE RequestConstants DEF RequestInv
  <1>1. Typed'
    <2>1. \A r \in Requests : Kind(verdict[r]) \in VerdictType
      BY KindShape DEF Typed
    <2> QED
      BY <2>1 DEF Crash, Typed, Places, Errors
  <1>2. ASSUME NEW r \in Requests
        PROVE  Consistent(r)'
    <2>1. /\ state'[r] \in {"new", "closed"} /\ durable' = durable
          /\ session'[r] = "none" /\ work'[r] = "none" /\ holder' # r
          /\ pc'[r] = "done" /\ error'[r] = "none"
      BY UnitConstants DEF Crash, Die
    <2>2. /\ verdict'[r].writes = verdict[r].writes /\ ~verdict'[r].locks
          /\ verdict'[r].rules = "met"
      BY KindShape DEF Crash, Typed
    <2>3. status'[r] = IF pc[r] = "done" THEN status[r] ELSE 0
      BY DEF Crash
    <2> QED
      BY <2>1, <2>2, <2>3 DEF Consistent, UnitIsAt, WritesAt, ErrorTellsEffect, StatusTells
  <1> QED
    BY <1>1, <1>2

LEMMA NextInv ==
  ASSUME RequestInv, [Next]_vars
  PROVE  RequestInv'
  <1>1. UnitInv'
    BY NextCallsUnits, UnitNextInv DEF RequestInv
  <1>2. CASE Crash
    BY <1>1, <1>2, CrashInv DEF RequestInv
  <1>3. ASSUME NEW r \in Requests, Step(r)
        PROVE  RequestInv'
    <2>1. ASSUME NEW q \in Requests
          PROVE  Consistent(q)'
      BY <1>3, StepConsistent, StepLeavesOthers, UnmovedConsistent DEF RequestInv
    <2> QED
      BY <1>1, <1>3, <2>1, StepTyped DEF RequestInv
  <1>4. ASSUME NEW u \in Units \ Requests, Call(u) \/ Renew(u), UNCHANGED requestVars
        PROVE  RequestInv'
    <2>1. ASSUME NEW q \in Requests
          PROVE  Consistent(q)'
      <3>1. Unmoved(q)
        BY <1>4, OthersLeaveUnit, RequestConstants
        DEF RequestInv, UnitInv, Unmoved, requestVars
      <3> QED
        BY <3>1, UnmovedConsistent DEF RequestInv
    <2> QED
      BY <1>1, <1>4, <2>1 DEF RequestInv, Typed, requestVars
  <1>5. CASE UNCHANGED vars
    BY <1>1, <1>5 DEF vars, unitVars, requestVars, RequestInv, Typed, Consistent, UnitIsAt,
                      WritesAt, ErrorTellsEffect, StatusTells
  <1> QED
    BY <1>2, <1>3, <1>4, <1>5 DEF Next

LEMMA Invariant == Spec => []RequestInv
  BY InitInv, NextInv, PTL DEF Spec

\* The composed system makes only calls that the Unit of Work allows.
LEMMA RequestsAreCallers == Spec => UnitSpec
  BY NextCallsUnits, PTL DEF Spec, UnitSpec, Init

-----------------------------------------------------------------------------
\* Every variable of a request and of the units keeps its type.
THEOREM RequestsTyped == Spec => []TypeOK
  <1>1. RequestInv => TypeOK
    BY DEF RequestInv, UnitInv, Typed, TypeOK
  <1> QED
    BY <1>1, Invariant, PTL

\* However a request fails, and whatever other callers do with units they have closed,
\* it has given back connection and row when it is answered.
THEOREM RequestsClean == Spec => []HandsBack
  <1>1. RequestInv => HandsBack
    BY DEF RequestInv, Consistent, UnitIsAt, HandsBack, Connected
  <1> QED
    BY <1>1, Invariant, PTL

\* Under requests and careless callers, the work of a unit is kept or dropped once.
THEOREM RequestsDecideOnce == Spec => ImplementsScope
  BY RequestsAreCallers, UnitsDecideOnce

\* No COMMIT is sent with a row that a CHECK would refuse.
THEOREM CommitsMeetChecks == Spec => []RowsMeetChecks
  <1>1. RequestInv => RowsMeetChecks
    BY DEF RequestInv, Consistent, WritesAt, RowsMeetChecks
  <1> QED
    BY <1>1, Invariant, PTL

\* A success says that the write is committed, a refusal that nothing was written.
THEOREM AnswersTell == Spec => []StatusTellsEffect
  <1>1. RequestInv => StatusTellsEffect
    BY DEF RequestInv, Consistent, StatusTells, StatusTellsEffect
  <1> QED
    BY <1>1, Invariant, PTL
=============================================================================
