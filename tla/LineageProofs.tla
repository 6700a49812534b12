---------------------------- MODULE LineageProofs ----------------------------
(***************************************************************************)
(* Proofs about MergeLineage and LineageResolution, for any number of      *)
(* resources, of concurrent merge requests and of concurrent resolutions.  *)
(***************************************************************************)
EXTENDS LineageResolution, NaturalExtrema

(***************************************************************************)
(* The inductive invariant.  Mutual exclusion comes from lock being a      *)
(* function; LocksTaken says which rows a transaction holds at each point  *)
(* of the handler, which is what keeps its two look-ups true until COMMIT. *)
(***************************************************************************)
LocksTaken ==
  \A w \in Writers :
    /\ phase[w] \in {"lock_second", "check", "flush", "commit"} =>
         /\ FirstId(command[w]) \in Resources
         /\ lock[FirstId(command[w])] = w
    /\ phase[w] \in {"check", "flush", "commit"} =>
         /\ SecondId(command[w]) \in Resources
         /\ lock[SecondId(command[w])] = w

LineageInv == TypeOK /\ LocksTaken /\ ChecksStillHold /\ ShortCycleFree

-----------------------------------------------------------------------------
(***************************************************************************)
(* Operators                                                               *)
(***************************************************************************)

\* _ordered_resource_ids returns the two endpoints, in one order or the other.
LEMMA OrderedIds ==
  ASSUME NEW e \in Edge
  PROVE  \/ FirstId(e) = e.source /\ SecondId(e) = e.target
         \/ FirstId(e) = e.target /\ SecondId(e) = e.source
  BY DEF FirstId, SecondId, OrderedResourceIds

LEMMA IdsAreNumbers == \A r \in Ids : r \in Nat
  BY MergeConstants

LEMMA OrderedUpwards ==
  ASSUME NEW e \in ValidCommand
  PROVE  /\ FirstId(e) \in Nat /\ SecondId(e) \in Nat
         /\ FirstId(e) < SecondId(e)
  <1>1. e.source \in Nat /\ e.target \in Nat /\ e.source # e.target
    BY IdsAreNumbers DEF ValidCommand, Edge
  <1> QED
    BY <1>1 DEF FirstId, SecondId, OrderedResourceIds

\* A trigger that follows at least two edges rejects every row that would close a
\* lineage of two or three edges.
LEMMA TriggerSeesShortPaths ==
  ASSUME TriggerDepth >= 3, TriggerDepth \in Nat,
         NEW e \in Edge, ~TriggerRejects(e)
  PROVE  /\ ~Linked(merges, e.target, e.source)
         /\ \A c \in Ids : ~(Linked(merges, e.target, c) /\ Linked(merges, c, e.source))
  <1>1. e.source \in Ids /\ e.target \in Ids
    BY DEF Edge
  <1>2. ~Linked(merges, e.target, e.source)
    <2> SUFFICES ASSUME Linked(merges, e.target, e.source)
                 PROVE  FALSE
      OBVIOUS
    <2> DEFINE p == [i \in 0..1 |-> IF i = 0 THEN e.target ELSE e.source]
    <2>1. p \in [0..1 -> Ids] /\ p[0] = e.target /\ p[1] = e.source
      BY <1>1
    <2>2. \A i \in 0..(1 - 1) : Linked(merges, p[i], p[i + 1])
      BY <2>1
    <2>3. PathOfLength(merges, e.target, e.source, 1)
      BY <2>1, <2>2 DEF PathOfLength
    <2> QED
      BY <2>3 DEF TriggerRejects, Reaches
  <1>3. ASSUME NEW c \in Ids, Linked(merges, e.target, c), Linked(merges, c, e.source)
        PROVE  FALSE
    <2> DEFINE p == [i \in 0..2 |-> IF i = 0 THEN e.target
                                    ELSE IF i = 1 THEN c ELSE e.source]
    <2>1. p \in [0..2 -> Ids] /\ p[0] = e.target /\ p[1] = c /\ p[2] = e.source
      BY <1>1
    <2>2. \A i \in 0..(2 - 1) : Linked(merges, p[i], p[i + 1])
      BY <1>3, <2>1
    <2>3. PathOfLength(merges, e.target, e.source, 2)
      BY <2>1, <2>2 DEF PathOfLength
    <2> QED
      BY <2>3 DEF TriggerRejects, Reaches
  <1> QED
    BY <1>2, <1>3

-----------------------------------------------------------------------------
(***************************************************************************)
(* Types                                                                   *)
(***************************************************************************)
LEMMA InitTypeOK == Init => TypeOK
  BY DEF Init, TypeOK, Phases, Outcomes

LEMMA NotACommand == NoCommand \notin ValidCommand
  BY MergeConstants DEF NoCommand, ValidCommand, Edge

\* A request that ends keeps the types.
LEMMA FinishTypeOK ==
  ASSUME TypeOK, NEW w \in Writers, NEW result \in Outcomes, Finish(w, result),
         merges' \subseteq Edge
  PROVE  TypeOK'
  BY NotACommand DEF TypeOK, Finish, Release, Phases

LEMMA StepTypeOK ==
  ASSUME TypeOK, [Next]_vars
  PROVE  TypeOK'
  <1> USE DEF Phases
  <1>1. ASSUME NEW w \in Writers, Begin(w)
        PROVE  TypeOK'
    BY <1>1, NotACommand DEF TypeOK, Begin, Outcomes
  <1>2. ASSUME NEW w \in Writers, LockFirst(w) \/ LockSecond(w)
        PROVE  TypeOK'
    BY <1>2 DEF TypeOK, LockFirst, LockSecond, Acquire
  <1>3. ASSUME NEW w \in Writers, CheckOutgoing(w) \/ Flush(w)
        PROVE  TypeOK'
    BY <1>3 DEF TypeOK, CheckOutgoing, Flush
  <1>4. ASSUME NEW w \in Writers,
               EndpointMissing(w) \/ AlreadyMerged(w) \/ InsertRejected(w) \/ Lose(w)
        PROVE  TypeOK'
    <2>1. PICK result \in Outcomes : Fail(w, result)
      BY <1>4 DEF EndpointMissing, AlreadyMerged, InsertRejected, Lose, Outcomes
    <2> QED
      BY <2>1, FinishTypeOK DEF Fail, TypeOK
  <1>5. ASSUME NEW w \in Writers, Commit(w) \/ CommitUnacknowledged(w)
        PROVE  TypeOK'
    <2>1. PICK result \in Outcomes : Finish(w, result)
      BY <1>5 DEF Commit, CommitUnacknowledged, Outcomes
    <2>2. phase[w] = "commit" /\ merges' = merges \union {command[w]}
      BY <1>5 DEF Commit, CommitUnacknowledged, Store
    <2>3. command[w] \in Edge
      BY <2>2 DEF TypeOK, ValidCommand
    <2> QED
      BY <2>1, <2>2, <2>3, FinishTypeOK DEF TypeOK
  <1>6. CASE UNCHANGED vars
    BY <1>6 DEF TypeOK, vars
  <1> QED
    BY <1>1, <1>2, <1>3, <1>4, <1>5, <1>6 DEF Next

\* Type correctness of the merge write path: every reachable state of any number
\* of concurrent MergeResource requests is well formed, and a thread carries a
\* command exactly while it serves a request.
THEOREM TypeCorrect == Spec => []TypeOK
  <1>1. Init => TypeOK
    BY InitTypeOK
  <1>2. TypeOK /\ [Next]_vars => TypeOK'
    BY StepTypeOK
  <1> QED
    BY <1>1, <1>2, PTL DEF Spec
-----------------------------------------------------------------------------
(***************************************************************************)
(* Row locks                                                               *)
(***************************************************************************)

\* A writer past its two SELECT ... FOR UPDATE owns both endpoints.
LEMMA BothEndpointsHeld ==
  ASSUME TypeOK, LocksTaken, NEW w \in Writers, phase[w] \in {"check", "flush", "commit"}
  PROVE  /\ command[w] \in ValidCommand
         /\ command[w] \in Edge
         /\ lock[command[w].source] = w
         /\ lock[command[w].target] = w
  <1>1. command[w] \in ValidCommand
    BY DEF TypeOK
  <1>2. command[w] \in Edge
    BY <1>1 DEF ValidCommand
  <1> QED
    BY <1>1, <1>2, OrderedIds DEF LocksTaken

\* Two writers past their locks have no endpoint in common.
LEMMA EndpointsDisjoint ==
  ASSUME TypeOK, LocksTaken, NEW v \in Writers, NEW w \in Writers, v # w,
         phase[v] \in {"check", "flush", "commit"},
         phase[w] \in {"check", "flush", "commit"}
  PROVE  /\ command[v].source # command[w].source
         /\ command[v].source # command[w].target
         /\ command[v].target # command[w].source
         /\ command[v].target # command[w].target
  BY BothEndpointsHeld

LEMMA InitLocksTaken == Init => LocksTaken
  BY DEF Init, LocksTaken

\* A request that ends gives up its own rows only.
LEMMA FinishLocksTaken ==
  ASSUME TypeOK, LocksTaken, NEW w \in Writers, NEW result, Finish(w, result)
  PROVE  LocksTaken'
  <1> SUFFICES ASSUME NEW v \in Writers
               PROVE  /\ phase'[v] \in {"lock_second", "check", "flush", "commit"} =>
                           /\ FirstId(command'[v]) \in Resources
                           /\ lock'[FirstId(command'[v])] = v
                      /\ phase'[v] \in {"check", "flush", "commit"} =>
                           /\ SecondId(command'[v]) \in Resources
                           /\ lock'[SecondId(command'[v])] = v
    BY DEF LocksTaken
  <1>1. CASE v = w
    BY <1>1 DEF Finish, TypeOK
  <1>2. CASE v # w
    <2>1. phase'[v] = phase[v] /\ command'[v] = command[v]
      BY <1>2 DEF Finish, TypeOK
    <2>2. \A r \in Resources : lock[r] = v => lock'[r] = v
      BY <1>2 DEF Finish, Release
    <2> QED
      BY <2>1, <2>2 DEF LocksTaken
  <1> QED
    BY <1>1, <1>2

LEMMA StepLocksTaken ==
  ASSUME TypeOK, LocksTaken, [Next]_vars
  PROVE  LocksTaken'
  <1>1. ASSUME NEW w \in Writers, Begin(w)
        PROVE  LocksTaken'
    BY <1>1 DEF TypeOK, LocksTaken, Begin
  <1>2. ASSUME NEW w \in Writers, LockFirst(w) \/ LockSecond(w)
        PROVE  LocksTaken'
    <2> DEFINE r == IF phase[w] = "lock_first" THEN FirstId(command[w])
                                               ELSE SecondId(command[w])
    <2>1. /\ r \in Resources /\ lock[r] = NoOne
          /\ lock' = [lock EXCEPT ![r] = w]
          /\ phase[w] \in {"lock_first", "lock_second"}
          /\ phase' = [phase EXCEPT ![w] = IF phase[w] = "lock_first"
                                           THEN "lock_second" ELSE "check"]
          /\ command' = command
      BY <1>2 DEF LockFirst, LockSecond, Acquire
    <2>2. \A s \in Resources : lock[s] \in Writers => lock'[s] = lock[s]
      BY <2>1, MergeConstants DEF TypeOK
    <2>3. lock'[r] = w
      BY <2>1 DEF TypeOK
    <2> QED
      BY <2>1, <2>2, <2>3 DEF LocksTaken, TypeOK
  <1>3. ASSUME NEW w \in Writers, CheckOutgoing(w) \/ Flush(w)
        PROVE  LocksTaken'
    BY <1>3 DEF TypeOK, LocksTaken, CheckOutgoing, Flush
  <1>4. ASSUME NEW w \in Writers, NEW result, Finish(w, result)
        PROVE  LocksTaken'
    BY <1>4, FinishLocksTaken
  <1>5. CASE UNCHANGED vars
    BY <1>5 DEF LocksTaken, vars
  <1> QED
    BY <1>1, <1>2, <1>3, <1>4, <1>5
    DEF Next, EndpointMissing, AlreadyMerged, InsertRejected, Lose, Fail, Commit,
        CommitUnacknowledged

-----------------------------------------------------------------------------
(***************************************************************************)
(* Look-ups that stay true until COMMIT                                    *)
(***************************************************************************)
LEMMA InitChecksStillHold == Init => ChecksStillHold
  BY DEF Init, ChecksStillHold

\* A row committed by w does not disturb what another writer has looked up,
\* because the two writers have no endpoint in common.
LEMMA CommitKeepsOtherChecks ==
  ASSUME TypeOK, LocksTaken, ChecksStillHold, NEW w \in Writers, phase[w] = "commit",
         Store(w), NEW result, Finish(w, result)
  PROVE  ChecksStillHold'
  <1> SUFFICES ASSUME NEW v \in Writers
               PROVE  /\ phase'[v] \in {"flush", "commit"} =>
                           OutgoingMerge(merges', command'[v].source) = {}
                      /\ phase'[v] = "commit" =>
                           /\ ~Linked(merges', command'[v].target, command'[v].source)
                           /\ \A c \in Ids : ~(/\ Linked(merges', command'[v].target, c)
                                               /\ Linked(merges', c, command'[v].source))
    BY DEF ChecksStillHold
  <1>1. CASE v = w
    BY <1>1 DEF Finish, TypeOK
  <1>2. CASE v # w /\ phase[v] \in {"flush", "commit"}
    <2>1. phase'[v] = phase[v] /\ command'[v] = command[v]
      BY <1>2 DEF Finish, TypeOK
    <2>2. merges' = merges \union {command[w]}
      BY DEF Store
    <2>3. /\ command[v].source # command[w].source
          /\ command[v].source # command[w].target
          /\ command[v].target # command[w].source
      BY <1>2, EndpointsDisjoint
    <2>4. \A a, b : Linked(merges', a, b) =>
            Linked(merges, a, b) \/ (a = command[w].source /\ b = command[w].target)
      <3>1. ASSUME NEW a, NEW b, [source |-> a, target |-> b] = command[w]
            PROVE  a = command[w].source /\ b = command[w].target
        BY <3>1
      <3> QED
        BY <2>2, <3>1 DEF Linked
    <2>5. OutgoingMerge(merges', command[v].source) = {}
      BY <1>2, <2>2, <2>3 DEF ChecksStillHold, OutgoingMerge
    <2>6. phase[v] = "commit" =>
            /\ ~Linked(merges', command[v].target, command[v].source)
            /\ \A c \in Ids : ~(/\ Linked(merges', command[v].target, c)
                                /\ Linked(merges', c, command[v].source))
      BY <2>3, <2>4 DEF ChecksStillHold
    <2> QED
      BY <2>1, <2>5, <2>6
  <1>3. CASE v # w /\ phase[v] \notin {"flush", "commit"}
    BY <1>3 DEF Finish, TypeOK
  <1> QED
    BY <1>1, <1>2, <1>3

LEMMA StepChecksStillHold ==
  ASSUME TriggerDepth >= 3, TypeOK, LocksTaken, ChecksStillHold, [Next]_vars
  PROVE  ChecksStillHold'
  <1>1. ASSUME NEW w \in Writers, Begin(w) \/ LockFirst(w) \/ LockSecond(w)
        PROVE  ChecksStillHold'
    <2>1. /\ merges' = merges
          /\ phase'[w] \notin {"flush", "commit"}
          /\ \A v \in Writers \ {w} : phase'[v] = phase[v] /\ command'[v] = command[v]
      BY <1>1 DEF Begin, LockFirst, LockSecond, Acquire, TypeOK
    <2> QED
      BY <2>1 DEF ChecksStillHold
  <1>2. ASSUME NEW w \in Writers, CheckOutgoing(w)
        PROVE  ChecksStillHold'
    BY <1>2 DEF ChecksStillHold, CheckOutgoing, TypeOK
  <1>3. ASSUME NEW w \in Writers, Flush(w)
        PROVE  ChecksStillHold'
    <2>1. phase[w] = "flush" /\ ~TriggerRejects(command[w])
      BY <1>3 DEF Flush
    <2>2. command[w] \in Edge
      BY <2>1, BothEndpointsHeld
    <2>3. /\ ~Linked(merges, command[w].target, command[w].source)
          /\ \A c \in Ids : ~(/\ Linked(merges, command[w].target, c)
                              /\ Linked(merges, c, command[w].source))
      BY <2>1, <2>2, TriggerSeesShortPaths, MergeConstants
    <2>4. /\ merges' = merges /\ command' = command
          /\ \A v \in Writers \ {w} : phase'[v] = phase[v]
      BY <1>3 DEF Flush, TypeOK
    <2> QED
      BY <2>1, <2>3, <2>4 DEF ChecksStillHold
  <1>4. ASSUME NEW w \in Writers, NEW result, Fail(w, result)
        PROVE  ChecksStillHold'
    <2>1. /\ merges' = merges
          /\ phase'[w] = "idle"
          /\ \A v \in Writers \ {w} : phase'[v] = phase[v] /\ command'[v] = command[v]
      BY <1>4 DEF Fail, Finish, TypeOK
    <2> QED
      BY <2>1 DEF ChecksStillHold
  <1>5. ASSUME NEW w \in Writers, Commit(w) \/ CommitUnacknowledged(w)
        PROVE  ChecksStillHold'
    BY <1>5, CommitKeepsOtherChecks DEF Commit, CommitUnacknowledged
  <1>6. CASE UNCHANGED vars
    BY <1>6 DEF ChecksStillHold, vars
  <1> QED
    BY <1>1, <1>2, <1>3, <1>4, <1>5, <1>6
    DEF Next, EndpointMissing, AlreadyMerged, InsertRejected, Lose

-----------------------------------------------------------------------------
(***************************************************************************)
(* The committed lineage                                                   *)
(***************************************************************************)
LEMMA InitShortCycleFree == Init => ShortCycleFree
  BY DEF Init, ShortCycleFree, Linked

\* A new row closes no cycle of three edges or fewer when its ends are distinct and
\* no one or two edges lead back from its target to its source.
LEMMA NewRowClosesNoShortCycle ==
  ASSUME ShortCycleFree, NEW e \in ValidCommand, merges' = merges \union {e},
         ~Linked(merges, e.target, e.source),
         \A c \in Ids : ~(Linked(merges, e.target, c) /\ Linked(merges, c, e.source))
  PROVE  ShortCycleFree'
  <1>1. e.source \in Ids /\ e.target \in Ids /\ e.source # e.target
    BY DEF ValidCommand, Edge
  <1>2. \A a, b : Linked(merges', a, b) =>
          Linked(merges, a, b) \/ (a = e.source /\ b = e.target)
    <2>1. ASSUME NEW a, NEW b, [source |-> a, target |-> b] = e
          PROVE  a = e.source /\ b = e.target
      BY <2>1
    <2> QED
      BY <2>1 DEF Linked
  <1>3. ASSUME NEW a \in Ids
        PROVE  ~Linked(merges', a, a)
    BY <1>1, <1>2 DEF ShortCycleFree
  <1>4. ASSUME NEW a \in Ids, NEW b \in Ids
        PROVE  ~(Linked(merges', a, b) /\ Linked(merges', b, a))
    BY <1>1, <1>2 DEF ShortCycleFree
  <1>5. ASSUME NEW a \in Ids, NEW b \in Ids, NEW c \in Ids
        PROVE  ~(Linked(merges', a, b) /\ Linked(merges', b, c) /\ Linked(merges', c, a))
    BY <1>1, <1>2 DEF ShortCycleFree
  <1> QED
    BY <1>3, <1>4, <1>5 DEF ShortCycleFree

LEMMA StepShortCycleFree ==
  ASSUME TypeOK, LocksTaken, ChecksStillHold, ShortCycleFree, [Next]_vars
  PROVE  ShortCycleFree'
  <1>1. ASSUME NEW w \in Writers, Commit(w) \/ CommitUnacknowledged(w)
        PROVE  ShortCycleFree'
    <2>1. phase[w] = "commit" /\ merges' = merges \union {command[w]}
      BY <1>1 DEF Commit, CommitUnacknowledged, Store
    <2>2. command[w] \in ValidCommand
      BY <2>1, BothEndpointsHeld
    <2> QED
      BY <2>1, <2>2, NewRowClosesNoShortCycle DEF ChecksStillHold
  <1>2. CASE merges' = merges
    BY <1>2 DEF ShortCycleFree, Linked
  <1> QED
    BY <1>1, <1>2
    DEF Next, vars, Begin, LockFirst, LockSecond, Acquire, EndpointMissing, CheckOutgoing,
        AlreadyMerged, Flush, InsertRejected, Lose, Fail

\* The inductive invariant: types, locks and surviving look-ups together.
LEMMA LineageInvariant ==
  ASSUME TriggerDepth >= 3
  PROVE  Spec => []LineageInv
  <1>1. Init => LineageInv
    BY InitTypeOK, InitLocksTaken, InitChecksStillHold, InitShortCycleFree DEF LineageInv
  <1>2. LineageInv /\ [Next]_vars => LineageInv'
    BY StepTypeOK, StepLocksTaken, StepChecksStillHold, StepShortCycleFree DEF LineageInv
  <1> QED
    BY <1>1, <1>2, PTL DEF Spec

\* However many MergeResource requests overlap, on however many resources, no two
\* and no three resources are ever merged into each other in a circle, provided
\* that the trigger follows at least two edges (it follows 99).
THEOREM NoShortCycles ==
  ASSUME TriggerDepth >= 3
  PROVE  Spec => []ShortCycleFree
  <1>1. LineageInv => ShortCycleFree
    BY DEF LineageInv
  <1> QED
    BY <1>1, LineageInvariant, PTL

\* What the handler and the trigger looked up before the INSERT is still true when
\* the transaction commits, for any number of concurrent requests.
THEOREM ChecksSurvive ==
  ASSUME TriggerDepth >= 3
  PROVE  Spec => []ChecksStillHold
  <1>1. LineageInv => ChecksStillHold
    BY DEF LineageInv
  <1> QED
    BY <1>1, LineageInvariant, PTL

-----------------------------------------------------------------------------
(***************************************************************************)
(* Steps of the detailed specification against the abstract merge history  *)
(***************************************************************************)

\* Only a commit changes the rows, and what it adds the abstract history allows.
LEMMA CommitRecords ==
  ASSUME LineageInv, NEW w \in Writers, Commit(w) \/ CommitUnacknowledged(w)
  PROVE  /\ OutgoingMerge(merges, command[w].source) = {}
         /\ merges' = merges \union {command[w]}
         /\ History!RecordMerge
  <1> DEFINE s == command[w].source
             t == command[w].target
  <1>1. phase[w] = "commit" /\ merges' = merges \union {command[w]}
    BY DEF Commit, CommitUnacknowledged, Store
  <1>2. command[w] \in ValidCommand
    BY <1>1, BothEndpointsHeld DEF LineageInv
  <1>3. s \in Ids /\ t \in Ids /\ s # t /\ command[w] = [source |-> s, target |-> t]
    BY <1>2 DEF ValidCommand, Edge
  <1>4. OutgoingMerge(merges, s) = {}
    BY <1>1 DEF LineageInv, ChecksStillHold
  <1>5. /\ ~Linked(merges, t, s)
        /\ \A r \in Ids : ~(Linked(merges, t, r) /\ Linked(merges, r, s))
    BY <1>1 DEF LineageInv, ChecksStillHold
  <1>6. \A r \in Ids : ~Linked(merges, s, r)
    BY <1>4 DEF OutgoingMerge, Linked
  <1>7. History!Recordable(s, t)
    BY <1>3, <1>5, <1>6 DEF History!Recordable, History!Joined, Linked
  <1> QED
    BY <1>1, <1>3, <1>4, <1>7 DEF History!RecordMerge

LEMMA OtherStepsKeepRows ==
  ASSUME [Next]_vars, \A w \in Writers : ~(Commit(w) \/ CommitUnacknowledged(w))
  PROVE  merges' = merges
  BY DEF Next, vars, Begin, LockFirst, LockSecond, Acquire, EndpointMissing, CheckOutgoing,
         AlreadyMerged, Flush, InsertRejected, Lose, Fail

\* The handler, the row locks, the trigger and the unique constraint together
\* implement the abstract merge history: a resource is merged away at most once,
\* rows are only added, and no lineage of two or three edges closes.
THEOREM RefinesHistory ==
  ASSUME TriggerDepth >= 3
  PROVE  Spec => ImplementsHistory
  <1>1. Init => History!HistoryInit
    BY DEF Init, History!HistoryInit
  <1>2. LineageInv /\ [Next]_vars => [History!RecordMerge]_merges
    BY CommitRecords, OtherStepsKeepRows
  <1> QED
    BY <1>1, <1>2, LineageInvariant, PTL DEF Spec, ImplementsHistory, History!HistorySpec

\* A success is answered only by the step that adds the request's own row, to a
\* source that had none; no step removes or changes a committed merge.
THEOREM RecordedOnce ==
  ASSUME TriggerDepth >= 3
  PROVE  Spec => MergesRecordedOnce
  <1> DEFINE Recorded ==
        /\ merges \subseteq merges'
        /\ \A w \in Writers :
             outcome'[w] = "merged" /\ outcome[w] # "merged" =>
               /\ OutgoingMerge(merges, command[w].source) = {}
               /\ merges' = merges \union {command[w]}
  <1>1. LineageInv /\ [Next]_vars => [Recorded]_vars
    <2> SUFFICES ASSUME LineageInv, Next
                 PROVE  Recorded
      OBVIOUS
    <2>1. ASSUME NEW w \in Writers, Commit(w) \/ CommitUnacknowledged(w)
          PROVE  Recorded
      <3>1. \A v \in Writers \ {w} : outcome'[v] = outcome[v]
        BY <2>1 DEF Commit, CommitUnacknowledged, Finish, LineageInv, TypeOK
      <3> QED
        BY <2>1, <3>1, CommitRecords
    <2>2. ASSUME NEW w \in Writers, NEW result, result # "merged", Fail(w, result)
          PROVE  Recorded
      BY <2>2 DEF Fail, Finish, LineageInv, TypeOK
    <2>3. ASSUME NEW w \in Writers,
                 \/ Begin(w) \/ LockFirst(w) \/ LockSecond(w) \/ CheckOutgoing(w) \/ Flush(w)
          PROVE  Recorded
      BY <2>3 DEF Begin, LockFirst, LockSecond, Acquire, CheckOutgoing, Flush, LineageInv,
                  TypeOK
    <2> QED
      BY <2>1, <2>2, <2>3 DEF Next, EndpointMissing, AlreadyMerged, InsertRejected, Lose
  <1>2. Spec => [][Recorded]_vars
    BY <1>1, LineageInvariant, PTL DEF Spec
  <1> QED
    BY <1>2 DEF MergesRecordedOnce

-----------------------------------------------------------------------------
(***************************************************************************)
(* Deadlock                                                                *)
(***************************************************************************)

\* A request that waits for its second row holds the first and no other.
HoldsLess ==
  \A w \in Writers :
    /\ phase[w] \in {"idle", "lock_first"} => Held(w) = {}
    /\ phase[w] = "lock_second" => Held(w) \subseteq {FirstId(command[w])}

LEMMA StepHoldsLess ==
  ASSUME TypeOK, HoldsLess, [Next]_vars
  PROVE  HoldsLess'
  <1> USE DEF TypeOK, HoldsLess, Held
  <1>1. ASSUME NEW w \in Writers, Begin(w) \/ CheckOutgoing(w) \/ Flush(w)
        PROVE  HoldsLess'
    BY <1>1 DEF Begin, CheckOutgoing, Flush
  <1>2. ASSUME NEW w \in Writers, NEW r \in Resources, lock[r] = NoOne,
               lock' = [lock EXCEPT ![r] = w], command' = command,
               \/ phase[w] = "lock_first" /\ r = FirstId(command[w])
                  /\ phase' = [phase EXCEPT ![w] = "lock_second"]
               \/ phase' = [phase EXCEPT ![w] = "check"]
        PROVE  HoldsLess'
    BY <1>2
  <1>3. ASSUME NEW w \in Writers, NEW result, Finish(w, result)
        PROVE  HoldsLess'
    BY <1>3, MergeConstants DEF Finish, Release
  <1>4. CASE UNCHANGED vars
    BY <1>4 DEF vars
  <1> QED
    BY <1>1, <1>2, <1>3, <1>4
    DEF Next, LockFirst, LockSecond, Acquire, EndpointMissing, AlreadyMerged, InsertRejected,
        Lose, Fail, Commit, CommitUnacknowledged

\* The row a request that waits for one is after.
RowAwaited(w) == IF phase[w] = "lock_first" THEN FirstId(command[w]) ELSE SecondId(command[w])

\* No set of requests waits in a circle: each that is waited for holds a lesser row than
\* the one it waits for itself.
THEOREM NoCircle == Spec => []NoDeadlock
  <1>1. TypeOK /\ HoldsLess => NoDeadlock
    <2> SUFFICES ASSUME TypeOK, HoldsLess, NEW S \in (SUBSET Writers) \ {{}}
                 PROVE  \E v \in S : \A w \in S : ~Waits(v, w)
      BY DEF NoDeadlock
    <2>0. S \subseteq Writers /\ S # {}
      OBVIOUS
    <2> SUFFICES ASSUME \A v \in S : \E w \in S : Waits(v, w)
                 PROVE  FALSE
      OBVIOUS
    <2> DEFINE awaitedRow == [v \in S |-> RowAwaited(v)]
    <2>1. \A v \in S : phase[v] \in {"lock_first", "lock_second"}
      BY DEF Waits
    <2>2. \A v \in S : command[v] \in ValidCommand
      BY <2>0, <2>1 DEF TypeOK
    <2>3. \A v \in S : /\ FirstId(command[v]) \in Nat /\ SecondId(command[v]) \in Nat
                      /\ FirstId(command[v]) < SecondId(command[v])
      BY <2>2, OrderedUpwards
    <2>4. \A v \in S : RowAwaited(v) \in Nat
      BY <2>3 DEF RowAwaited
    <2>5. PICK v \in S : \A w \in S : awaitedRow[w] <= awaitedRow[v]
      BY <2>0, <2>4, MergeConstants, FS_Subset, GreatestValue
    <2>6. PICK w \in S : Waits(v, w)
      OBVIOUS
    <2>7. RowAwaited(v) \in Held(w)
      BY <2>6 DEF Waits, RowAwaited
    <2>8. phase[w] = "lock_second" /\ RowAwaited(v) = FirstId(command[w])
      BY <2>0, <2>1, <2>7 DEF HoldsLess
    <2>9. RowAwaited(w) = SecondId(command[w])
      BY <2>8 DEF RowAwaited
    <2> QED
      BY <2>3, <2>4, <2>5, <2>8, <2>9
  <1>2. Init => HoldsLess
    BY MergeConstants DEF Init, HoldsLess, Held
  <1>3. TypeOK /\ HoldsLess /\ [Next]_vars => HoldsLess'
    BY StepHoldsLess
  <1> QED
    BY <1>1, <1>2, <1>3, TypeCorrect, PTL DEF Spec

-----------------------------------------------------------------------------
(***************************************************************************)
(* Paths of committed merges                                               *)
(***************************************************************************)

\* A resource is zero edges away from itself.
LEMMA EmptyPath ==
  ASSUME NEW E, NEW a \in Ids
  PROVE  PathOfLength(E, a, a, 0)
  <1> DEFINE p == [i \in 0..0 |-> a]
  <1>1. p \in [0..0 -> Ids] /\ p[0] = a
    OBVIOUS
  <1>2. \A i \in 0..(0 - 1) : Linked(E, p[i], p[i + 1])
    OBVIOUS
  <1> QED
    BY <1>1, <1>2 DEF PathOfLength

\* One more edge makes a path one longer.
LEMMA ExtendPath ==
  ASSUME NEW E, NEW a, NEW b, NEW c \in Ids, NEW k \in Nat,
         PathOfLength(E, a, b, k), Linked(E, b, c)
  PROVE  PathOfLength(E, a, c, k + 1)
  <1>1. PICK p \in [0..k -> Ids] :
          p[0] = a /\ p[k] = b /\ \A i \in 0..(k - 1) : Linked(E, p[i], p[i + 1])
    BY DEF PathOfLength
  <1> DEFINE longer == [i \in 0..(k + 1) |-> IF i = k + 1 THEN c ELSE p[i]]
  <1>2. /\ longer \in [0..(k + 1) -> Ids]
        /\ longer[0] = a /\ longer[k] = b /\ longer[k + 1] = c
    BY <1>1
  <1>3. ASSUME NEW i \in 0..((k + 1) - 1)
        PROVE  Linked(E, longer[i], longer[i + 1])
    <2>1. CASE i = k
      BY <1>2, <2>1
    <2>2. CASE i # k
      <3>1. i \in 0..(k - 1) /\ longer[i] = p[i] /\ longer[i + 1] = p[i + 1]
        BY <2>2
      <3> QED
        BY <1>1, <3>1
    <2> QED
      BY <2>1, <2>2
  <1> HIDE DEF longer
  <1> QED
    BY <1>2, <1>3 DEF PathOfLength

\* Rows that are added leave every path in place.
LEMMA PathGrows ==
  ASSUME NEW E, NEW F, E \subseteq F, NEW a, NEW b, NEW k, PathOfLength(E, a, b, k)
  PROVE  PathOfLength(F, a, b, k)
  BY DEF PathOfLength, Linked

-----------------------------------------------------------------------------
(***************************************************************************)
(* Cycles longer than the bound                                            *)
(***************************************************************************)

\* The way back that a new row needs to close a cycle: going round the cycle from the
\* new row, the first return to its source uses old rows only.
LEMMA WayBack ==
  ASSUME NEW E, NEW e \in Edge, NEW r, NEW k \in Nat \ {0},
         PathOfLength(E \union {e}, r, r, k), ~PathOfLength(E, r, r, k)
  PROVE  \E n \in 0..(k - 1) : PathOfLength(E, e.target, e.source, n)
  <1> DEFINE F == E \union {e}
  <1>1. PICK p \in [0..k -> Ids] :
          p[0] = r /\ p[k] = r /\ \A i \in 0..(k - 1) : Linked(F, p[i], p[i + 1])
    BY DEF PathOfLength
  <1>2. PICK j \in 0..(k - 1) : ~Linked(E, p[j], p[j + 1])
    BY <1>1 DEF PathOfLength
  <1>3. p[j] = e.source /\ p[j + 1] = e.target
    <2>1. [source |-> p[j], target |-> p[j + 1]] = e
      BY <1>1, <1>2 DEF Linked
    <2> QED
      BY <2>1
  <1> DEFINE twice == [i \in 0..(k + k) |-> IF i <= k THEN p[i] ELSE p[i - k]]
  <1>4. twice \in [0..(k + k) -> Ids]
    <2>1. ASSUME NEW i \in 0..(k + k)
          PROVE  (IF i <= k THEN p[i] ELSE p[i - k]) \in Ids
      <3>1. CASE i <= k
        <4>1. i \in 0..k
          BY <3>1
        <4> QED
          BY <3>1, <4>1
      <3>2. CASE ~(i <= k)
        <4>1. i - k \in 0..k
          BY <3>2
        <4> QED
          BY <3>2, <4>1
      <3> QED
        BY <3>1, <3>2
    <2> QED
      BY <2>1
  <1>5. ASSUME NEW i \in 0..(k + k - 1)
        PROVE  Linked(F, twice[i], twice[i + 1])
    <2>1. CASE i < k
      <3>1. i \in 0..(k - 1) /\ twice[i] = p[i] /\ twice[i + 1] = p[i + 1]
        BY <2>1
      <3> QED
        BY <1>1, <3>1
    <2>2. CASE i = k
      <3>1. twice[i] = p[0] /\ twice[i + 1] = p[0 + 1] /\ 0 \in 0..(k - 1)
        BY <1>1, <2>2
      <3> QED
        BY <1>1, <3>1
    <2>3. CASE i > k
      <3>1. /\ i - k \in 0..(k - 1) /\ twice[i] = p[i - k]
            /\ twice[i + 1] = p[(i - k) + 1]
        <4>1. i \in 0..(k + k) /\ i + 1 \in 0..(k + k) /\ ~(i <= k) /\ ~(i + 1 <= k)
          BY <2>3
        <4>2. (i + 1) - k = (i - k) + 1 /\ i - k \in 0..(k - 1)
          BY <2>3
        <4> QED
          BY <4>1, <4>2
      <3> QED
        BY <1>1, <3>1
    <2> QED
      BY <2>1, <2>2, <2>3
  <1>6. twice[j] = e.source /\ twice[j + 1] = e.target /\ twice[j + k] = e.source
    <2>1. twice[j] = e.source /\ twice[j + 1] = e.target
      BY <1>3
    <2>2. CASE j = 0
      BY <1>1, <1>3, <2>2
    <2>3. CASE j # 0
      <3>1. j + k \in 0..(k + k) /\ ~(j + k <= k) /\ (j + k) - k = j
        BY <2>3
      <3> QED
        BY <1>3, <2>1, <3>1
    <2> QED
      BY <2>1, <2>2, <2>3
  <1> HIDE DEF twice
  <1> DEFINE Returns == {i \in (j + 1)..(j + k) : twice[i] = e.source}
  <1>7. j + k \in Returns /\ Returns \subseteq Nat
    BY <1>6
  <1>8. PICK m \in Returns : \A i \in Returns : m <= i
    <2> HIDE DEF Returns
    <2> QED
      BY <1>7, LeastNat
  <1> DEFINE n == m - (j + 1)
             back == [i \in 0..n |-> twice[(j + 1) + i]]
  <1>9. /\ n \in 0..(k - 1) /\ m \in (j + 1)..(j + k) /\ twice[m] = e.source
        /\ (j + 1) + n = m
    BY <1>8
  <1>10. \A i \in 0..n : (j + 1) + i \in 0..(k + k)
    BY <1>9
  <1>11. back \in [0..n -> Ids] /\ back[0] = e.target /\ back[n] = e.source
    <2>1. back \in [0..n -> Ids]
      BY <1>4, <1>10
    <2>2. 0 \in 0..n /\ n \in 0..n /\ (j + 1) + 0 = j + 1
      BY <1>9
    <2> QED
      BY <1>6, <1>9, <2>1, <2>2
  <1>12. ASSUME NEW i \in 0..(n - 1)
         PROVE  Linked(E, back[i], back[i + 1])
    <2> DEFINE h == (j + 1) + i
    <2>1. /\ h \in 0..(k + k - 1) /\ h \in (j + 1)..(j + k) /\ h < m
          /\ back[i] = twice[h] /\ back[i + 1] = twice[h + 1]
      <3>1. h \in 0..(k + k - 1) /\ h \in (j + 1)..(j + k) /\ h < m
        BY <1>9
      <3>2. i \in 0..n /\ i + 1 \in 0..n /\ (j + 1) + (i + 1) = h + 1
        BY <1>9
      <3> QED
        BY <3>1, <3>2
    <2>2. twice[h] # e.source
      BY <1>8, <1>9, <2>1
    <2>3. Linked(F, twice[h], twice[h + 1])
      BY <1>5, <2>1
    <2>4. [source |-> twice[h], target |-> twice[h + 1]] # e
      BY <2>2
    <2> QED
      BY <2>1, <2>3, <2>4 DEF Linked
  <1> HIDE DEF n, back
  <1>13. PathOfLength(E, e.target, e.source, n)
    BY <1>11, <1>12 DEF PathOfLength
  <1> QED
    BY <1>9, <1>13

\* With one request at a time nothing is committed between the trigger and COMMIT.
VerdictStands == \A w \in Writers : phase[w] = "commit" => ~TriggerRejects(command[w])

LEMMA StepVerdictStands ==
  ASSUME \A v, w \in Writers : v = w, TypeOK, VerdictStands, [Next]_vars
  PROVE  VerdictStands'
  <1>1. ASSUME NEW w \in Writers, phase'[w] = "commit", phase[w] = "flush", Flush(w)
        PROVE  ~TriggerRejects(command[w])'
    BY <1>1 DEF Flush, TriggerRejects, Reaches, PathOfLength, Linked
  <1>2. ASSUME NEW w \in Writers, phase[w] = "commit", UNCHANGED <<merges, command>>
        PROVE  ~TriggerRejects(command[w])'
    BY <1>2 DEF VerdictStands, TriggerRejects, Reaches, PathOfLength, Linked
  <1>3. ASSUME NEW w \in Writers, phase'[w] = "commit"
        PROVE  \/ phase[w] = "flush" /\ Flush(w)
               \/ phase[w] = "commit" /\ UNCHANGED <<merges, command>>
    BY <1>3
    DEF Next, vars, TypeOK, Phases, Begin, LockFirst, LockSecond, Acquire, EndpointMissing,
        CheckOutgoing, AlreadyMerged, Flush, InsertRejected, Lose, Fail, Commit,
        CommitUnacknowledged, Finish
  <1> QED
    BY <1>1, <1>2, <1>3 DEF VerdictStands

LEMMA StepCyclesExceedBound ==
  ASSUME TypeOK, VerdictStands, CyclesExceedBound, [Next]_vars
  PROVE  CyclesExceedBound'
  <1>1. ASSUME NEW w \in Writers, Commit(w) \/ CommitUnacknowledged(w)
        PROVE  CyclesExceedBound'
    <2>1. phase[w] = "commit" /\ merges' = merges \union {command[w]}
      BY <1>1 DEF Commit, CommitUnacknowledged, Store
    <2>2. command[w] \in Edge /\ ~TriggerRejects(command[w])
      BY <2>1 DEF TypeOK, ValidCommand, VerdictStands
    <2> SUFFICES ASSUME NEW r \in Ids, NEW k \in 1..TriggerDepth,
                        PathOfLength(merges \union {command[w]}, r, r, k)
                 PROVE  FALSE
      BY <2>1 DEF CyclesExceedBound
    <2>3. ~PathOfLength(merges, r, r, k)
      BY DEF CyclesExceedBound
    <2>4. k \in Nat \ {0} /\ \A n \in 0..(k - 1) : n \in 0..(TriggerDepth - 1)
      BY MergeConstants
    <2>5. \E n \in 0..(k - 1) : PathOfLength(merges, command[w].target, command[w].source, n)
      BY <2>2, <2>3, <2>4, WayBack
    <2> QED
      BY <2>2, <2>4, <2>5 DEF TriggerRejects, Reaches
  <1>2. CASE merges' = merges
    BY <1>2 DEF CyclesExceedBound, PathOfLength, Linked
  <1> QED
    BY <1>1, <1>2, OtherStepsKeepRows

\* When merge requests do not overlap, every cycle of the lineage has more edges than
\* the trigger's bound, whatever the bound and whatever the order of the merges.
THEOREM CyclesAreLong ==
  ASSUME \A v, w \in Writers : v = w
  PROVE  Spec => []CyclesExceedBound
  <1>1. Init => VerdictStands
    BY DEF Init, VerdictStands
  <1>2. Init => CyclesExceedBound
    <2> SUFFICES ASSUME Init, NEW r \in Ids, NEW k \in 1..TriggerDepth,
                        PathOfLength(merges, r, r, k)
                 PROVE  FALSE
      BY DEF CyclesExceedBound
    <2>1. 0 \in 0..(k - 1)
      BY MergeConstants
    <2> QED
      BY <2>1 DEF Init, PathOfLength, Linked
  <1>3. TypeOK /\ VerdictStands /\ [Next]_vars => VerdictStands'
    BY StepVerdictStands
  <1>4. TypeOK /\ VerdictStands /\ CyclesExceedBound /\ [Next]_vars => CyclesExceedBound'
    BY StepCyclesExceedBound
  <1> QED
    BY <1>1, <1>2, <1>3, <1>4, TypeCorrect, PTL DEF Spec
-----------------------------------------------------------------------------
(***************************************************************************)
(* Resolution beside merges                                                *)
(***************************************************************************)

\* A resolution changes nothing that the merges read or write.
LEMMA ResolutionOnlyReads ==
  ASSUME [ResolutionNext]_resolutionVars
  PROVE  [Next]_vars
  BY DEF ResolutionNext, resolutionVars, Resolve, Request, LoadRequested, CycleFound,
         ReachTerminal, TooDeep, FollowEdge, LoadCanonical, Goto

\* Everything proved of the merges holds while any number of resolutions read beside them.
THEOREM ResolutionsLeaveMergesAlone == ResolutionSpec => Spec
  <1>1. ResolutionInit => Init
    BY DEF ResolutionInit
  <1>2. [ResolutionNext]_resolutionVars => [Next]_vars
    BY ResolutionOnlyReads
  <1> QED
    BY <1>1, <1>2, PTL DEF ResolutionSpec, Spec

\* A merge row names two stored resources: both were locked when it was inserted.
EndpointsStored == \A e \in merges : e.source \in Resources /\ e.target \in Resources

LEMMA StepEndpointsStored ==
  ASSUME TypeOK, LocksTaken, EndpointsStored, [Next]_vars
  PROVE  EndpointsStored'
  <1>1. ASSUME NEW w \in Writers, Commit(w) \/ CommitUnacknowledged(w)
        PROVE  EndpointsStored'
    <2>1. phase[w] = "commit" /\ merges' = merges \union {command[w]}
      BY <1>1 DEF Commit, CommitUnacknowledged, Store
    <2>2. FirstId(command[w]) \in Resources /\ SecondId(command[w]) \in Resources
      BY <2>1 DEF LocksTaken
    <2>3. command[w] \in Edge
      BY <2>1, BothEndpointsHeld
    <2>4. command[w].source \in Resources /\ command[w].target \in Resources
      BY <2>2, <2>3, OrderedIds
    <2> QED
      BY <2>1, <2>4 DEF EndpointsStored
  <1>2. CASE merges' = merges
    BY <1>2 DEF EndpointsStored
  <1> QED
    BY <1>1, <1>2, OtherStepsKeepRows

LEMMA CommitOnlyAdds ==
  ASSUME [Next]_vars
  PROVE  merges \subseteq merges'
  BY OtherStepsKeepRows DEF Commit, CommitUnacknowledged, Store

(***************************************************************************)
(* The inductive invariant.  The edges of a walk are read one by one, but  *)
(* rows are never removed: the path it has followed is a path of the rows  *)
(* committed now, and each resource it has looked at lies on that path.    *)
(***************************************************************************)
Walked == {"walk", "load_canonical", "resolved", "cycle", "too_deep"}

JustAsked(q) ==
  stage[q] = "load_requested" =>
    /\ requested[q] \in Ids /\ current[q] = requested[q]
    /\ depth[q] = 0 /\ immediate[q] = 0 /\ visited[q] = {}

OnAPath(q) ==
  stage[q] \in Walked =>
    /\ requested[q] \in Resources /\ current[q] \in Resources
    /\ PathOfLength(merges, requested[q], current[q], depth[q])
    /\ depth[q] = 0 => immediate[q] = 0
    /\ depth[q] # 0 => Linked(merges, requested[q], immediate[q])

VisitedBehind(q) ==
  stage[q] \in {"walk", "cycle"} =>
    \A v \in visited[q] : \E k \in 1..depth[q] : PathOfLength(merges, v, current[q], k)

AnswerFounded(q) ==
  /\ stage[q] = "cycle" => current[q] \in visited[q]
  /\ stage[q] = "too_deep" => depth[q] = MaxDepth /\ OutgoingMerge(merges, current[q]) # {}
  /\ stage[q] # "target_missing"

ReaderInv(q) == JustAsked(q) /\ OnAPath(q) /\ VisitedBehind(q) /\ AnswerFounded(q)

ResolutionInv ==
  /\ TypeOK /\ LocksTaken /\ EndpointsStored
  /\ ResolutionTypeOK
  /\ \A q \in Readers : ReaderInv(q)

LEMMA InitResolutionInv == ResolutionInit => ResolutionInv
  <1> SUFFICES ASSUME ResolutionInit
               PROVE  ResolutionInv
    OBVIOUS
  <1>1. TypeOK /\ LocksTaken
    BY InitTypeOK, InitLocksTaken DEF ResolutionInit
  <1>2. EndpointsStored
    BY DEF ResolutionInit, Init, EndpointsStored
  <1>3. ResolutionTypeOK
    BY ResolutionConstants DEF ResolutionInit, InitReaders, ResolutionTypeOK, Stages
  <1>4. \A q \in Readers : ReaderInv(q)
    BY DEF ResolutionInit, InitReaders, ReaderInv, JustAsked, OnAPath, Walked, VisitedBehind,
           AnswerFounded
  <1> QED
    BY <1>1, <1>2, <1>3, <1>4 DEF ResolutionInv

\* What a reader has established survives a merge: paths and edges only grow.
LEMMA MergeKeepsReader ==
  ASSUME merges \subseteq merges', UNCHANGED readerVars, NEW q \in Readers, ReaderInv(q)
  PROVE  ReaderInv(q)'
  <1> USE DEF ReaderInv, readerVars
  <1>1. \A a, b, k : PathOfLength(merges, a, b, k) => PathOfLength(merges', a, b, k)
    BY PathGrows
  <1>2. \A a, b : Linked(merges, a, b) => Linked(merges', a, b)
    BY DEF Linked
  <1>3. JustAsked(q)'
    BY DEF JustAsked
  <1>4. OnAPath(q)'
    BY <1>1, <1>2 DEF OnAPath
  <1>5. VisitedBehind(q)'
    BY <1>1 DEF VisitedBehind
  <1>6. AnswerFounded(q)'
    BY DEF AnswerFounded, OutgoingMerge
  <1> QED
    BY <1>3, <1>4, <1>5, <1>6

(***************************************************************************)
(* One step of a reader                                                    *)
(***************************************************************************)
LEMMA ResolveKeepsTypes ==
  ASSUME ResolutionTypeOK, TypeOK, EndpointsStored, NEW q \in Readers, ReaderInv(q), Resolve(q)
  PROVE  ResolutionTypeOK'
  <1> USE DEF ResolutionTypeOK, Stages, Answers
  <1>1. CASE Request(q)
    BY <1>1, ResolutionConstants DEF Request
  <1>2. CASE LoadRequested(q) \/ CycleFound(q) \/ LoadCanonical(q)
    BY <1>2 DEF LoadRequested, CycleFound, LoadCanonical, Goto
  <1>3. ASSUME stage[q] = "walk"
        PROVE  current[q] \in Ids
    BY <1>3, MergeConstants DEF ReaderInv, OnAPath, Walked
  <1>4. CASE ReachTerminal(q) \/ TooDeep(q)
    BY <1>3, <1>4 DEF ReachTerminal, TooDeep, Goto, Look
  <1>5. CASE FollowEdge(q)
    <2>1. PICK e \in OutgoingMerge(merges, current[q]) :
            /\ current' = [current EXCEPT ![q] = e.target]
            /\ immediate' = [immediate EXCEPT ![q] = IF depth[q] = 0 THEN e.target ELSE @]
      BY <1>5 DEF FollowEdge
    <2>2. e.target \in Ids
      BY <2>1 DEF OutgoingMerge, TypeOK, Edge
    <2>3. depth[q] + 1 \in 0..MaxDepth
      BY <1>5, ResolutionConstants DEF FollowEdge
    <2> QED
      BY <1>3, <1>5, <2>1, <2>2, <2>3 DEF FollowEdge, Goto, Look
  <1> QED
    BY <1>1, <1>2, <1>4, <1>5 DEF Resolve

\* The edge a walk follows makes its path one longer and puts all it has looked at
\* before the resource it has come to.
LEMMA FollowKeepsReader ==
  ASSUME ResolutionTypeOK, TypeOK, EndpointsStored, NEW q \in Readers, ReaderInv(q),
         FollowEdge(q)
  PROVE  ReaderInv(q)'
  <1>1. stage[q] = "walk" /\ stage'[q] = "walk" /\ UNCHANGED <<vars, requested>>
    BY DEF FollowEdge, Look, Goto, ResolutionTypeOK
  <1>2. PICK e \in OutgoingMerge(merges, current[q]) :
          /\ current' = [current EXCEPT ![q] = e.target]
          /\ immediate' = [immediate EXCEPT ![q] = IF depth[q] = 0 THEN e.target ELSE @]
    BY DEF FollowEdge
  <1>3. /\ current'[q] = e.target
        /\ immediate'[q] = IF depth[q] = 0 THEN e.target ELSE immediate[q]
        /\ depth'[q] = depth[q] + 1
        /\ visited'[q] = visited[q] \union {current[q]}
    BY <1>2 DEF FollowEdge, Look, ResolutionTypeOK
  <1>4. Linked(merges, current[q], e.target) /\ e.target \in Resources /\ e.target \in Ids
    <2>1. e \in merges /\ e.source = current[q] /\ e \in Edge
      BY <1>2 DEF OutgoingMerge, TypeOK
    <2>2. e = [source |-> current[q], target |-> e.target]
      BY <2>1 DEF Edge
    <2> QED
      BY <2>1, <2>2, MergeConstants DEF Linked, EndpointsStored
  <1>5. /\ requested[q] \in Resources /\ current[q] \in Resources /\ depth[q] \in Nat
        /\ PathOfLength(merges, requested[q], current[q], depth[q])
        /\ depth[q] # 0 => Linked(merges, requested[q], immediate[q])
    BY <1>1, ResolutionConstants DEF ReaderInv, OnAPath, Walked, ResolutionTypeOK
  <1>6. OnAPath(q)'
    <2>1. PathOfLength(merges, requested[q], e.target, depth[q] + 1)
      BY <1>4, <1>5, ExtendPath
    <2>2. depth[q] = 0 => requested[q] = current[q]
      BY <1>5 DEF PathOfLength
    <2>3. Linked(merges, requested[q], immediate'[q])
      BY <1>3, <1>4, <1>5, <2>2
    <2>4. depth'[q] # 0
      BY <1>3, <1>5
    <2> QED
      BY <1>1, <1>3, <1>4, <1>5, <2>1, <2>3, <2>4 DEF OnAPath, vars
  <1>7. VisitedBehind(q)'
    <2> SUFFICES ASSUME NEW v \in visited'[q]
                 PROVE  \E k \in 1..(depth[q] + 1) : PathOfLength(merges, v, e.target, k)
      BY <1>1, <1>3 DEF VisitedBehind, vars
    <2>1. CASE v = current[q]
      <3>1. current[q] \in Ids
        BY <1>5, MergeConstants
      <3>2. PathOfLength(merges, v, e.target, 0 + 1)
        BY <1>4, <2>1, <3>1, EmptyPath, ExtendPath
      <3>3. 0 + 1 \in 1..(depth[q] + 1)
        BY <1>5
      <3> QED
        BY <3>2, <3>3
    <2>2. CASE v \in visited[q]
      <3>1. PICK k \in 1..depth[q] : PathOfLength(merges, v, current[q], k)
        BY <1>1, <2>2 DEF ReaderInv, VisitedBehind
      <3>2. k \in Nat /\ k + 1 \in 1..(depth[q] + 1)
        BY <1>5
      <3>3. PathOfLength(merges, v, e.target, k + 1)
        BY <1>4, <3>1, <3>2, ExtendPath
      <3> QED
        BY <3>2, <3>3
    <2> QED
      BY <1>3, <2>1, <2>2
  <1>8. JustAsked(q)' /\ AnswerFounded(q)'
    BY <1>1 DEF JustAsked, AnswerFounded
  <1> QED
    BY <1>6, <1>7, <1>8 DEF ReaderInv

\* The other steps of a reader move it on without moving it along the lineage.
LEMMA ResolveKeepsReader ==
  ASSUME ResolutionTypeOK, TypeOK, EndpointsStored, NEW q \in Readers, ReaderInv(q), Resolve(q)
  PROVE  ReaderInv(q)'
  <1> USE DEF ReaderInv, JustAsked, OnAPath, VisitedBehind, AnswerFounded, Walked
  <1>1. CASE Request(q)
    BY <1>1 DEF Request, ResolutionTypeOK, Answers
  <1>2. CASE LoadRequested(q)
    <2>1. stage[q] = "load_requested" /\ UNCHANGED <<merges, requested>>
          /\ UNCHANGED <<current, immediate, depth, visited>>
          /\ stage'[q] = IF requested[q] \in Resources THEN "walk" ELSE "not_found"
      BY <1>2 DEF LoadRequested, Goto, vars, ResolutionTypeOK
    <2>2. PathOfLength(merges, requested[q], requested[q], 0)
      BY <2>1, EmptyPath
    <2> QED
      BY <2>1, <2>2
  <1>3. CASE CycleFound(q) \/ LoadCanonical(q)
    <2>1. UNCHANGED <<merges, requested, current, immediate, depth, visited>>
      BY <1>3 DEF CycleFound, LoadCanonical, Goto, vars
    <2>2. \/ stage[q] = "walk" /\ stage'[q] = "cycle" /\ current[q] \in visited[q]
          \/ stage[q] = "load_canonical" /\ current[q] \in Resources /\ stage'[q] = "resolved"
      BY <1>3 DEF CycleFound, LoadCanonical, Goto, ResolutionTypeOK
    <2> QED
      BY <2>1, <2>2
  <1>4. CASE ReachTerminal(q) \/ TooDeep(q)
    <2>1. UNCHANGED <<merges, requested, current, immediate, depth>> /\ stage[q] = "walk"
      BY <1>4 DEF ReachTerminal, TooDeep, Look, Goto, vars
    <2>2. \/ stage'[q] = "load_canonical"
          \/ /\ stage'[q] = "too_deep" /\ depth[q] = MaxDepth
             /\ OutgoingMerge(merges, current[q]) # {}
      BY <1>4 DEF ReachTerminal, TooDeep, Goto, ResolutionTypeOK
    <2> QED
      BY <2>1, <2>2
  <1>5. CASE FollowEdge(q)
    BY <1>5, FollowKeepsReader
  <1> QED
    BY <1>1, <1>2, <1>3, <1>4, <1>5 DEF Resolve

\* A reader's step does not touch another reader.
LEMMA OtherReadersUntouched ==
  ASSUME ResolutionTypeOK, NEW q \in Readers, Resolve(q), NEW p \in Readers, p # q, ReaderInv(p)
  PROVE  /\ ReaderInv(p)'
         /\ stage'[p] = stage[p]
  <1>1. /\ stage'[p] = stage[p] /\ requested'[p] = requested[p] /\ current'[p] = current[p]
        /\ immediate'[p] = immediate[p] /\ depth'[p] = depth[p] /\ visited'[p] = visited[p]
        /\ UNCHANGED merges
    BY DEF Resolve, Request, LoadRequested, CycleFound, ReachTerminal, TooDeep, FollowEdge,
           LoadCanonical, Look, Goto, vars, ResolutionTypeOK
  <1> QED
    BY <1>1 DEF ReaderInv, JustAsked, OnAPath, VisitedBehind, AnswerFounded

LEMMA NextResolutionInv ==
  ASSUME ResolutionInv, [ResolutionNext]_resolutionVars
  PROVE  ResolutionInv'
  <1>1. [Next]_vars
    BY ResolutionOnlyReads
  <1>2. TypeOK' /\ LocksTaken' /\ EndpointsStored'
    BY <1>1, StepTypeOK, StepLocksTaken, StepEndpointsStored DEF ResolutionInv
  <1>3. CASE UNCHANGED readerVars
    <2>1. merges \subseteq merges'
      BY <1>1, CommitOnlyAdds
    <2>2. ResolutionTypeOK'
      BY <1>3 DEF ResolutionInv, ResolutionTypeOK, readerVars
    <2> QED
      BY <1>2, <1>3, <2>1, <2>2, MergeKeepsReader DEF ResolutionInv
  <1>4. ASSUME NEW q \in Readers, Resolve(q)
        PROVE  ResolutionInv'
    <2>1. ResolutionTypeOK'
      BY <1>4, ResolveKeepsTypes DEF ResolutionInv
    <2>2. ReaderInv(q)'
      BY <1>4, ResolveKeepsReader DEF ResolutionInv
    <2>3. \A p \in Readers \ {q} : ReaderInv(p)'
      BY <1>4, OtherReadersUntouched DEF ResolutionInv
    <2> QED
      BY <1>2, <2>1, <2>2, <2>3 DEF ResolutionInv
  <1> QED
    BY <1>3, <1>4 DEF ResolutionNext, resolutionVars

LEMMA ResolutionInvariant == ResolutionSpec => []ResolutionInv
  <1>1. ResolutionInv /\ [ResolutionNext]_resolutionVars => ResolutionInv'
    BY NextResolutionInv
  <1> QED
    BY <1>1, InitResolutionInv, PTL DEF ResolutionSpec

\* Every variable of a resolution keeps its type; merge_depth never exceeds the bound.
THEOREM ResolutionTyped == ResolutionSpec => []ResolutionTypeOK
  <1>1. ResolutionInv => ResolutionTypeOK
    BY DEF ResolutionInv
  <1> QED
    BY <1>1, ResolutionInvariant, PTL

\* No error of a resolution is a false alarm, whatever merges commit beside it: there is
\* a cycle where one is reported, more edges than the bound where the lineage is reported
\* too deep, and the terminal resource is always found.
THEOREM NoFalseAlarm == ResolutionSpec => []ErrorsAreJustified
  <1>1. ResolutionInv => ErrorsAreJustified
    BY DEF ResolutionInv, ReaderInv, OnAPath, VisitedBehind, AnswerFounded, Walked,
           ErrorsAreJustified
  <1> QED
    BY <1>1, ResolutionInvariant, PTL

\* A resolution answers what was true of the committed rows at its last look-up, although
\* it read the edges on the way one statement at a time.
THEOREM Linearizable == ResolutionSpec => ResolutionIsLinearizable
  <1> DEFINE AnswersNow ==
        \A q \in Readers :
          stage[q] = "walk" /\ stage'[q] = "load_canonical" =>
            /\ PathOfLength(merges, requested[q], current'[q], depth'[q])
            /\ \A r \in Ids : ~Linked(merges, current'[q], r)
            /\ IF depth'[q] = 0 THEN immediate'[q] = 0
                                ELSE Linked(merges, requested[q], immediate'[q])
  <1>1. ResolutionInv /\ [ResolutionNext]_resolutionVars => [AnswersNow]_resolutionVars
    <2> SUFFICES ASSUME ResolutionInv, [ResolutionNext]_resolutionVars, NEW q \in Readers,
                        stage[q] = "walk", stage'[q] = "load_canonical"
                 PROVE  /\ PathOfLength(merges, requested[q], current'[q], depth'[q])
                        /\ \A r \in Ids : ~Linked(merges, current'[q], r)
                        /\ IF depth'[q] = 0 THEN immediate'[q] = 0
                                            ELSE Linked(merges, requested[q], immediate'[q])
      OBVIOUS
    <2>1. Resolve(q)
      <3>1. PICK p \in Readers : Resolve(p)
        BY DEF ResolutionNext, resolutionVars, readerVars
      <3>2. p = q
        BY <3>1, OtherReadersUntouched DEF ResolutionInv
      <3> QED
        BY <3>1, <3>2
    <2>2. ReachTerminal(q)
      BY <2>1 DEF Resolve, Request, LoadRequested, CycleFound, TooDeep, FollowEdge,
                  LoadCanonical, Goto, ResolutionInv, ResolutionTypeOK
    <2>3. OutgoingMerge(merges, current[q]) = {} /\ UNCHANGED <<current, immediate, depth>>
      BY <2>2 DEF ReachTerminal
    <2>4. OnAPath(q)
      BY DEF ResolutionInv, ReaderInv
    <2>5. \A r \in Ids : ~Linked(merges, current[q], r)
      BY <2>3 DEF OutgoingMerge, Linked
    <2> QED
      BY <2>3, <2>4, <2>5 DEF OnAPath, Walked
  <1>2. ResolutionSpec => [][AnswersNow]_resolutionVars
    BY <1>1, ResolutionInvariant, PTL DEF ResolutionSpec
  <1> QED
    BY <1>2 DEF ResolutionIsLinearizable
-----------------------------------------------------------------------------
(***************************************************************************)
(* When the trigger's bound covers the tenant                              *)
(***************************************************************************)

\* Where every resource of a set has a merge into the set, one can go on for any number of
\* edges.
LEMMA EndlessWalk ==
  ASSUME NEW E, NEW S, S # {}, \A a \in S : \E b \in S : Linked(E, a, b), NEW n \in Nat
  PROVE  \E p \in [0..n -> S] : \A i \in 0..(n - 1) : Linked(E, p[i], p[i + 1])
  <1> DEFINE Goes(k) == \E p \in [0..k -> S] : \A i \in 0..(k - 1) : Linked(E, p[i], p[i + 1])
             Stuck == {k \in Nat : ~Goes(k)}
  <1> SUFFICES ASSUME Stuck # {}
               PROVE  FALSE
    OBVIOUS
  <1>1. PICK k \in Stuck : \A l \in Stuck : k <= l
    <2>1. Stuck \subseteq Nat
      OBVIOUS
    <2> HIDE DEF Stuck
    <2> QED
      BY <2>1, LeastNat
  <1>2. k # 0
    <2>1. PICK a \in S : TRUE
      OBVIOUS
    <2>2. [i \in 0..0 |-> a] \in [0..0 -> S] /\ 0..(0 - 1) = {}
      OBVIOUS
    <2>3. Goes(0)
      BY <2>2
    <2> HIDE DEF Goes
    <2> QED
      BY <2>3
  <1>3. k - 1 \in Nat /\ ~(k <= k - 1)
    BY <1>2
  <1>4. Goes(k - 1)
    <2> HIDE DEF Goes
    <2> QED
      BY <1>1, <1>3
  <1>5. PICK p \in [0..(k - 1) -> S] :
          \A i \in 0..((k - 1) - 1) : Linked(E, p[i], p[i + 1])
    BY <1>4
  <1>6. PICK b \in S : Linked(E, p[k - 1], b)
    BY <1>3
  <1> DEFINE longer == [i \in 0..k |-> IF i = k THEN b ELSE p[i]]
  <1>7. longer \in [0..k -> S]
    BY <1>3, <1>6
  <1>8. ASSUME NEW i \in 0..(k - 1)
        PROVE  Linked(E, longer[i], longer[i + 1])
    <2>1. CASE i = k - 1
      BY <1>6, <2>1
    <2>2. CASE i # k - 1
      <3>1. i \in 0..((k - 1) - 1) /\ longer[i] = p[i] /\ longer[i + 1] = p[i + 1]
        BY <2>2
      <3> QED
        BY <1>5, <3>1
    <2> QED
      BY <2>1, <2>2
  <1> HIDE DEF longer
  <1>9. Goes(k)
    BY <1>7, <1>8
  <1> HIDE DEF Goes
  <1> QED
    BY <1>1, <1>9

\* Among more positions than resources one resource comes twice: a cycle with no more edges
\* than the set has members.
LEMMA SmallSetShortCycle ==
  ASSUME NEW E, NEW S, S \subseteq Ids, S # {}, IsFiniteSet(S),
         \A a \in S : \E b \in S : Linked(E, a, b)
  PROVE  \E r \in Ids, k \in 1..Cardinality(S) : PathOfLength(E, r, r, k)
  <1> DEFINE n == Cardinality(S)
  <1>1. n \in Nat
    BY FS_CardinalityType
  <1>2. PICK p \in [0..n -> S] : \A i \in 0..(n - 1) : Linked(E, p[i], p[i + 1])
    BY <1>1, EndlessWalk
  <1>3. IsFiniteSet(0..n) /\ n < Cardinality(0..n)
    <2>1. IsFiniteSet(0..n) /\ Cardinality(0..n) = IF 0 > n THEN 0 ELSE n - 0 + 1
      BY <1>1, FS_Interval
    <2> QED
      BY <1>1, <2>1
  <1> HIDE DEF n
  <1>4. \E x, y \in 0..n : x # y /\ p[x] = p[y]
    BY <1>2, <1>3, FS_PigeonHole DEF n
  <1>5. PICK i \in 0..n, j \in 0..n : i < j /\ p[i] = p[j]
    <2>1. PICK x \in 0..n, y \in 0..n : x # y /\ p[x] = p[y]
      BY <1>4
    <2>2. x < y \/ y < x
      BY <2>1
    <2> QED
      BY <2>1, <2>2
  <1> DEFINE k == j - i
             round == [h \in 0..k |-> p[i + h]]
  <1>6. k \in 1..n /\ i + k = j /\ \A h \in 0..k : i + h \in 0..n
    BY <1>1, <1>5
  <1>7. round \in [0..k -> Ids] /\ round[0] = p[i] /\ round[k] = p[i] /\ p[i] \in Ids
    <2>1. \A h \in 0..n : p[h] \in Ids
      BY <1>2
    <2>2. round \in [0..k -> Ids]
      BY <1>6, <2>1
    <2>3. 0 \in 0..k /\ k \in 0..k /\ i + 0 = i
      BY <1>1, <1>6
    <2> QED
      BY <1>5, <1>6, <2>1, <2>2, <2>3
  <1>8. ASSUME NEW h \in 0..(k - 1)
        PROVE  Linked(E, round[h], round[h + 1])
    <2>1. h \in 0..k /\ h + 1 \in 0..k /\ i + (h + 1) = (i + h) + 1 /\ i + h \in 0..(n - 1)
      BY <1>1, <1>5, <1>6
    <2>2. round[h] = p[i + h] /\ round[h + 1] = p[(i + h) + 1]
      BY <2>1
    <2> QED
      BY <1>2, <2>1, <2>2
  <1> HIDE DEF k, round
  <1>9. PathOfLength(E, p[i], p[i], k)
    BY <1>7, <1>8 DEF PathOfLength
  <1> QED
    BY <1>6, <1>7, <1>9 DEF n

\* Merge rows name stored resources, for any number of overlapping requests.
LEMMA EndpointsAreStored == Spec => [](TypeOK /\ LocksTaken /\ EndpointsStored)
  <1>1. Init => TypeOK /\ LocksTaken /\ EndpointsStored
    BY InitTypeOK, InitLocksTaken DEF Init, EndpointsStored
  <1>2. TypeOK /\ LocksTaken /\ EndpointsStored /\ [Next]_vars
          => (TypeOK /\ LocksTaken /\ EndpointsStored)'
    BY StepTypeOK, StepLocksTaken, StepEndpointsStored
  <1> QED
    BY <1>1, <1>2, PTL DEF Spec

\* Where the documented promise holds: in a tenant with no more resources than the trigger's
\* bound, whose merge requests do not overlap, the lineage has no cycle of any length.  (The
\* run that violates Acyclic lets requests overlap.)
THEOREM SmallTenantAcyclic ==
  ASSUME \A v, w \in Writers : v = w,
         IsFiniteSet(Resources), Cardinality(Resources) <= TriggerDepth
  PROVE  Spec => []Acyclic
  <1>1. EndpointsStored /\ CyclesExceedBound => Acyclic
    <2> SUFFICES ASSUME EndpointsStored, CyclesExceedBound, NEW S \in (SUBSET Ids) \ {{}},
                        \A a \in S : \E b \in S : Linked(merges, a, b)
                 PROVE  FALSE
      BY DEF Acyclic
    <2>1. S \subseteq Resources
      <3> SUFFICES ASSUME NEW a \in S
                   PROVE  a \in Resources
        OBVIOUS
      <3>1. PICK b \in S : [source |-> a, target |-> b] \in merges
        BY DEF Linked
      <3> QED
        BY <3>1 DEF EndpointsStored
    <2>2. IsFiniteSet(S) /\ Cardinality(S) <= Cardinality(Resources)
      BY <2>1, FS_Subset
    <2>3. PICK r \in Ids, k \in 1..Cardinality(S) : PathOfLength(merges, r, r, k)
      BY <2>2, SmallSetShortCycle
    <2>4. k \in 1..TriggerDepth
      <3>1. Cardinality(S) \in Nat /\ Cardinality(Resources) \in Nat
        BY <2>2, FS_CardinalityType
      <3> QED
        BY <2>2, <3>1, MergeConstants
    <2> QED
      BY <2>3, <2>4 DEF CyclesExceedBound
  <1> QED
    BY <1>1, CyclesAreLong, EndpointsAreStored, PTL
=============================================================================
