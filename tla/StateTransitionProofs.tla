----------------------- MODULE StateTransitionProofs ------------------------
(***************************************************************************)
(* Proofs about StateTransition for every value of its constants.          *)
(***************************************************************************)
EXTENDS StateTransition, TLAPS

(***************************************************************************)
(* The inductive invariant.  A writer past the lock holds the row of its   *)
(* resource, so what it read there is still committed.                     *)
(***************************************************************************)
LockHeld ==
  \A w \in Writers :
    phase[w] \notin {"idle", "lock"} =>
      command[w].id \in Resources /\ lock[command[w].id] = w

StateInv ==
  /\ TypeOK
  /\ LockHeld
  /\ ReadsStayCurrent
  /\ IntervalsTile
  /\ SnapshotIsCurrentState

-----------------------------------------------------------------------------
(***************************************************************************)
(* Rounding to the column's unit leaves stored scores alone.               *)
(***************************************************************************)
LEMMA RoundingMultiple ==
  ASSUME NEW k \in Nat, NEW g \in Nat \ {0}
  PROVE  (2 * (k * g) + g) \div (2 * g) = k
<1>1. SUFFICES ASSUME NEW d, d = 2 * g, NEW n, n = d * k + g
               PROVE  n \div d = k
  BY SMT
<1> QED
  BY <1>1, SMT

LEMMA StoredIsRounded ==
  ASSUME NEW s \in StoredScores
  PROVE  Rounded(s) = s
<1>1. PICK t \in Scores : s = Rounded(t)
  BY DEF StoredScores
<1> DEFINE k == (2 * t + Grain) \div (2 * Grain)
<1>2. t \in Nat /\ Grain \in Nat \ {0}
  BY TransitionConstants
<1>3. k \in Nat
  BY <1>2, SMT
<1>4. s = k * Grain
  BY <1>1 DEF Rounded
<1>5. (2 * (k * Grain) + Grain) \div (2 * Grain) = k
  BY <1>2, <1>3, RoundingMultiple
<1> QED
  BY <1>4, <1>5 DEF Rounded

(***************************************************************************)
(* The current row of a tiled history is its last one.                     *)
(***************************************************************************)
LEMMA OpenIsLast ==
  ASSUME TypeOK, IntervalsTile, NEW r \in Resources
  PROVE  /\ history[r] \in Seq(StateRow)
         /\ Len(history[r]) \in Nat
         /\ CurrentRow(r) = Len(history[r])
         /\ OpenRows(r) \ {Len(history[r])} = {}
<1> DEFINE h == history[r]
<1>1. h \in Seq(StateRow) /\ Len(h) \in Nat /\ DOMAIN h = 1..Len(h)
  BY DEF TypeOK
<1>2. MaxTime \in Nat
  BY TransitionConstants
<1>3. ASSUME NEW i \in DOMAIN h, i # Len(h)
      PROVE  h[i].to # Open
  <2>1. i + 1 \in DOMAIN h
    BY <1>1, <1>3
  <2>2. h[i + 1] \in StateRow
    BY <1>1, <2>1
  <2>3. h[i].to = h[i + 1].from
    BY <1>3 DEF IntervalsTile
  <2> QED
    BY <1>2, <2>2, <2>3 DEF Open, StateRow
<1>4. Len(h) > 0 => Len(h) \in DOMAIN h /\ h[Len(h)].to = Open
  BY <1>1 DEF IntervalsTile
<1>5. OpenRows(r) = IF Len(h) = 0 THEN {} ELSE {Len(h)}
  BY <1>1, <1>3, <1>4 DEF OpenRows
<1>6. CurrentRow(r) = Len(h)
  BY <1>1, <1>5 DEF CurrentRow
<1> QED
  BY <1>1, <1>5, <1>6

\* What Append, and what replacing one element, leave at each position.
LEMMA Appended ==
  ASSUME NEW S, NEW line \in Seq(S), NEW e \in S
  PROVE  /\ Len(Append(line, e)) = Len(line) + 1
         /\ DOMAIN Append(line, e) = 1..(Len(line) + 1)
         /\ \A i \in 1..Len(line) : Append(line, e)[i] = line[i]
         /\ Append(line, e)[Len(line) + 1] = e
         /\ Append(line, e) = [i \in 1..(Len(line) + 1) |-> Append(line, e)[i]]
<1>1. Len(line) \in Nat
  OBVIOUS
<1>2. Append(line, e) \in Seq(S) /\ Len(Append(line, e)) = Len(line) + 1
  OBVIOUS
<1>3. Append(line, e) \in [1..(Len(line) + 1) -> S]
  <2>1. ASSUME NEW s \in Seq(S)
        PROVE  s \in [1..Len(s) -> S]
    OBVIOUS
  <2>2. Append(line, e) \in [1..Len(Append(line, e)) -> S]
    BY <1>2, <2>1, Zenon
  <2> QED
    BY <1>2, <2>2, Zenon
<1>4. /\ \A i \in 1..Len(line) : Append(line, e)[i] = line[i]
      /\ Append(line, e)[Len(line) + 1] = e
  OBVIOUS
<1>5. Append(line, e) = [i \in 1..(Len(line) + 1) |-> Append(line, e)[i]]
  BY <1>3, Zenon
<1> QED
  BY <1>2, <1>3, <1>4, <1>5, Zenon

LEMMA Replaced ==
  ASSUME NEW S, NEW line \in Seq(S), NEW k \in 1..Len(line), NEW e \in S
  PROVE  /\ [line EXCEPT ![k] = e] \in Seq(S)
         /\ Len([line EXCEPT ![k] = e]) = Len(line)
         /\ \A i \in 1..Len(line) \ {k} : [line EXCEPT ![k] = e][i] = line[i]
         /\ [line EXCEPT ![k] = e][k] = e
  OBVIOUS

(***************************************************************************)
(* What a commit does to the rows of the resource, and to no other.        *)
(***************************************************************************)
LEMMA CommittedRows ==
  ASSUME StateInv, NEW w \in Writers, phase[w] = "commit", Store(w)
  PROVE  LET c == command[w]
             r == c.id
             n == Len(history[r])
         IN /\ c \in Commands /\ r \in Resources /\ n \in Nat
            /\ history' \in [Resources -> Seq(StateRow)]
            /\ Len(history'[r]) = n + 1
            /\ \A i \in 1..(n - 1) : history'[r][i] = history[r][i]
            /\ n > 0 => /\ history'[r][n] = [history[r][n] EXCEPT !.to = c.at]
                        /\ history[r][n].from < c.at
                        /\ history[r][n].to = Open
            /\ history'[r][n + 1] = Successor(c)
            /\ \A s \in Resources \ {r} : history'[s] = history[s]
<1> DEFINE c == command[w]
           r == c.id
           h == history[r]
           n == Len(h)
<1>1. c \in Commands
  BY DEF StateInv, TypeOK
<1>2. r \in Resources
  BY DEF StateInv, LockHeld
<1>3. h \in Seq(StateRow) /\ n \in Nat /\ CurrentRow(r) = n
  BY <1>2, OpenIsLast DEF StateInv
<1>4. current[w] = n /\ ConstraintsAccept(w)
  BY <1>3 DEF StateInv, ReadsStayCurrent
<1>5. c.at \in 1..MaxTime /\ MaxTime \in Nat
  BY <1>1, TransitionConstants DEF Commands
<1>6. n > 0 => h[n].from < c.at /\ h[n] \in StateRow /\ h[n].to = Open
  <2>1. n > 0 => n \in DOMAIN h /\ h[n] \in StateRow
    BY <1>3
  <2>2. n > 0 => h[n].to = Open
    BY <1>2, <2>1 DEF StateInv, IntervalsTile
  <2>3. n > 0 => h[n].from \in Int
    BY <1>5, <2>1 DEF StateRow
  <2> QED
    BY <1>3, <1>4, <1>5, <2>1, <2>2, <2>3 DEF ConstraintsAccept
<1>7. Successor(c) \in StateRow
  BY <1>1, <1>5 DEF Successor, StateRow, Commands, StoredScores, Open
<1> DEFINE closed == Closed(h, n, c.at)
<1>8. /\ closed \in Seq(StateRow)
      /\ Len(closed) = n
      /\ \A i \in 1..(n - 1) : closed[i] = h[i]
      /\ n > 0 => closed[n] = [h[n] EXCEPT !.to = c.at]
  <2>1. CASE n = 0
    BY <1>3, <2>1 DEF Closed
  <2>2. CASE n > 0
    <3>1. closed = [h EXCEPT ![n] = [h[n] EXCEPT !.to = c.at]]
      BY <1>3, <2>2 DEF Closed
    <3>2. [h[n] EXCEPT !.to = c.at] \in StateRow
      BY <1>5, <1>6, <2>2 DEF StateRow, Open
    <3>3. h \in Seq(StateRow) /\ n = Len(h) /\ n \in 1..Len(h)
      BY <1>3, <2>2
    <3>4. 1..(n - 1) \subseteq 1..Len(h) \ {n}
      BY <1>3
    <3> HIDE DEF closed, h, n
    <3> QED
      BY <3>1, <3>2, <3>3, <3>4, Replaced
  <2>3. n = 0 \/ n > 0
    BY <1>3
  <2> QED
    BY <2>1, <2>2, <2>3
<1>9. history' = [history EXCEPT ![r] = Append(closed, Successor(c))]
  BY <1>4 DEF Store
<1>10. history \in [Resources -> Seq(StateRow)]
  BY DEF StateInv, TypeOK
<1>11. history'[r] = Append(closed, Successor(c))
  BY <1>2, <1>9, <1>10
<1>12. /\ Append(closed, Successor(c)) \in Seq(StateRow)
       /\ Len(Append(closed, Successor(c))) = n + 1
       /\ \A i \in 1..n : Append(closed, Successor(c))[i] = closed[i]
       /\ Append(closed, Successor(c))[n + 1] = Successor(c)
  <2> HIDE DEF closed, c
  <2> QED
    BY <1>3, <1>7, <1>8
<1>13. history' \in [Resources -> Seq(StateRow)]
  <2> HIDE DEF closed, c
  <2> QED
    BY <1>2, <1>9, <1>10, <1>12
<1>14. \A s \in Resources \ {r} : history'[s] = history[s]
  BY <1>2, <1>9, <1>10
<1>15. \A i \in 1..(n - 1) : history'[r][i] = h[i]
  <2> HIDE DEF closed, c
  <2> QED
    BY <1>3, <1>8, <1>11, <1>12
<1>16. n > 0 => history'[r][n] = [h[n] EXCEPT !.to = c.at]
  <2> HIDE DEF closed, c
  <2> QED
    BY <1>3, <1>8, <1>11, <1>12
<1> QED
  BY <1>1, <1>2, <1>3, <1>6, <1>11, <1>12, <1>13, <1>14, <1>15, <1>16

-----------------------------------------------------------------------------
(***************************************************************************)
(* Leaving a transaction, and what it leaves alone.                        *)
(***************************************************************************)
LEMMA FinishEffect ==
  ASSUME TypeOK, NEW w \in Writers, NEW result \in Outcomes, Finish(w, result)
  PROVE  /\ phase' \in [Writers -> Phases]
         /\ command' \in [Writers -> {<<>>} \union Commands]
         /\ loaded' \in [Writers -> {<<>>} \union ResourceRow]
         /\ current' \in [Writers -> Nat]
         /\ lock' \in [Resources -> Writers \union {NoOne}]
         /\ outcome' \in [Writers -> Outcomes]
         /\ phase'[w] = "idle" /\ loaded'[w] = <<>> /\ current'[w] = 0
         /\ \A v \in Writers \ {w} :
              /\ phase'[v] = phase[v] /\ command'[v] = command[v]
              /\ loaded'[v] = loaded[v] /\ current'[v] = current[v]
              /\ \A r \in Resources : lock[r] = v => lock'[r] = v
BY DEF TypeOK, Finish, Release, Phases

\* A writer whose resource and own variables a step leaves alone keeps what it read.
LEMMA ReadsKept ==
  ASSUME ReadsStayCurrent, NEW v \in Writers,
         phase'[v] = phase[v], command'[v] = command[v],
         loaded'[v] = loaded[v], current'[v] = current[v],
         phase[v] \notin {"idle", "lock"} =>
           /\ resource'[command[v].id] = resource[command[v].id]
           /\ history'[command[v].id] = history[command[v].id]
  PROVE  /\ phase'[v] \notin {"idle", "lock"} => loaded'[v] = resource'[command'[v].id]
         /\ phase'[v] \in {"flush", "commit"} =>
              current'[v] = CurrentRow(command[v].id)' /\ ConstraintsAccept(v)'
<1>1. CASE phase[v] \in {"idle", "lock"}
  BY <1>1
<1>2. CASE phase[v] \notin {"idle", "lock"}
  <2>1. OpenRows(command[v].id)' = OpenRows(command[v].id)
    BY <1>2 DEF OpenRows
  <2>2. CurrentRow(command[v].id)' = CurrentRow(command[v].id)
    BY <2>1 DEF CurrentRow
  <2>3. SnapshotDirty(v)' = SnapshotDirty(v)
    BY DEF SnapshotDirty
  <2>4. ConstraintsAccept(v)' = ConstraintsAccept(v)
    BY <1>2, <2>1, <2>3 DEF ConstraintsAccept
  <2> QED
    BY <1>2, <2>2, <2>4 DEF ReadsStayCurrent
<1> QED
  BY <1>1, <1>2

LEMMA FailKeeps ==
  ASSUME StateInv, NEW w \in Writers, NEW result \in Outcomes, Fail(w, result)
  PROVE  StateInv'
<1> USE DEF StateInv, Fail
<1>1. TypeOK'
  <2>1. resource' \in [Resources -> ResourceRow] /\ history' \in [Resources -> Seq(StateRow)]
    BY DEF TypeOK
  <2>2. active' \subseteq Statuses
    BY DEF TypeOK, Finish
  <2>3. /\ phase' \in [Writers -> Phases]
        /\ command' \in [Writers -> {<<>>} \union Commands]
        /\ loaded' \in [Writers -> {<<>>} \union ResourceRow]
        /\ current' \in [Writers -> Nat]
        /\ lock' \in [Resources -> Writers \union {NoOne}]
        /\ outcome' \in [Writers -> Outcomes]
    BY FinishEffect
  <2>4. \A v \in Writers :
          /\ phase'[v] # "idle" => command'[v] \in Commands
          /\ IF phase'[v] \in {"idle", "lock"} THEN loaded'[v] = <<>>
                                              ELSE loaded'[v] \in ResourceRow
          /\ phase'[v] \notin {"flush", "commit"} => current'[v] = 0
    BY FinishEffect DEF TypeOK
  <2> QED
    BY <2>1, <2>2, <2>3, <2>4 DEF TypeOK
<1>2. LockHeld'
  BY FinishEffect DEF LockHeld
<1>3. ReadsStayCurrent'
  <2> SUFFICES ASSUME NEW v \in Writers
               PROVE  /\ phase'[v] \notin {"idle", "lock"} =>
                           loaded'[v] = resource'[command'[v].id]
                      /\ phase'[v] \in {"flush", "commit"} =>
                           current'[v] = CurrentRow(command[v].id)' /\ ConstraintsAccept(v)'
    BY DEF ReadsStayCurrent
  <2>1. CASE v = w
    BY <2>1, FinishEffect
  <2>2. CASE v # w
    BY <2>2, FinishEffect, ReadsKept
  <2> QED
    BY <2>1, <2>2
<1>4. IntervalsTile' /\ SnapshotIsCurrentState'
  BY DEF IntervalsTile, SnapshotIsCurrentState
<1> QED
  BY <1>1, <1>2, <1>3, <1>4

(***************************************************************************)
(* COMMIT.                                                                 *)
(***************************************************************************)
LEMMA CommittedSnapshot ==
  ASSUME StateInv, NEW w \in Writers, phase[w] = "commit", Store(w)
  PROVE  LET c == command[w] IN
           /\ resource' \in [Resources -> ResourceRow]
           /\ resource'[c.id].status = c.status
           /\ resource'[c.id].score = Rounded(c.score)
           /\ resource'[c.id] # resource[c.id] =>
                resource'[c.id].version = resource[c.id].version + 1
           /\ \A s \in Resources \ {c.id} : resource'[s] = resource[s]
<1> DEFINE c == command[w]
<1>1. c \in Commands /\ loaded[w] \in ResourceRow
  BY DEF StateInv, TypeOK
<1>2. c.id \in Resources /\ loaded[w] = resource[c.id]
  BY DEF StateInv, LockHeld, ReadsStayCurrent
<1>3. c.status \in Statuses /\ c.score \in Scores /\ Rounded(c.score) \in StoredScores
  BY <1>1 DEF Commands, StoredScores
<1>4. /\ Snapshot(w) \in ResourceRow
      /\ Snapshot(w).status = c.status
      /\ Snapshot(w).score = Rounded(c.score)
      /\ Snapshot(w) # loaded[w] => Snapshot(w).version = loaded[w].version + 1
  <2>1. CASE SnapshotDirty(w)
    <3>1. loaded[w].version + 1 \in Nat \ {0}
      BY <1>1 DEF ResourceRow
    <3> QED
      BY <1>3, <2>1, <3>1 DEF Snapshot, ResourceRow
  <2>2. CASE ~SnapshotDirty(w)
    <3>1. Snapshot(w) = loaded[w]
      BY <2>2 DEF Snapshot
    <3>2. loaded[w].status = c.status /\ loaded[w].score = c.score
      BY <2>2 DEF SnapshotDirty
    <3>3. loaded[w].score \in StoredScores
      BY <1>1 DEF ResourceRow
    <3> QED
      BY <1>1, <3>1, <3>2, <3>3, StoredIsRounded
  <2> QED
    BY <2>1, <2>2
<1>5. resource \in [Resources -> ResourceRow]
  BY DEF StateInv, TypeOK
<1>6. resource' = [resource EXCEPT ![c.id] = Snapshot(w)]
  BY DEF Store
<1> QED
  BY <1>2, <1>4, <1>5, <1>6

LEMMA CommitKeeps ==
  ASSUME StateInv, NEW w \in Writers, NEW result \in Outcomes,
         phase[w] = "commit", Store(w), Finish(w, result)
  PROVE  StateInv'
<1> DEFINE c == command[w]
           r == c.id
           n == Len(history[r])
<1> USE DEF StateInv
<1>1. /\ c \in Commands /\ r \in Resources /\ n \in Nat
      /\ history' \in [Resources -> Seq(StateRow)]
      /\ Len(history'[r]) = n + 1
      /\ \A i \in 1..(n - 1) : history'[r][i] = history[r][i]
      /\ n > 0 => /\ history'[r][n] = [history[r][n] EXCEPT !.to = c.at]
                  /\ history[r][n].from < c.at
      /\ history'[r][n + 1] = Successor(c)
      /\ \A s \in Resources \ {r} : history'[s] = history[s]
  BY CommittedRows
<1>2. /\ resource' \in [Resources -> ResourceRow]
      /\ resource'[r].status = c.status
      /\ resource'[r].score = Rounded(c.score)
      /\ \A s \in Resources \ {r} : resource'[s] = resource[s]
  BY CommittedSnapshot
<1>3. TypeOK'
  <2>1. active' \subseteq Statuses
    BY DEF TypeOK, Finish
  <2>2. /\ phase' \in [Writers -> Phases]
        /\ command' \in [Writers -> {<<>>} \union Commands]
        /\ loaded' \in [Writers -> {<<>>} \union ResourceRow]
        /\ current' \in [Writers -> Nat]
        /\ lock' \in [Resources -> Writers \union {NoOne}]
        /\ outcome' \in [Writers -> Outcomes]
    BY FinishEffect
  <2>3. \A v \in Writers :
          /\ phase'[v] # "idle" => command'[v] \in Commands
          /\ IF phase'[v] \in {"idle", "lock"} THEN loaded'[v] = <<>>
                                              ELSE loaded'[v] \in ResourceRow
          /\ phase'[v] \notin {"flush", "commit"} => current'[v] = 0
    BY FinishEffect DEF TypeOK
  <2> QED
    BY <1>1, <1>2, <2>1, <2>2, <2>3 DEF TypeOK
<1>4. LockHeld'
  <2> SUFFICES ASSUME NEW v \in Writers, phase'[v] \notin {"idle", "lock"}
               PROVE  command'[v].id \in Resources /\ lock'[command'[v].id] = v
    BY DEF LockHeld
  <2>1. v # w
    BY FinishEffect
  <2>2. /\ phase'[v] = phase[v] /\ command'[v] = command[v]
        /\ \A q \in Resources : lock[q] = v => lock'[q] = v
    BY <2>1, FinishEffect
  <2>3. command[v].id \in Resources /\ lock[command[v].id] = v
    BY <2>2 DEF LockHeld
  <2> QED
    BY <2>2, <2>3
<1>5. ReadsStayCurrent'
  <2> SUFFICES ASSUME NEW v \in Writers
               PROVE  /\ phase'[v] \notin {"idle", "lock"} =>
                           loaded'[v] = resource'[command'[v].id]
                      /\ phase'[v] \in {"flush", "commit"} =>
                           current'[v] = CurrentRow(command[v].id)' /\ ConstraintsAccept(v)'
    BY DEF ReadsStayCurrent
  <2>1. CASE v = w
    BY <2>1, FinishEffect
  <2>2. CASE v # w
    <3>1. phase[v] \notin {"idle", "lock"} => command[v].id \in Resources \ {r}
      BY <2>2 DEF LockHeld
    <3> QED
      BY <1>1, <1>2, <2>2, <3>1, FinishEffect, ReadsKept
  <2> QED
    BY <2>1, <2>2
<1>6. IntervalsTile'
  <2> SUFFICES ASSUME NEW s \in Resources, NEW i \in DOMAIN history'[s]
               PROVE  IF i = Len(history'[s]) THEN history'[s][i].to = Open
                      ELSE /\ history'[s][i].to = history'[s][i + 1].from
                           /\ history'[s][i].from < history'[s][i].to
    BY DEF IntervalsTile
  <2>1. CASE s # r
    BY <1>1, <2>1 DEF IntervalsTile
  <2>2. CASE s = r
    <3>1. Successor(c).from = c.at /\ Successor(c).to = Open
      BY DEF Successor
    <3>2. i \in 1..(n + 1)
      BY <1>1, <2>2
    <3>3. CASE i = n + 1
      BY <1>1, <2>2, <3>1, <3>3
    <3>4. CASE i = n
      <4>1. history[r] \in Seq(StateRow) /\ n \in DOMAIN history[r] /\ history[r][n] \in StateRow
        BY <1>1, <3>2, <3>4 DEF TypeOK
      <4>2. history'[r][n].from = history[r][n].from /\ history'[r][n].to = c.at
        <5>1. history'[r][n] = [history[r][n] EXCEPT !.to = c.at]
          BY <1>1, <3>2, <3>4
        <5> QED
          BY <4>1, <5>1 DEF StateRow
      <4>3. i # Len(history'[r]) /\ history'[r][i + 1] = Successor(c)
        BY <1>1, <3>4
      <4>4. n > 0 => history[r][n].from < c.at
        BY <1>1
      <4>5. n > 0
        BY <3>2, <3>4
      <4> QED
        BY <2>2, <3>1, <3>4, <4>2, <4>3, <4>4, <4>5
    <3>5. CASE i \in 1..(n - 1)
      <4>1. history[r] \in Seq(StateRow) /\ i \in DOMAIN history[r] /\ i # Len(history[r])
        BY <1>1, <3>5 DEF TypeOK
      <4>2. /\ history[r][i].to = history[r][i + 1].from
            /\ history[r][i].from < history[r][i].to
        BY <1>1, <4>1 DEF IntervalsTile
      <4>3. history'[r][i + 1].from = history[r][i + 1].from
        <5>1. CASE i + 1 = n
          <6>1. history[r][n] \in StateRow
            BY <1>1, <4>1, <5>1
          <6>2. history'[r][n] = [history[r][n] EXCEPT !.to = c.at]
            BY <1>1, <3>5
          <6>3. \A row \in StateRow : \A t : [row EXCEPT !.to = t].from = row.from
            BY DEF StateRow
          <6>4. [history[r][n] EXCEPT !.to = c.at].from = history[r][n].from
            BY <6>1, <6>3, Zenon
          <6>5. history'[r][n].from = history[r][n].from
            BY <6>2, <6>4, Zenon
          <6> QED
            BY <5>1, <6>5, Zenon
        <5>2. CASE i + 1 \in 1..(n - 1)
          BY <1>1, <5>2
        <5> QED
          BY <1>1, <3>5, <5>1, <5>2
      <4>4. history'[r][i] = history[r][i]
        BY <1>1, <3>5
      <4>5. i # Len(history'[r])
        BY <1>1, <3>5
      <4> QED
        BY <2>2, <4>2, <4>3, <4>4, <4>5
    <3> QED
      BY <1>1, <3>2, <3>3, <3>4, <3>5
  <2> QED
    BY <2>1, <2>2
<1>7. SnapshotIsCurrentState'
  <2> SUFFICES ASSUME NEW s \in Resources, history'[s] # <<>>
               PROVE  LET row == history'[s][Len(history'[s])] IN
                        resource'[s].status = row.status /\ resource'[s].score = row.score
    BY DEF SnapshotIsCurrentState
  <2>1. CASE s # r
    BY <1>1, <1>2, <2>1 DEF SnapshotIsCurrentState
  <2>2. CASE s = r
    BY <1>1, <1>2, <2>2 DEF Successor
  <2> QED
    BY <2>1, <2>2
<1> QED
  BY <1>3, <1>4, <1>5, <1>6, <1>7

(***************************************************************************)
(* Every step preserves the invariant.                                     *)
(***************************************************************************)
LEMMA InvInit == Init => StateInv
<1> SUFFICES ASSUME Init PROVE StateInv
  OBVIOUS
<1> USE DEF Init
<1>1. PICK migrated \in SUBSET Resources :
        history = [r \in Resources |->
                     IF r \in migrated THEN Backfilled(resource[r]) ELSE <<>>]
  OBVIOUS
<1>2. ASSUME NEW r \in Resources
      PROVE  /\ resource[r] \in ResourceRow
             /\ Backfilled(resource[r]) \in Seq(StateRow)
             /\ Len(Backfilled(resource[r])) = 1
             /\ Backfilled(resource[r])[1].to = Open
             /\ Backfilled(resource[r])[1].status = resource[r].status
             /\ Backfilled(resource[r])[1].score = resource[r].score
  BY <1>2, TransitionConstants DEF ResourceRow, Backfilled, StateRow, Open
<1>3. TypeOK
  BY <1>1, <1>2 DEF TypeOK, ResourceRow, Phases, Outcomes
<1>4. LockHeld /\ ReadsStayCurrent
  BY DEF LockHeld, ReadsStayCurrent
<1>5. \A r \in Resources : history[r] = <<>> \/ history[r] = Backfilled(resource[r])
  BY <1>1
<1>6. ASSUME NEW r \in Resources, history[r] # <<>>
      PROVE  /\ Len(history[r]) = 1 /\ DOMAIN history[r] = 1..1
             /\ history[r][1].to = Open
             /\ history[r][1].status = resource[r].status
             /\ history[r][1].score = resource[r].score
  <2>1. history[r] = Backfilled(resource[r])
    BY <1>5, <1>6
  <2>2. DOMAIN Backfilled(resource[r]) = 1..1
    BY DEF Backfilled
  <2> QED
    BY <1>2, <2>1, <2>2
<1>7. IntervalsTile
  <2> SUFFICES ASSUME NEW r \in Resources, NEW i \in DOMAIN history[r]
               PROVE  i = Len(history[r]) /\ history[r][i].to = Open
    BY DEF IntervalsTile
  <2>1. history[r] # <<>>
    <3>1. \A j : j \in DOMAIN history[r] => history[r] # <<>>
      BY <1>1, <1>5 DEF Backfilled
    <3> QED
      BY <3>1
  <2>2. i \in 1..1 /\ Len(history[r]) = 1 /\ history[r][1].to = Open
    BY <1>6, <2>1
  <2>3. i = 1
    BY <2>2
  <2> QED
    BY <2>2, <2>3
<1>8. SnapshotIsCurrentState
  BY <1>6 DEF SnapshotIsCurrentState
<1> QED
  BY <1>3, <1>4, <1>7, <1>8 DEF StateInv

LEMMA InvNext == StateInv /\ [Next]_vars => StateInv'
<1> SUFFICES ASSUME StateInv, [Next]_vars PROVE StateInv'
  OBVIOUS
<1>1. CASE Deactivate
  <2>1. TypeOK'
    BY <1>1 DEF Deactivate, StateInv, TypeOK, local
  <2>2. LockHeld' /\ IntervalsTile' /\ SnapshotIsCurrentState'
    BY <1>1 DEF Deactivate, StateInv, LockHeld, IntervalsTile, SnapshotIsCurrentState, local
  <2>3. ReadsStayCurrent'
    BY <1>1, ReadsKept DEF Deactivate, StateInv, ReadsStayCurrent, local
  <2> QED
    BY <2>1, <2>2, <2>3 DEF StateInv
<1>2. ASSUME NEW w \in Writers, Begin(w)
      PROVE  StateInv'
  <2> USE DEF StateInv, Begin, Advance
  <2>1. TypeOK'
    BY <1>2 DEF TypeOK, Phases, Outcomes
  <2>2. LockHeld' /\ IntervalsTile' /\ SnapshotIsCurrentState'
    BY <1>2 DEF LockHeld, IntervalsTile, SnapshotIsCurrentState, TypeOK
  <2>3. phase'[w] = "lock" /\ \A v \in Writers \ {w} :
          /\ phase'[v] = phase[v] /\ command'[v] = command[v]
          /\ loaded'[v] = loaded[v] /\ current'[v] = current[v]
    BY <1>2 DEF TypeOK
  <2>4. ReadsStayCurrent'
    BY <1>2, <2>3, ReadsKept DEF ReadsStayCurrent
  <2> QED
    BY <2>1, <2>2, <2>4
<1>3. ASSUME NEW w \in Writers, LockResource(w)
      PROVE  StateInv'
  <2> USE DEF StateInv, LockResource, Advance
  <2>1. TypeOK'
    BY <1>3 DEF TypeOK, Phases
  <2>2. IntervalsTile' /\ SnapshotIsCurrentState'
    BY <1>3 DEF IntervalsTile, SnapshotIsCurrentState
  <2>3. /\ phase'[w] = "catalogs" /\ loaded'[w] = resource[command[w].id]
        /\ \A v \in Writers \ {w} :
             /\ phase'[v] = phase[v] /\ command'[v] = command[v]
             /\ loaded'[v] = loaded[v] /\ current'[v] = current[v]
    BY <1>3 DEF TypeOK
  <2>4. ReadsStayCurrent'
    BY <1>3, <2>3, ReadsKept DEF ReadsStayCurrent
  <2>5. /\ command[w].id \in Resources /\ lock[command[w].id] = NoOne
        /\ command' = command /\ lock' = [lock EXCEPT ![command[w].id] = w]
    BY <1>3
  <2>6. lock \in [Resources -> Writers \union {NoOne}] /\ NoOne \notin Writers
    BY TransitionConstants DEF TypeOK
  <2>7. LockHeld'
    <3> SUFFICES ASSUME NEW v \in Writers, phase'[v] \notin {"idle", "lock"}
                 PROVE  command[v].id \in Resources /\ lock'[command[v].id] = v
      BY <2>5 DEF LockHeld
    <3>1. CASE v = w
      BY <2>5, <2>6, <3>1
    <3>2. CASE v # w
      <4>1. command[v].id \in Resources /\ lock[command[v].id] = v
        BY <2>3, <3>2 DEF LockHeld
      <4> QED
        BY <2>5, <2>6, <4>1
    <3> QED
      BY <3>1, <3>2
  <2> QED
    BY <2>1, <2>2, <2>4, <2>7
<1>4. ASSUME NEW w \in Writers, CatalogsActive(w)
      PROVE  StateInv'
  <2> USE DEF StateInv, CatalogsActive, Advance, local
  <2>1. TypeOK'
    BY <1>4 DEF TypeOK, Phases
  <2>2. LockHeld' /\ IntervalsTile' /\ SnapshotIsCurrentState'
    BY <1>4 DEF LockHeld, IntervalsTile, SnapshotIsCurrentState, TypeOK
  <2>3. /\ phase[w] = "catalogs" /\ phase'[w] = "read_current"
        /\ \A v \in Writers \ {w} : phase'[v] = phase[v]
    BY <1>4 DEF TypeOK
  <2>4. ReadsStayCurrent'
    BY <1>4, <2>3, ReadsKept DEF ReadsStayCurrent
  <2> QED
    BY <2>1, <2>2, <2>4
<1>5. ASSUME NEW w \in Writers, ReadCurrent(w)
      PROVE  StateInv'
  <2> USE DEF StateInv
  <2> DEFINE c == command[w]
             r == c.id
             n == Len(history[r])
  <2>1. /\ phase[w] = "read_current" /\ phase' = [phase EXCEPT ![w] = "flush"]
        /\ ~NotLater(c, CurrentRow(r))
        /\ current' = [current EXCEPT ![w] = CurrentRow(r)]
        /\ UNCHANGED <<resource, history, active, command, loaded, lock, outcome>>
    BY <1>5 DEF ReadCurrent, Advance
  <2>2. c \in Commands /\ r \in Resources
    BY <2>1 DEF TypeOK, LockHeld
  <2>3. /\ history[r] \in Seq(StateRow) /\ n \in Nat /\ CurrentRow(r) = n
        /\ OpenRows(r) \ {n} = {}
    BY <2>2, OpenIsLast
  <2>4. /\ phase'[w] = "flush" /\ current'[w] = n
        /\ \A v \in Writers \ {w} : phase'[v] = phase[v] /\ current'[v] = current[v]
    BY <2>1, <2>3 DEF TypeOK
  <2>5. TypeOK'
    BY <2>1, <2>3, <2>4 DEF TypeOK, Phases
  <2>6. LockHeld' /\ IntervalsTile' /\ SnapshotIsCurrentState'
    BY <2>1, <2>4 DEF LockHeld, IntervalsTile, SnapshotIsCurrentState
  <2>7. loaded[w] = resource[r]
    BY <2>1 DEF ReadsStayCurrent
  <2>8. n # 0 => c.at > history[r][n].from
    <3>1. c.at \in Int
      BY <2>2 DEF Commands
    <3>2. n # 0 => history[r][n] \in StateRow
      BY <2>3
    <3>3. n # 0 => history[r][n].from \in Int
      BY <3>2 DEF StateRow
    <3> QED
      BY <2>1, <2>3, <3>1, <3>3 DEF NotLater
  <2>9. ConstraintsAccept(w)'
    <3>1. OpenRows(r)' = OpenRows(r)
      BY <2>1 DEF OpenRows
    <3>2. current'[w] = n /\ command' = command /\ history' = history
          /\ resource' = resource /\ loaded' = loaded
      BY <2>1, <2>4
    <3> QED
      BY <2>3, <2>7, <2>8, <3>1, <3>2 DEF ConstraintsAccept
  <2>10. CurrentRow(command[w].id)' = n
    <3>1. OpenRows(r)' = OpenRows(r) /\ command' = command
      BY <2>1 DEF OpenRows
    <3> QED
      BY <2>3, <3>1 DEF CurrentRow
  <2>11. ReadsStayCurrent'
    <3> SUFFICES ASSUME NEW v \in Writers
                 PROVE  /\ phase'[v] \notin {"idle", "lock"} =>
                             loaded'[v] = resource'[command'[v].id]
                        /\ phase'[v] \in {"flush", "commit"} =>
                             current'[v] = CurrentRow(command[v].id)' /\ ConstraintsAccept(v)'
      BY DEF ReadsStayCurrent
    <3>1. CASE v = w
      BY <2>1, <2>4, <2>7, <2>9, <2>10, <3>1
    <3>2. CASE v # w
      BY <2>1, <2>4, <3>2, ReadsKept
    <3> QED
      BY <3>1, <3>2
  <2> QED
    BY <2>5, <2>6, <2>11
<1>6. ASSUME NEW w \in Writers, Flush(w)
      PROVE  StateInv'
  <2> USE DEF StateInv, Flush, Advance, local
  <2>1. TypeOK'
    BY <1>6 DEF TypeOK, Phases
  <2>2. LockHeld' /\ IntervalsTile' /\ SnapshotIsCurrentState'
    BY <1>6 DEF LockHeld, IntervalsTile, SnapshotIsCurrentState, TypeOK
  <2>3. /\ phase[w] = "flush" /\ phase'[w] = "commit"
        /\ \A v \in Writers \ {w} : phase'[v] = phase[v]
    BY <1>6 DEF TypeOK
  <2>4. OpenRows(command[w].id)' = OpenRows(command[w].id)
    BY <1>6 DEF OpenRows
  <2>5. CurrentRow(command[w].id)' = CurrentRow(command[w].id)
    BY <2>4 DEF CurrentRow
  <2>6. ConstraintsAccept(w)'
    BY <1>6, <2>4 DEF ConstraintsAccept, SnapshotDirty
  <2>7. ReadsStayCurrent'
    <3> SUFFICES ASSUME NEW v \in Writers
                 PROVE  /\ phase'[v] \notin {"idle", "lock"} =>
                             loaded'[v] = resource'[command'[v].id]
                        /\ phase'[v] \in {"flush", "commit"} =>
                             current'[v] = CurrentRow(command[v].id)' /\ ConstraintsAccept(v)'
      BY DEF ReadsStayCurrent
    <3>1. CASE v = w
      BY <1>6, <2>3, <2>5, <2>6, <3>1 DEF ReadsStayCurrent
    <3>2. CASE v # w
      BY <1>6, <2>3, <3>2, ReadsKept
    <3> QED
      BY <3>1, <3>2
  <2> QED
    BY <2>1, <2>2, <2>7
<1>7. ASSUME NEW w \in Writers, Commit(w) \/ CommitUnacknowledged(w)
      PROVE  StateInv'
  BY <1>7, CommitKeeps DEF Commit, CommitUnacknowledged, Outcomes
<1>8. ASSUME NEW w \in Writers,
             \/ ResourceMissing(w) \/ CatalogInactive(w) \/ TransitionNotLater(w)
             \/ TransitionUnchanged(w) \/ Lose(w)
      PROVE  StateInv'
  BY <1>8, FailKeeps
     DEF ResourceMissing, CatalogInactive, TransitionNotLater, TransitionUnchanged, Lose, Outcomes
<1>9. CASE UNCHANGED vars
  <2>1. LockHeld' /\ TypeOK' /\ IntervalsTile' /\ SnapshotIsCurrentState'
    BY <1>9 DEF vars, StateInv, LockHeld, TypeOK, IntervalsTile, SnapshotIsCurrentState
  <2>2. ReadsStayCurrent'
    BY <1>9, ReadsKept DEF vars, StateInv, ReadsStayCurrent
  <2> QED
    BY <2>1, <2>2 DEF StateInv
<1> QED
  BY <1>1, <1>2, <1>3, <1>4, <1>5, <1>6, <1>7, <1>8, <1>9 DEF Next

LEMMA Invariance == Spec => []StateInv
BY InvInit, InvNext, PTL DEF Spec

-----------------------------------------------------------------------------
(***************************************************************************)
(* Theorems                                                                *)
(***************************************************************************)
\* Every variable of the transition handler keeps its type, and a writer holds a
\* request, a loaded row and a current row only in the phases that have read them.
THEOREM TransitionsTyped == Spec => []TypeOK
BY Invariance, PTL DEF StateInv

\* The intervals of a resource's states tile, for any number of writers.
THEOREM TransitionsTile == Spec => []IntervalsTile
BY Invariance, PTL DEF StateInv

\* The snapshot on the resource row is its current state row, whatever overlaps.
THEOREM SnapshotFollows == Spec => []SnapshotIsCurrentState
BY Invariance, PTL DEF StateInv

\* What an accepted transition read is still committed when it writes, so no version
\* check or constraint of the database ever turns it down.
THEOREM TransitionReadsHold == Spec => []ReadsStayCurrent
BY Invariance, PTL DEF StateInv

(***************************************************************************)
(* A step either commits one writer's rows or leaves the rows alone.       *)
(***************************************************************************)
LEMMA StoreOrKeep ==
  ASSUME [Next]_vars
  PROVE  \/ \E w \in Writers : phase[w] = "commit" /\ Store(w)
         \/ UNCHANGED <<resource, history>>
BY DEF Next, vars, Deactivate, Begin, LockResource, ResourceMissing, Fail, CatalogsActive,
       CatalogInactive, ReadCurrent, TransitionNotLater, TransitionUnchanged, Flush, Commit,
       CommitUnacknowledged, Lose

KeepsHistory(r) ==
  /\ Len(history[r]) <= Len(history'[r]) /\ Len(history'[r]) <= Len(history[r]) + 1
  /\ \A i \in DOMAIN history[r] :
       \/ history'[r][i] = history[r][i]
       \/ /\ history[r][i].to = Open
          /\ history'[r][i] = [history[r][i] EXCEPT !.to = history'[r][i + 1].from]
  /\ resource'[r] # resource[r] => resource'[r].version = resource[r].version + 1

LEMMA StepKeepsHistory ==
  ASSUME StateInv, [Next]_vars
  PROVE  \A r \in Resources : KeepsHistory(r)
<1> SUFFICES ASSUME NEW s \in Resources
             PROVE  KeepsHistory(s)
  OBVIOUS
<1>1. history[s] \in Seq(StateRow) /\ Len(history[s]) \in Nat
      /\ DOMAIN history[s] = 1..Len(history[s])
  BY DEF StateInv, TypeOK
<1>2. CASE resource'[s] = resource[s] /\ history'[s] = history[s]
  BY <1>1, <1>2 DEF KeepsHistory
<1>3. ASSUME NEW w \in Writers, phase[w] = "commit", Store(w), command[w].id = s
      PROVE  KeepsHistory(s)
  <2> DEFINE c == command[w]
             n == Len(history[s])
  <2>1. /\ n \in Nat /\ Len(history'[s]) = n + 1
        /\ \A i \in 1..(n - 1) : history'[s][i] = history[s][i]
        /\ n > 0 => /\ history'[s][n] = [history[s][n] EXCEPT !.to = c.at]
                    /\ history[s][n].to = Open
        /\ history'[s][n + 1].from = c.at
    <3>1. /\ n \in Nat /\ Len(history'[s]) = n + 1
          /\ \A i \in 1..(n - 1) : history'[s][i] = history[s][i]
      BY <1>3, CommittedRows
    <3>2. n > 0 => /\ history'[s][n] = [history[s][n] EXCEPT !.to = c.at]
                   /\ history[s][n].to = Open
      BY <1>3, CommittedRows
    <3>3. history'[s][n + 1] = Successor(c)
      BY <1>3, CommittedRows
    <3> QED
      BY <3>1, <3>2, <3>3 DEF Successor
  <2>2. resource'[s] # resource[s] => resource'[s].version = resource[s].version + 1
    BY <1>3, CommittedSnapshot
  <2>3. ASSUME NEW i \in DOMAIN history[s]
        PROVE  \/ history'[s][i] = history[s][i]
               \/ /\ history[s][i].to = Open
                  /\ history'[s][i] = [history[s][i] EXCEPT !.to = history'[s][i + 1].from]
    <3>1. i \in 1..n
      BY <1>1
    <3>2. CASE i = n
      <4>1. n > 0
        BY <2>1, <3>1, <3>2
      <4>2. /\ history'[s][n] = [history[s][n] EXCEPT !.to = c.at]
            /\ history[s][n].to = Open
            /\ history'[s][n + 1].from = c.at
        BY <2>1, <4>1, Zenon
      <4> QED
        BY <3>2, <4>2, Zenon
    <3>3. CASE i # n
      <4>1. i \in 1..(n - 1)
        BY <2>1, <3>1, <3>3
      <4> QED
        BY <2>1, <4>1, Zenon
    <3> QED
      BY <3>2, <3>3
  <2> QED
    BY <2>1, <2>2, <2>3 DEF KeepsHistory
<1>4. ASSUME NEW w \in Writers, phase[w] = "commit", Store(w), command[w].id # s
      PROVE  resource'[s] = resource[s] /\ history'[s] = history[s]
  BY <1>4, CommittedRows, CommittedSnapshot
<1> QED
  BY <1>2, <1>3, <1>4, StoreOrKeep

\* State history is append-only but for the end of the current row, and the snapshot
\* changes only under a new record_version.
THEOREM HistoryPreserved == Spec => HistoryIsKept
<1>1. StateInv /\ [Next]_vars =>
        [\A r \in Resources :
           /\ Len(history[r]) <= Len(history'[r]) /\ Len(history'[r]) <= Len(history[r]) + 1
           /\ \A i \in DOMAIN history[r] :
                \/ history'[r][i] = history[r][i]
                \/ /\ history[r][i].to = Open
                   /\ history'[r][i] = [history[r][i] EXCEPT !.to = history'[r][i + 1].from]
           /\ resource'[r] # resource[r] => resource'[r].version = resource[r].version + 1]_vars
  BY StepKeepsHistory DEF KeepsHistory
<1> QED
  BY <1>1, Invariance, PTL DEF Spec, HistoryIsKept

(***************************************************************************)
(* The refinement.                                                         *)
(***************************************************************************)
Line(rows) ==
  [i \in 1..Len(rows) |->
     [state |-> [status |-> rows[i].status, score |-> rows[i].score], at |-> rows[i].from]]

Lines == [r \in Resources |-> Line(history[r])]

Shown == [r \in Resources |-> [status |-> resource[r].status, score |-> resource[r].score]]

Entry == [state : [status : Statuses, score : StoredScores], at : 0..MaxTime]

LEMMA LineTyped ==
  ASSUME NEW rows \in Seq(StateRow)
  PROVE  /\ Line(rows) \in Seq(Entry)
         /\ Len(Line(rows)) = Len(rows)
         /\ \A i \in 1..Len(rows) :
              Line(rows)[i] = [state |-> [status |-> rows[i].status, score |-> rows[i].score],
                               at |-> rows[i].from]
<1>1. Len(rows) \in Nat /\ \A i \in 1..Len(rows) : rows[i] \in StateRow
  OBVIOUS
<1>2. ASSUME NEW i \in 1..Len(rows)
      PROVE  [state |-> [status |-> rows[i].status, score |-> rows[i].score],
              at |-> rows[i].from] \in Entry
  BY <1>1 DEF StateRow, Entry
<1>3. Line(rows) \in [1..Len(rows) -> Entry]
  BY <1>2 DEF Line
<1>4. Line(rows) \in Seq(Entry)
  <2> HIDE DEF Line
  <2> QED
    BY <1>1, <1>3
<1>5. DOMAIN Line(rows) = 1..Len(rows)
  BY <1>3
<1>6. Len(Line(rows)) = Len(rows)
  BY <1>1, <1>4, <1>5
<1> QED
  BY <1>4, <1>6 DEF Line

LEMMA LineAppends ==
  ASSUME StateInv, NEW w \in Writers, phase[w] = "commit", Store(w)
  PROVE  LET c == command[w]
             state == [status |-> c.status, score |-> Rounded(c.score)]
         IN /\ Line(history'[c.id]) = Append(Line(history[c.id]), [state |-> state, at |-> c.at])
            /\ Line(history[c.id]) # <<>> =>
                 Line(history[c.id])[Len(Line(history[c.id]))].at < c.at
<1> DEFINE c == command[w]
           h == history[c.id]
           n == Len(h)
           state == [status |-> c.status, score |-> Rounded(c.score)]
           entry == [state |-> state, at |-> c.at]
<1>1. /\ c \in Commands /\ c.id \in Resources /\ n \in Nat
      /\ Len(history'[c.id]) = n + 1
      /\ \A i \in 1..(n - 1) : history'[c.id][i] = h[i]
  BY CommittedRows
<1>2. n > 0 => /\ history'[c.id][n] = [h[n] EXCEPT !.to = c.at]
               /\ h[n].from < c.at
  BY CommittedRows
<1>3. history'[c.id][n + 1] = Successor(c)
  BY CommittedRows
<1>4. h \in Seq(StateRow)
  BY <1>1 DEF StateInv, TypeOK
<1>5. Len(Line(h)) = n /\ DOMAIN Line(h) = 1..n
  BY <1>1 DEF Line
<1>6. n > 0 => Line(h)[n].at < c.at
  <2>1. n > 0 => n \in 1..n
    BY <1>1
  <2>2. n > 0 => Line(h)[n].at = h[n].from
    BY <2>1 DEF Line
  <2> QED
    BY <1>2, <2>2
<1>7. \A i \in 1..n : /\ history'[c.id][i].status = h[i].status
                      /\ history'[c.id][i].score = h[i].score
                      /\ history'[c.id][i].from = h[i].from
  <2> SUFFICES ASSUME NEW i \in 1..n
               PROVE  /\ history'[c.id][i].status = h[i].status
                      /\ history'[c.id][i].score = h[i].score
                      /\ history'[c.id][i].from = h[i].from
    OBVIOUS
  <2>1. h[i] \in StateRow
    BY <1>1, <1>4
  <2>2. CASE i = n
    <3>1. history'[c.id][i] = [h[i] EXCEPT !.to = c.at]
      BY <1>1, <1>2, <2>2
    <3> HIDE DEF c, h
    <3> QED
      BY <2>1, <3>1 DEF StateRow
  <2>3. CASE i # n
    BY <1>1, <2>3
  <2> QED
    BY <2>2, <2>3
<1>8. /\ history'[c.id][n + 1].status = c.status
      /\ history'[c.id][n + 1].score = Rounded(c.score)
      /\ history'[c.id][n + 1].from = c.at
  BY <1>3 DEF Successor
<1>9. Line(h) \in Seq(Entry) /\ entry \in Entry
  <2>1. /\ c.status \in Statuses /\ Rounded(c.score) \in StoredScores
        /\ c.at \in 1..MaxTime /\ MaxTime \in Nat
    BY <1>1, TransitionConstants DEF Commands, StoredScores
  <2>2. entry \in Entry
    BY <2>1 DEF Entry
  <2>3. Line(h) \in Seq(Entry)
    BY <1>4, LineTyped
  <2> QED
    BY <2>2, <2>3
<1> DEFINE longer == Append(Line(h), entry)
<1>10. /\ Len(longer) = n + 1 /\ DOMAIN longer = 1..(n + 1)
       /\ \A i \in 1..n : longer[i] = Line(h)[i]
       /\ longer[n + 1] = entry
  <2>1. n \in Nat /\ Len(Line(h)) = n
    BY <1>1, <1>5
  <2> HIDE DEF entry, h, n, Line
  <2> QED
    BY <2>1, <1>9, Appended
<1>11. \A i \in 1..(n + 1) :
         longer[i] = [state |-> [status |-> history'[c.id][i].status,
                                 score |-> history'[c.id][i].score],
                      at |-> history'[c.id][i].from]
  <2> SUFFICES ASSUME NEW i \in 1..(n + 1)
               PROVE  longer[i] = [state |-> [status |-> history'[c.id][i].status,
                                              score |-> history'[c.id][i].score],
                                   at |-> history'[c.id][i].from]
    OBVIOUS
  <2>1. CASE i = n + 1
    BY <1>8, <1>10, <2>1
  <2>2. CASE i \in 1..n
    <3>1. longer[i] = Line(h)[i]
      BY <1>10, <2>2
    <3>2. Line(h)[i] = [state |-> [status |-> h[i].status, score |-> h[i].score],
                        at |-> h[i].from]
      BY <1>4, <2>2, LineTyped
    <3>3. h[i].status = history'[c.id][i].status /\ h[i].score = history'[c.id][i].score
          /\ h[i].from = history'[c.id][i].from
      BY <1>7, <2>2
    <3> HIDE DEF longer, h, c
    <3> QED
      BY <3>1, <3>2, <3>3
  <2>3. i = n + 1 \/ i \in 1..n
    BY <1>1
  <2> QED
    BY <2>1, <2>2, <2>3
<1>12. Line(history'[c.id]) = longer
  <2> HIDE DEF longer
  <2>1. longer = [i \in 1..(n + 1) |-> longer[i]]
    <3>1. n \in Nat /\ Len(Line(h)) = n
      BY <1>1, <1>5
    <3> HIDE DEF entry, h, n, Line
    <3> QED
      BY <3>1, <1>9, Appended DEF longer
  <2> QED
    BY <1>1, <1>11, <2>1 DEF Line
<1>13. Line(h) # <<>> => n > 0
  <2>1. n \in Nat /\ Len(Line(h)) = n /\ Line(h) \in Seq(Entry)
    BY <1>1, <1>5, <1>9
  <2> HIDE DEF entry, h, n, Line
  <2> QED
    BY <2>1
<1> QED
  BY <1>5, <1>6, <1>12, <1>13

\* The initial rows, with or without the migration's backfill, are an initial timeline.
LEMMA TimelineStarts == Init => Timeline!TimelineInit
<1> SUFFICES ASSUME Init
             PROVE  Timeline!TimelineInit
  OBVIOUS
<1>1. StateInv
  BY InvInit
<1>2. resource \in [Resources -> [status : Statuses, score : StoredScores, version : {1}]]
  BY DEF Init
<1>3. Shown \in [Resources -> [status : Statuses, score : StoredScores]]
  BY <1>2 DEF Shown
<1>4. ASSUME NEW r \in Resources, Line(history[r]) # <<>>
      PROVE  /\ Len(Line(history[r])) = 1
             /\ Line(history[r])[1].state = Shown[r]
  <2>1. history[r] = <<>> \/ history[r] = Backfilled(resource[r])
    BY DEF Init
  <2>2. CASE history[r] = <<>>
    BY <1>4, <2>2 DEF Line
  <2>3. CASE history[r] = Backfilled(resource[r])
    <3>1. history[r] \in Seq(StateRow)
      BY <1>1 DEF StateInv, TypeOK
    <3>2. Len(history[r]) = 1 /\ history[r] # <<>>
      BY <2>3 DEF Backfilled
    <3>4. Line(history[r])[1] = [state |-> [status |-> history[r][1].status,
                                            score |-> history[r][1].score],
                                 at |-> history[r][1].from]
      BY <3>1, <3>2, LineTyped
    <3>5. history[r][1].status = resource[r].status /\ history[r][1].score = resource[r].score
      BY <1>1, <3>2 DEF StateInv, SnapshotIsCurrentState
    <3>3. Len(Line(history[r])) = 1
      BY <3>1, <3>2, LineTyped
    <3> QED
      BY <3>3, <3>4, <3>5 DEF Shown
  <2> QED
    BY <2>1, <2>2, <2>3
<1>5. DOMAIN Lines = Resources /\ \A r \in Resources : Lines[r] = Line(history[r])
  BY DEF Lines
<1>6. /\ Shown \in [Resources -> [status : Statuses, score : StoredScores]]
      /\ DOMAIN Lines = Resources
      /\ \A r \in Resources :
           Lines[r] # <<>> => Len(Lines[r]) = 1 /\ Lines[r][Len(Lines[r])].state = Shown[r]
  BY <1>3, <1>4, <1>5
<1> QED
  BY <1>6 DEF Timeline!TimelineInit, Timeline!Latest, Lines, Line, Shown

\* A commit enters the request's state at its instant; any other step stutters.
LEMMA TimelineSteps ==
  ASSUME StateInv, [Next]_vars
  PROVE  [\E r \in Resources, state \in [status : Statuses, score : StoredScores],
             at \in 1..MaxTime :
            /\ Lines[r] # <<>> => Lines[r][Len(Lines[r])].at < at
            /\ Lines' = [Lines EXCEPT ![r] = Append(@, [state |-> state, at |-> at])]
            /\ Shown' = [Shown EXCEPT ![r] = state]]_<<Lines, Shown>>
<1>1. CASE UNCHANGED <<resource, history>>
  BY <1>1 DEF Lines, Shown, Line
<1>2. ASSUME NEW w \in Writers, phase[w] = "commit", Store(w)
      PROVE  \E r \in Resources, state \in [status : Statuses, score : StoredScores],
               at \in 1..MaxTime :
              /\ Lines[r] # <<>> => Lines[r][Len(Lines[r])].at < at
              /\ Lines' = [Lines EXCEPT ![r] = Append(@, [state |-> state, at |-> at])]
              /\ Shown' = [Shown EXCEPT ![r] = state]
  <2> DEFINE c == command[w]
             state == [status |-> c.status, score |-> Rounded(c.score)]
  <2>1. c \in Commands /\ c.id \in Resources
    BY <1>2, CommittedRows
  <2>2. c.at \in 1..MaxTime /\ state \in [status : Statuses, score : StoredScores]
    BY <2>1 DEF Commands, StoredScores
  <2>3. /\ Line(history'[c.id]) = Append(Line(history[c.id]), [state |-> state, at |-> c.at])
        /\ Line(history[c.id]) # <<>> =>
             Line(history[c.id])[Len(Line(history[c.id]))].at < c.at
    BY <1>2, LineAppends
  <2>4. \A s \in Resources \ {c.id} : history'[s] = history[s]
    BY <1>2, CommittedRows
  <2>5. /\ resource'[c.id].status = c.status /\ resource'[c.id].score = Rounded(c.score)
        /\ \A s \in Resources \ {c.id} : resource'[s] = resource[s]
    BY <1>2, CommittedSnapshot
  <2>6. Lines' = [r \in Resources |-> Line(history'[r])]
    BY DEF Lines, Line
  <2>7. Lines' = [Lines EXCEPT ![c.id] = Append(@, [state |-> state, at |-> c.at])]
    <3> HIDE DEF state, c
    <3> QED
      BY <2>1, <2>3, <2>4, <2>6 DEF Lines
  <2>8. Shown' = [Shown EXCEPT ![c.id] = state]
    BY <2>1, <2>5 DEF Shown
  <2>9. Lines[c.id] # <<>> => Lines[c.id][Len(Lines[c.id])].at < c.at
    BY <2>1, <2>3 DEF Lines
  <2> HIDE DEF state
  <2> QED
    BY <2>1, <2>2, <2>7, <2>8, <2>9
<1> QED
  BY <1>1, <1>2, StoreOrKeep

\* The handler, the row lock and the constraints together implement the abstract
\* timeline: one state at a time, each later than the last, shown by the resource.
THEOREM RefinesTimeline == Spec => ImplementsTimeline
<1>1. StateInv /\ [Next]_vars =>
        [Timeline!TimelineNext]_<<[r \in Resources |->
                 [i \in 1..Len(history[r]) |->
                    [state |-> [status |-> history[r][i].status, score |-> history[r][i].score],
                     at |-> history[r][i].from]]],
              [r \in Resources |-> [status |-> resource[r].status, score |-> resource[r].score]]>>
  BY TimelineSteps
     DEF Timeline!TimelineNext, Timeline!Enter, Timeline!Latest, Lines, Line, Shown
<1> QED
  BY <1>1, TimelineStarts, Invariance, PTL DEF Spec, ImplementsTimeline, Timeline!TimelineSpec
-----------------------------------------------------------------------------
(***************************************************************************)
(* Where the documented promise holds that nothing is recorded that changes*)
(* nothing.  The handler compares the score of the command as it is; with  *)
(* scores the column stores exactly, it compares what will be stored.      *)
(***************************************************************************)
Changing ==
  \A w \in Writers : phase[w] \in {"flush", "commit"} => ~Unchanged(command[w], current[w])

Repeats(a, b) == a.status = b.status /\ a.score = b.score /\ a.source = b.source

LEMMA WritersKeepReads ==
  ASSUME StateInv, [Next]_vars, NEW v \in Writers, phase'[v] \in {"flush", "commit"}
  PROVE  \/ ReadCurrent(v)
         \/ /\ phase[v] \in {"flush", "commit"}
            /\ command'[v] = command[v] /\ current'[v] = current[v]
            /\ history'[command[v].id] = history[command[v].id]
<1> USE DEF StateInv
<1>1. CASE Deactivate \/ UNCHANGED vars
  BY <1>1 DEF Deactivate, vars, local
<1>2. ASSUME NEW w \in Writers,
             Begin(w) \/ LockResource(w) \/ CatalogsActive(w) \/ Flush(w) \/ ReadCurrent(w)
      PROVE  \/ ReadCurrent(v)
             \/ /\ phase[v] \in {"flush", "commit"}
                /\ command'[v] = command[v] /\ current'[v] = current[v]
                /\ history'[command[v].id] = history[command[v].id]
  BY <1>2 DEF Begin, LockResource, CatalogsActive, Flush, ReadCurrent, Advance, local, TypeOK
<1>3. ASSUME NEW w \in Writers, NEW result \in Outcomes, Fail(w, result)
      PROVE  /\ phase[v] \in {"flush", "commit"}
             /\ command'[v] = command[v] /\ current'[v] = current[v]
             /\ history'[command[v].id] = history[command[v].id]
  BY <1>3, FinishEffect DEF Fail
<1>4. ASSUME NEW w \in Writers, NEW result \in Outcomes, phase[w] = "commit", Store(w),
             Finish(w, result)
      PROVE  /\ phase[v] \in {"flush", "commit"}
             /\ command'[v] = command[v] /\ current'[v] = current[v]
             /\ history'[command[v].id] = history[command[v].id]
  <2>1. /\ v # w /\ phase'[v] = phase[v]
        /\ command'[v] = command[v] /\ current'[v] = current[v]
    BY <1>4, FinishEffect
  <2>2. command[v].id \in Resources /\ command[v].id # command[w].id
    BY <1>4, <2>1 DEF LockHeld
  <2>3. history'[command[v].id] = history[command[v].id]
    BY <1>4, <2>2, CommittedRows
  <2> QED
    BY <2>1, <2>3
<1>5. ASSUME NEW w \in Writers,
             \/ ResourceMissing(w) \/ CatalogInactive(w) \/ TransitionNotLater(w)
             \/ TransitionUnchanged(w) \/ Lose(w)
      PROVE  \E result \in Outcomes : Fail(w, result)
  BY <1>5 DEF ResourceMissing, CatalogInactive, TransitionNotLater, TransitionUnchanged, Lose,
              Outcomes
<1>6. ASSUME NEW w \in Writers, Commit(w) \/ CommitUnacknowledged(w)
      PROVE  phase[w] = "commit" /\ Store(w) /\ \E result \in Outcomes : Finish(w, result)
  BY <1>6 DEF Commit, CommitUnacknowledged, Outcomes
<1> QED
  BY <1>1, <1>2, <1>3, <1>4, <1>5, <1>6 DEF Next

LEMMA ChangingStays ==
  ASSUME StateInv, Changing, [Next]_vars
  PROVE  Changing'
<1> SUFFICES ASSUME NEW v \in Writers, phase'[v] \in {"flush", "commit"}
             PROVE  ~Unchanged(command[v], current[v])'
  BY DEF Changing
<1>1. CASE ReadCurrent(v)
  <2>1. /\ command'[v] = command[v] /\ current'[v] = CurrentRow(command[v].id)
        /\ history' = history
        /\ ~Unchanged(command[v], CurrentRow(command[v].id))
    BY <1>1 DEF ReadCurrent, StateInv, TypeOK
  <2> QED
    BY <2>1 DEF Unchanged
<1>2. CASE /\ phase[v] \in {"flush", "commit"}
           /\ command'[v] = command[v] /\ current'[v] = current[v]
           /\ history'[command[v].id] = history[command[v].id]
  <2>1. ~Unchanged(command[v], current[v])
    BY <1>2 DEF Changing
  <2> QED
    BY <1>2, <2>1 DEF Unchanged
<1> QED
  BY <1>1, <1>2, WritersKeepReads

\* A transition that was not refused differs from the row it closes.
LEMMA CommitDiffers ==
  ASSUME StateInv, Changing, NoOpRejected, \A s \in Scores : Rounded(s) = s,
         NEW w \in Writers, phase[w] = "commit", Store(w)
  PROVE  NoOpRejected'
<1> DEFINE c == command[w]
           r == c.id
           n == Len(history[r])
<1>1. /\ c \in Commands /\ r \in Resources /\ n \in Nat
      /\ history \in [Resources -> Seq(StateRow)]
      /\ Len(history'[r]) = n + 1
      /\ \A i \in 1..(n - 1) : history'[r][i] = history[r][i]
      /\ n > 0 => history'[r][n] = [history[r][n] EXCEPT !.to = c.at]
      /\ history'[r][n + 1] = Successor(c)
      /\ \A s \in Resources \ {r} : history'[s] = history[s]
  BY CommittedRows DEF StateInv, TypeOK
<1>2. ASSUME NEW i \in 1..n
      PROVE  /\ history'[r][i].status = history[r][i].status
             /\ history'[r][i].score = history[r][i].score
             /\ history'[r][i].source = history[r][i].source
  <2>1. CASE i = n
    <3>1. history[r][n] \in StateRow
      BY <1>1, <2>1
    <3>2. n > 0
      BY <1>1, <2>1
    <3>3. history'[r][i] = [history[r][i] EXCEPT !.to = c.at]
      BY <1>1, <2>1, <3>2
    <3>4. \A row \in StateRow : \A t :
            /\ [row EXCEPT !.to = t].status = row.status
            /\ [row EXCEPT !.to = t].score = row.score
            /\ [row EXCEPT !.to = t].source = row.source
      BY DEF StateRow
    <3> QED
      BY <2>1, <3>1, <3>3, <3>4
  <2>2. CASE i # n
    <3>1. i \in 1..(n - 1)
      BY <1>1, <2>2
    <3> QED
      BY <1>1, <3>1
  <2> QED
    BY <2>1, <2>2
<1>3. n > 0 => ~Repeats(history'[r][n], history'[r][n + 1])
  <2> SUFFICES ASSUME n > 0
               PROVE  ~Repeats(history'[r][n], Successor(c))
    BY <1>1
  <2>1. current[w] = n
    BY <1>1, OpenIsLast DEF StateInv, ReadsStayCurrent
  <2>2. ~Repeats(c, history[r][n])
    BY <2>1 DEF Changing, Unchanged, Repeats
  <2>3. Successor(c).status = c.status /\ Successor(c).score = c.score
        /\ Successor(c).source = c.source
    BY <1>1 DEF Successor, Commands
  <2>4. n \in 1..n
    BY <1>1
  <2> HIDE DEF n, r, c
  <2> QED
    BY <1>2, <2>2, <2>3, <2>4 DEF Repeats
<1>4. ASSUME NEW s \in Resources, NEW i \in 1..(Len(history'[s]) - 1)
      PROVE  ~Repeats(history'[s][i], history'[s][i + 1])
  <2>1. CASE s # r
    <3>1. history'[s] = history[s]
      BY <1>1, <2>1
    <3>2. ~Repeats(history[s][i], history[s][i + 1])
      BY <3>1 DEF NoOpRejected, Repeats
    <3> QED
      BY <3>1, <3>2
  <2>2. CASE s = r /\ i = n
    BY <1>1, <1>3, <2>2
  <2>3. CASE s = r /\ i # n
    <3>1. i \in 1..n /\ i + 1 \in 1..n /\ i \in 1..(n - 1)
      BY <1>1, <2>3
    <3>2. ~Repeats(history[r][i], history[r][i + 1])
      BY <1>1, <3>1 DEF NoOpRejected, Repeats
    <3> HIDE DEF n, r
    <3> QED
      BY <1>2, <2>3, <3>1, <3>2 DEF Repeats
  <2> QED
    BY <2>1, <2>2, <2>3
<1> QED
  BY <1>4 DEF NoOpRejected, Repeats

\* Where every score a command carries is one the column stores exactly, no state row
\* repeats its predecessor, however many transitions overlap.  (The run that violates
\* NoOpRejected has a finer score.)
THEOREM ExactScoresNeverRepeat ==
  ASSUME \A s \in Scores : Rounded(s) = s
  PROVE  Spec => []NoOpRejected
<1> DEFINE Both == Changing /\ NoOpRejected
<1>1. Init => Both
  <2> SUFFICES ASSUME Init
               PROVE  Both
    OBVIOUS
  <2>1. Changing
    BY DEF Init, Changing
  <2>2. ASSUME NEW r \in Resources
        PROVE  1..(Len(history[r]) - 1) = {}
    <3>1. PICK migrated \in SUBSET Resources :
            history = [q \in Resources |->
                         IF q \in migrated THEN Backfilled(resource[q]) ELSE <<>>]
      BY DEF Init
    <3>2. Len(Backfilled(resource[r])) = 1
      BY DEF Backfilled
    <3>3. Len(history[r]) = 0 \/ Len(history[r]) = 1
      BY <3>1, <3>2
    <3>4. 1..(0 - 1) = {} /\ 1..(1 - 1) = {}
      OBVIOUS
    <3> QED
      BY <3>3, <3>4, Zenon
  <2> QED
    BY <2>1, <2>2 DEF NoOpRejected
<1>2. StateInv /\ Both /\ [Next]_vars => Both'
  <2> SUFFICES ASSUME StateInv, Both, [Next]_vars
               PROVE  Both'
    OBVIOUS
  <2>1. ASSUME NEW w \in Writers, Commit(w) \/ CommitUnacknowledged(w)
        PROVE  NoOpRejected'
    BY <2>1, CommitDiffers DEF Commit, CommitUnacknowledged
  <2>2. ASSUME history' = history
        PROVE  NoOpRejected'
    BY <2>2 DEF NoOpRejected
  <2>3. (\E w \in Writers : Commit(w) \/ CommitUnacknowledged(w)) \/ history' = history
    BY DEF Next, vars, Deactivate, Begin, LockResource, ResourceMissing, CatalogsActive,
           CatalogInactive, ReadCurrent, TransitionNotLater, TransitionUnchanged, Flush, Lose,
           Fail
  <2>4. NoOpRejected'
    BY <2>1, <2>2, <2>3
  <2>5. Changing'
    BY ChangingStays
  <2> QED
    BY <2>4, <2>5
<1>3. Both => NoOpRejected
  OBVIOUS
<1> HIDE DEF Both
<1> QED
  BY <1>1, <1>2, <1>3, Invariance, PTL DEF Spec
=============================================================================
