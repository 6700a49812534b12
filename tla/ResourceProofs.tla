--------------------------- MODULE ResourceProofs ---------------------------
(***************************************************************************)
(* Proofs about ResourceCreation and ResourceListing, for any number of    *)
(* overlapping requests, any names and catalog rows, a clock that shows    *)
(* what it likes, a sequence of any length and pages of any size.          *)
(***************************************************************************)
EXTENDS ResourceListing, NaturalExtrema, SequenceTheorems

(***************************************************************************)
(* The inductive invariant.  The generator's two variables are the latest  *)
(* id, and no entity has a later one.  Requests that have found a name free*)
(* are counted with the resources that carry it.                           *)
(***************************************************************************)
NotAfter(i, ms, seq) == i.ms < ms \/ (i.ms = ms /\ i.seq <= seq)

Issued(i) == NotAfter(i, lastMs, sequence)

AllIssued ==
  /\ \A r \in resources : Issued(r.id)
  /\ \A w \in Writers : row[w] # None => Issued(row[w].id)

Past(name) ==
  {w \in Writers : phase[w] \in {"construct", "flush", "commit"} /\ command[w].name = name}

FewPast ==
  \A name \in Names :
    /\ IsFiniteSet(Named(resources, name))
    /\ Cardinality(Named(resources, name)) + Cardinality(Past(name)) <= Cardinality(Writers)

\* The entity a request constructs carries the name it has looked up.
RowIsCommanded ==
  \A w \in Writers : phase[w] \in {"flush", "commit"} => row[w].name = command[w].name

CommandTyped == command \in [Writers -> Commands \union {<<>>}]

RowTyped == row \in [Writers -> Rows \union {None}]

Inv == TypeOK /\ CommandTyped /\ RowTyped /\ AllIssued /\ IdsDistinct /\ RowIsCommanded /\ FewPast

-----------------------------------------------------------------------------
LEMMA NoneIsNoRow == None \notin Rows
  BY CreationConstants DEF None, Rows

LEMMA InitInv == Init => Inv
  <1> SUFFICES ASSUME Init
               PROVE  Inv
    OBVIOUS
  <1>1. TypeOK /\ CommandTyped /\ RowTyped
    BY UuidConstants, CreationConstants
    DEF Init, UuidInit, TypeOK, CommandTyped, RowTyped, Phases
  <1>2. AllIssued /\ IdsDistinct /\ RowIsCommanded
    BY DEF Init, AllIssued, IdsDistinct, RowIsCommanded
  <1>3. FewPast
    <2> SUFFICES ASSUME NEW name \in Names
                 PROVE  /\ IsFiniteSet(Named(resources, name))
                        /\ Cardinality(Named(resources, name)) + Cardinality(Past(name))
                             <= Cardinality(Writers)
      BY DEF FewPast
    <2>1. Named(resources, name) = {} /\ Past(name) = {}
      BY DEF Init, Named, Past
    <2> QED
      BY <2>1, CreationConstants, FS_EmptySet, FS_CardinalityType
  <1> QED
    BY <1>1, <1>2, <1>3 DEF Inv

(***************************************************************************)
(* Types                                                                   *)
(***************************************************************************)
Typed == TypeOK /\ CommandTyped /\ RowTyped

LEMMA IdsAreNumbers ==
  ASSUME NEW i \in Ids
  PROVE  i.ms \in Nat /\ i.seq \in Nat
  <1>1. i.ms \in Instants /\ i.seq \in 0..SequenceMax
    BY DEF Ids
  <1>2. i.ms \in Nat
    BY <1>1, UuidConstants
  <1>3. i.seq \in Nat
    BY <1>1, UuidConstants
  <1> QED
    BY <1>2, <1>3

LEMMA GeneratedTyped ==
  ASSUME TypeOK, GenerateUuid7
  PROVE  /\ Generated \in Ids
         /\ lastMs' \in Instants /\ sequence' \in 0..SequenceMax /\ clock' = clock
  BY UuidConstants, CreationConstants
  DEF TypeOK, GenerateUuid7, LaterMs, NextInSequence, Generated, Ids

LEMMA FinishTyped ==
  ASSUME Typed, NEW w \in Writers, Finish(w), resources' \subseteq Rows
  PROVE  Typed'
  BY DEF Typed, TypeOK, CommandTyped, RowTyped, Finish, Phases, uuidVars

LEMMA NextTyped ==
  ASSUME Typed, [Next]_vars
  PROVE  Typed'
  <1> USE DEF Typed, TypeOK, CommandTyped, RowTyped, Phases
  <1>1. CASE Deactivate
    BY <1>1 DEF Deactivate, uuidVars
  <1>2. CASE Drift
    BY <1>2 DEF Drift, SetClock
  <1>3. ASSUME NEW w \in Writers, Begin(w)
        PROVE  Typed'
    BY <1>3, NoneIsNoRow DEF Begin, Advance, uuidVars
  <1>4. ASSUME NEW w \in Writers, CatalogsActive(w) \/ NameFree(w)
        PROVE  Typed'
    BY <1>4 DEF CatalogsActive, NameFree, Advance, uuidVars
  <1>5. ASSUME NEW w \in Writers,
               CatalogMissing(w) \/ CatalogInactive(w) \/ NameTaken(w) \/ Lose(w)
        PROVE  Typed'
    BY <1>5, FinishTyped DEF CatalogMissing, CatalogInactive, NameTaken, Lose, Fail
  <1>6. ASSUME NEW w \in Writers, Construct(w)
        PROVE  Typed'
    <2>1. command[w] \in Commands
      BY <1>6 DEF Construct, Advance
    <2>2. [id |-> Generated, name |-> command[w].name, reference |-> command[w].reference,
           at |-> 0] \in Rows
      BY <1>6, <2>1, GeneratedTyped DEF Construct, Rows, Commands
    <2> QED
      BY <1>6, <2>2, GeneratedTyped DEF Construct, Advance
  <1>7. ASSUME NEW w \in Writers, Flush(w)
        PROVE  Typed'
    <2>1. [row[w] EXCEPT !.at = clock] \in Rows
      BY <1>7 DEF Flush, Advance, Rows
    <2> QED
      BY <1>7, <2>1 DEF Flush, Advance, uuidVars
  <1>8. ASSUME NEW w \in Writers, Commit(w) \/ CommitUnacknowledged(w)
        PROVE  Typed'
    BY <1>8, FinishTyped DEF Commit, CommitUnacknowledged, Store
  <1>9. CASE UNCHANGED vars
    BY <1>9 DEF vars, uuidVars
  <1> QED
    BY <1>1, <1>2, <1>3, <1>4, <1>5, <1>6, <1>7, <1>8, <1>9 DEF Next

(***************************************************************************)
(* Ids                                                                     *)
(***************************************************************************)
\* Each id is later than all before it, also when the clock was set back.
LEMMA GeneratedIsLatest ==
  ASSUME TypeOK, GenerateUuid7
  PROVE  /\ ~Issued(Generated)
         /\ NotAfter(Generated, lastMs', sequence')
         /\ \A i \in Ids : Issued(i) => NotAfter(i, lastMs', sequence') /\ i # Generated
  <1>0. /\ lastMs \in Int /\ clock \in Int /\ sequence \in Int /\ sequence' \in Int
        /\ \A i \in Ids : i.ms \in Int /\ i.seq \in Int
        /\ Generated.ms = lastMs' /\ Generated.seq = sequence'
    <2>1. lastMs \in Int /\ clock \in Int /\ sequence \in Int
      BY UuidConstants DEF TypeOK
    <2>2. sequence' \in Int
      BY GeneratedTyped, UuidConstants
    <2> QED
      BY <2>1, <2>2, IdsAreNumbers DEF Generated
  <1> USE DEF Issued, NotAfter
  <1>1. CASE LaterMs
    BY <1>0, <1>1 DEF LaterMs
  <1>2. CASE NextInSequence
    BY <1>0, <1>2 DEF NextInSequence
  <1> QED
    BY <1>1, <1>2 DEF GenerateUuid7

Distinct == AllIssued /\ IdsDistinct

LEMMA FinishDistinct ==
  ASSUME Typed, Distinct, NEW w \in Writers, Finish(w),
         \/ resources' = resources
         \/ row[w] # None /\ resources' = resources \union {row[w]}
  PROVE  Distinct'
  <1> USE DEF Distinct, AllIssued, IdsDistinct, Issued, Finish, Typed, RowTyped, uuidVars
  <1>1. CASE resources' = resources
    BY <1>1
  <1>2. CASE row[w] # None /\ resources' = resources \union {row[w]}
    BY <1>2
  <1> QED
    BY <1>1, <1>2

LEMMA NextDistinct ==
  ASSUME Typed, Distinct, [Next]_vars
  PROVE  Distinct'
  <1> USE DEF Distinct, AllIssued, IdsDistinct
  <1>1. CASE Deactivate \/ Drift \/ UNCHANGED vars
    BY <1>1 DEF Deactivate, Drift, SetClock, vars, uuidVars, Issued
  <1>2. ASSUME NEW w \in Writers, Begin(w) \/ CatalogsActive(w) \/ NameFree(w)
        PROVE  Distinct'
    BY <1>2 DEF Begin, CatalogsActive, NameFree, uuidVars, Issued
  <1>3. ASSUME NEW w \in Writers,
               CatalogMissing(w) \/ CatalogInactive(w) \/ NameTaken(w) \/ Lose(w)
        PROVE  Distinct'
    BY <1>3, FinishDistinct DEF CatalogMissing, CatalogInactive, NameTaken, Lose, Fail
  <1>4. ASSUME NEW w \in Writers, Construct(w)
        PROVE  Distinct'
    <2>1. /\ resources' = resources
          /\ row'[w].id = Generated
          /\ \A v \in Writers \ {w} : row'[v] = row[v]
      BY <1>4 DEF Construct, Typed, RowTyped
    <2>2. /\ \A r \in resources : r.id \in Ids
          /\ \A v \in Writers : row[v] # None => row[v].id \in Ids
      BY DEF Typed, TypeOK, RowTyped, Rows
    <2>3. GenerateUuid7
      BY <1>4 DEF Construct
    <2>4. /\ \A r \in resources : r.id # Generated /\ NotAfter(r.id, lastMs', sequence')
          /\ \A v \in Writers \ {w} :
               row[v] # None =>
                 row[v].id # Generated /\ NotAfter(row[v].id, lastMs', sequence')
          /\ NotAfter(Generated, lastMs', sequence')
      BY <2>2, <2>3, GeneratedIsLatest DEF Typed
    <2>5. AllIssued'
      BY <2>1, <2>4 DEF Issued
    <2>6. IdsDistinct'
      BY <2>1, <2>4
    <2> QED
      BY <2>5, <2>6
  <1>5. ASSUME NEW w \in Writers, Flush(w)
        PROVE  Distinct'
    <2>1. row[w] # None /\ row'[w].id = row[w].id
      BY <1>5, NoneIsNoRow DEF Flush, Advance, Typed, TypeOK, RowTyped, Rows
    <2>2. /\ resources' = resources /\ UNCHANGED uuidVars
          /\ \A v \in Writers \ {w} : row'[v] = row[v]
      BY <1>5 DEF Flush, Typed, RowTyped
    <2> QED
      BY <2>1, <2>2 DEF uuidVars, Issued
  <1>6. ASSUME NEW w \in Writers, Commit(w) \/ CommitUnacknowledged(w)
        PROVE  Distinct'
    BY <1>6, FinishDistinct, NoneIsNoRow DEF Commit, CommitUnacknowledged, Store, Typed, TypeOK
  <1> QED
    BY <1>1, <1>2, <1>3, <1>4, <1>5, <1>6 DEF Next

(***************************************************************************)
(* Names                                                                   *)
(***************************************************************************)
LEMMA PastIsFinite ==
  ASSUME NEW name
  PROVE  IsFiniteSet(Past(name)) /\ Cardinality(Past(name)) \in Nat
                                 /\ Cardinality(Past(name)) <= Cardinality(Writers)
  BY CreationConstants, FS_Subset, FS_CardinalityType DEF Past

\* Fewer requests past the look-up, and no more resources.
LEMMA FewerPast ==
  ASSUME FewPast, resources' = resources,
         \A name \in Names : Past(name)' \subseteq Past(name)
  PROVE  FewPast'
  <1> SUFFICES ASSUME NEW name \in Names
               PROVE  /\ IsFiniteSet(Named(resources, name)')
                      /\ Cardinality(Named(resources, name)') + Cardinality(Past(name)')
                           <= Cardinality(Writers)
    BY DEF FewPast
  <1>1. Named(resources, name)' = Named(resources, name)
    BY DEF Named
  <1>2. Cardinality(Past(name)') <= Cardinality(Past(name)) /\ Cardinality(Past(name)') \in Nat
    BY PastIsFinite, FS_Subset, FS_CardinalityType
  <1>3. Cardinality(Named(resources, name)) \in Nat /\ Cardinality(Writers) \in Nat
    BY CreationConstants, FS_CardinalityType DEF FewPast
  <1> QED
    BY <1>1, <1>2, <1>3, PastIsFinite DEF FewPast

\* The look-up finds a row if there is one: ids have a least one.
LEMMA LookUpFinds ==
  ASSUME NEW R, R \subseteq Rows, NEW name, Named(R, name) # {}
  PROVE  ByName(R, name) \in Named(R, name)
  <1> DEFINE M == {r.id.ms : r \in Named(R, name)}
  <1>0. \A r \in Named(R, name) : r.id.ms \in Nat /\ r.id.seq \in Nat
    <2> SUFFICES ASSUME NEW r \in Named(R, name)
                 PROVE  r.id.ms \in Nat /\ r.id.seq \in Nat
      OBVIOUS
    <2>1. r.id \in Ids
      BY DEF Named, Rows
    <2> QED
      BY <2>1, IdsAreNumbers
  <1>1. M # {} /\ M \subseteq Nat
    BY <1>0
  <1>2. PICK m \in M : \A k \in M : m <= k
    BY <1>1, LeastNat
  <1> DEFINE Q == {r.id.seq : r \in {s \in Named(R, name) : s.id.ms = m}}
  <1>3. Q # {} /\ Q \subseteq Nat
    BY <1>0, <1>2
  <1>4. PICK q \in Q : \A k \in Q : q <= k
    BY <1>3, LeastNat
  <1>5. PICK r \in Named(R, name) : r.id.ms = m /\ r.id.seq = q
    BY <1>4
  <1>6. \A s \in Named(R, name) : ~IdBefore(s.id, r.id)
    <2> SUFFICES ASSUME NEW s \in Named(R, name)
                 PROVE  ~IdBefore(s.id, r.id)
      OBVIOUS
    <2>1. m <= s.id.ms
      BY <1>2
    <2>2. s.id.ms = m => q <= s.id.seq
      BY <1>4
    <2> QED
      BY <1>0, <1>5, <2>1, <2>2 DEF IdBefore
  <1> QED
    BY <1>5, <1>6 DEF ByName

\* A request gets past the look-up only when no resource carries the name.
LEMMA NameFreeFew ==
  ASSUME Typed, FewPast, NEW w \in Writers, NameFree(w)
  PROVE  FewPast'
  <1> SUFFICES ASSUME NEW name \in Names
               PROVE  /\ IsFiniteSet(Named(resources, name)')
                      /\ Cardinality(Named(resources, name)') + Cardinality(Past(name)')
                           <= Cardinality(Writers)
    BY DEF FewPast
  <1>1. Named(resources, name)' = Named(resources, name)
    BY DEF NameFree, Named
  <1>2. Cardinality(Named(resources, name)) \in Nat /\ Cardinality(Writers) \in Nat
    BY CreationConstants, FS_CardinalityType DEF FewPast
  <1>3. CASE command[w].name = name
    <2>1. Named(resources, name) = {}
      <3> SUFFICES ASSUME Named(resources, name) # {}
                   PROVE  FALSE
        OBVIOUS
      <3>1. None \in Named(resources, name)
        BY <1>3, LookUpFinds DEF NameFree, Typed, TypeOK
      <3> QED
        BY <3>1, NoneIsNoRow DEF Named, Typed, TypeOK
    <2>2. Cardinality(Past(name)') <= Cardinality(Writers) /\ Cardinality(Past(name)') \in Nat
      <3>1. Past(name)' \subseteq Writers
        BY DEF Past
      <3> QED
        BY <3>1, CreationConstants, FS_Subset, FS_CardinalityType
    <2> QED
      BY <1>1, <1>2, <2>1, <2>2, FS_EmptySet
  <1>4. CASE command[w].name # name
    <2>1. Past(name)' = Past(name)
      BY <1>4 DEF NameFree, Advance, Past, Typed, TypeOK
    <2> QED
      BY <1>1, <2>1 DEF FewPast
  <1> QED
    BY <1>3, <1>4

\* A request that stores a resource is no longer past the look-up.
LEMMA StoreFew ==
  ASSUME Typed, FewPast, RowIsCommanded, NEW w \in Writers, phase[w] = "commit",
         Store(w), Finish(w)
  PROVE  FewPast'
  <1> SUFFICES ASSUME NEW name \in Names
               PROVE  /\ IsFiniteSet(Named(resources, name)')
                      /\ Cardinality(Named(resources, name)') + Cardinality(Past(name)')
                           <= Cardinality(Writers)
    BY DEF FewPast
  <1> DEFINE N == Named(resources, name)
             P == Past(name)
  <1>1. /\ Cardinality(N) \in Nat /\ Cardinality(Writers) \in Nat
        /\ Cardinality(P) \in Nat /\ IsFiniteSet(N) /\ IsFiniteSet(P)
        /\ Cardinality(N) + Cardinality(P) <= Cardinality(Writers)
    BY CreationConstants, FS_CardinalityType, PastIsFinite DEF FewPast
  <1>2. row[w].name = command[w].name
    BY DEF RowIsCommanded
  <1>3. P' = P \ {w}
    BY DEF Finish, Past, Typed, TypeOK, CommandTyped
  <1>4. CASE command[w].name = name
    <2>1. w \in P
      BY <1>4 DEF Past
    <2>2. Cardinality(P') = Cardinality(P) - 1
      BY <1>1, <1>3, <2>1, FS_RemoveElement
    <2>3. N' = N \union {row[w]}
      BY <1>2, <1>4 DEF Named, Store
    <2>4. IsFiniteSet(N') /\ Cardinality(N') \in {Cardinality(N), Cardinality(N) + 1}
      <3>1. IsFiniteSet(N \union {row[w]})
            /\ Cardinality(N \union {row[w]}) \in {Cardinality(N), Cardinality(N) + 1}
        BY <1>1, FS_AddElement
      <3> QED
        BY <2>3, <3>1
    <2> QED
      BY <1>1, <2>2, <2>4
  <1>5. CASE command[w].name # name
    <2>1. N' = N /\ P' = P
      BY <1>2, <1>3, <1>5 DEF Named, Store, Past
    <2> QED
      BY <1>1, <2>1
  <1> QED
    BY <1>4, <1>5

LEMMA NextFew ==
  ASSUME Typed, FewPast, RowIsCommanded, [Next]_vars
  PROVE  FewPast'
  <1>1. CASE Deactivate \/ Drift \/ UNCHANGED vars
    BY <1>1, FewerPast DEF Deactivate, Drift, vars, Past
  <1>2. ASSUME NEW w \in Writers,
               \/ Begin(w) \/ CatalogsActive(w) \/ Construct(w) \/ Flush(w)
        PROVE  FewPast'
    <2>1. resources' = resources
      BY <1>2 DEF Begin, CatalogsActive, Construct, Flush
    <2>2. \A v \in Writers :
            phase'[v] \in {"construct", "flush", "commit"} =>
              phase[v] \in {"construct", "flush", "commit"} /\ command'[v] = command[v]
      BY <1>2 DEF Begin, CatalogsActive, Construct, Flush, Advance, Typed, TypeOK, CommandTyped
    <2> QED
      BY <2>1, <2>2, FewerPast DEF Past
  <1>3. ASSUME NEW w \in Writers,
               CatalogMissing(w) \/ CatalogInactive(w) \/ NameTaken(w) \/ Lose(w)
        PROVE  FewPast'
    <2>1. resources' = resources /\ Finish(w)
      BY <1>3 DEF CatalogMissing, CatalogInactive, NameTaken, Lose, Fail
    <2>2. \A v \in Writers :
            phase'[v] \in {"construct", "flush", "commit"} =>
              phase[v] \in {"construct", "flush", "commit"} /\ command'[v] = command[v]
      BY <2>1 DEF Finish, Typed, TypeOK, CommandTyped
    <2> QED
      BY <2>1, <2>2, FewerPast DEF Past
  <1>4. ASSUME NEW w \in Writers, NameFree(w)
        PROVE  FewPast'
    BY <1>4, NameFreeFew
  <1>5. ASSUME NEW w \in Writers, Commit(w) \/ CommitUnacknowledged(w)
        PROVE  FewPast'
    BY <1>5, StoreFew DEF Commit, CommitUnacknowledged
  <1> QED
    BY <1>1, <1>2, <1>3, <1>4, <1>5 DEF Next

LEMMA NextCommanded ==
  ASSUME Typed, RowIsCommanded, [Next]_vars
  PROVE  RowIsCommanded'
  <1> USE DEF Typed, TypeOK, CommandTyped, RowTyped, RowIsCommanded
  <1>1. CASE Deactivate \/ Drift \/ UNCHANGED vars
    BY <1>1 DEF Deactivate, Drift, vars
  <1>2. ASSUME NEW w \in Writers, Begin(w) \/ CatalogsActive(w) \/ NameFree(w)
        PROVE  RowIsCommanded'
    BY <1>2 DEF Begin, CatalogsActive, NameFree, Advance
  <1>3. ASSUME NEW w \in Writers, Finish(w)
        PROVE  RowIsCommanded'
    BY <1>3 DEF Finish
  <1>4. ASSUME NEW w \in Writers, Construct(w)
        PROVE  RowIsCommanded'
    BY <1>4 DEF Construct, Advance
  <1>5. ASSUME NEW w \in Writers, Flush(w)
        PROVE  RowIsCommanded'
    <2>1. row'[w].name = row[w].name
      BY <1>5 DEF Flush, Advance, Rows
    <2> QED
      BY <1>5, <2>1 DEF Flush, Advance
  <1> QED
    BY <1>1, <1>2, <1>3, <1>4, <1>5
    DEF Next, CatalogMissing, CatalogInactive, NameTaken, Lose, Fail, Commit,
        CommitUnacknowledged

-----------------------------------------------------------------------------
LEMMA Invariant == Spec => []Inv
  <1>1. Inv /\ [Next]_vars => Inv'
    BY NextTyped, NextDistinct, NextFew, NextCommanded DEF Inv, Typed, Distinct
  <1> QED
    BY <1>1, InitInv, PTL DEF Spec

\* Every variable of the creation model keeps its type.
THEOREM CreationTyped == Spec => []TypeOK
  <1>1. Inv => TypeOK
    BY DEF Inv
  <1> QED
    BY <1>1, Invariant, PTL

\* No two entities share an id: neither overlapping calls, nor a clock that is set back,
\* nor an exhausted sequence repeats one.
THEOREM IdsNeverRepeat == Spec => []IdsDistinct
  <1>1. Inv => IdsDistinct
    BY DEF Inv
  <1> QED
    BY <1>1, Invariant, PTL

\* No more resources carry one name than requests can overlap.
THEOREM DuplicatesNeedOverlap == Spec => []DuplicatesOverlap
  <1>1. Inv => DuplicatesOverlap
    <2> SUFFICES ASSUME Inv, NEW name \in Names
                 PROVE  Cardinality(Named(resources, name)) <= Cardinality(Writers)
      BY DEF DuplicatesOverlap
    <2>1. Cardinality(Named(resources, name)) \in Nat /\ Cardinality(Writers) \in Nat
      BY CreationConstants, FS_CardinalityType DEF Inv, FewPast
    <2> QED
      BY <2>1, PastIsFinite DEF Inv, FewPast
  <1> QED
    BY <1>1, Invariant, PTL

\* Where the documented promise about names holds: when creations do not overlap, no two
\* resources carry one name, whatever is lost or repeated.  (The run that violates
\* NamesUnique lets two overlap.)
THEOREM NamesUniqueAlone ==
  ASSUME \A v, w \in Writers : v = w
  PROVE  Spec => []NamesUnique
  <1>1. IsFiniteSet(Writers) /\ Cardinality(Writers) <= 1
    <2>1. CASE Writers = {}
      BY <2>1, FS_EmptySet
    <2>2. CASE Writers # {}
      <3>1. PICK w \in Writers : TRUE
        BY <2>2
      <3>2. Writers = {w}
        BY <3>1
      <3>3. Cardinality({w}) = 1 /\ IsFiniteSet({w})
        BY FS_Singleton
      <3> QED
        BY <3>2, <3>3
    <2> QED
      BY <2>1, <2>2
  <1>2. Inv => NamesUnique
    <2> SUFFICES ASSUME Inv, NEW r \in resources, NEW s \in resources, r.name = s.name, r # s
                 PROVE  FALSE
      BY DEF NamesUnique
    <2> DEFINE N == Named(resources, r.name)
    <2>1. r.name \in Names
      BY DEF Inv, TypeOK, Rows
    <2>2. IsFiniteSet(N) /\ Cardinality(N) <= 1
      <3>1. /\ IsFiniteSet(N)
            /\ Cardinality(N) + Cardinality(Past(r.name)) <= Cardinality(Writers)
        BY <2>1 DEF Inv, FewPast
      <3>2. /\ Cardinality(N) \in Nat /\ Cardinality(Past(r.name)) \in Nat
            /\ Cardinality(Writers) \in Nat
        BY <1>1, <3>1, PastIsFinite, FS_CardinalityType
      <3> HIDE DEF N
      <3> QED
        BY <1>1, <3>1, <3>2
    <2>3. r \in N /\ s \in N \ {r}
      BY DEF Named
    <2>4. IsFiniteSet(N \ {r}) /\ Cardinality(N \ {r}) = Cardinality(N) - 1
      BY <2>2, <2>3, FS_RemoveElement
    <2>5. Cardinality(N) \in Nat /\ Cardinality(N \ {r}) \in Nat
      BY <2>2, <2>4, FS_CardinalityType
    <2>6. Cardinality(N \ {r}) = 0
      BY <2>2, <2>4, <2>5
    <2>7. N \ {r} = {}
      BY <2>4, <2>6, FS_EmptySet
    <2> QED
      BY <2>3, <2>7
  <1> QED
    BY <1>2, Invariant, PTL

-----------------------------------------------------------------------------
(***************************************************************************)
(* The order of the rows                                                   *)
(***************************************************************************)
Keys == [at : Instants \union {0}, id : Ids]

LEMMA KeyNumbers ==
  ASSUME NEW k \in Keys
  PROVE  k.at \in Nat /\ k.id \in Ids /\ k.id.ms \in Nat /\ k.id.seq \in Nat
  <1>1. k.at \in Instants \union {0} /\ k.id \in Ids
    BY DEF Keys
  <1>2. k.at \in Nat
    <2>1. \A x \in Instants \union {0} : x \in Nat
      BY UuidConstants
    <2> QED
      BY <1>1, <2>1
  <1>3. k.id.ms \in Nat /\ k.id.seq \in Nat
    BY <1>1, IdsAreNumbers
  <1> QED
    BY <1>1, <1>2, <1>3

LEMMA KeyOfRow ==
  ASSUME NEW r \in Rows
  PROVE  Key(r) \in Keys
  BY DEF Rows, Keys, Key

\* ORDER BY created_at, id is a strict total order of the keys.
LEMMA BeforeIsAnOrder ==
  ASSUME NEW k \in Keys, NEW l \in Keys
  PROVE  /\ ~Before(k, k)
         /\ ~(Before(k, l) /\ Before(l, k))
         /\ k = l \/ Before(k, l) \/ Before(l, k)
         /\ \A m \in Keys : Before(k, l) /\ Before(l, m) => Before(k, m)
  <1>1. /\ k.at \in Nat /\ k.id.ms \in Nat /\ k.id.seq \in Nat
        /\ l.at \in Nat /\ l.id.ms \in Nat /\ l.id.seq \in Nat
    BY KeyNumbers
  <1>2. ~Before(k, k) /\ ~(Before(k, l) /\ Before(l, k))
    BY <1>1 DEF Before, IdBefore
  <1>3. ASSUME k.at = l.at, k.id.ms = l.id.ms, k.id.seq = l.id.seq
        PROVE  k = l
    <2>1. k.id = [ms |-> k.id.ms, seq |-> k.id.seq] /\ l.id = [ms |-> l.id.ms, seq |-> l.id.seq]
      BY KeyNumbers DEF Ids
    <2>2. k = [at |-> k.at, id |-> k.id] /\ l = [at |-> l.at, id |-> l.id]
      BY DEF Keys
    <2> QED
      BY <1>3, <2>1, <2>2
  <1>4. k = l \/ Before(k, l) \/ Before(l, k)
    <2>1. CASE k.at = l.at /\ k.id.ms = l.id.ms /\ k.id.seq = l.id.seq
      BY <1>3, <2>1
    <2>2. CASE ~(k.at = l.at /\ k.id.ms = l.id.ms /\ k.id.seq = l.id.seq)
      BY <1>1, <2>2 DEF Before, IdBefore
    <2> QED
      BY <2>1, <2>2
  <1>5. ASSUME NEW m \in Keys, Before(k, l), Before(l, m)
        PROVE  Before(k, m)
    <2>1. m.at \in Nat /\ m.id.ms \in Nat /\ m.id.seq \in Nat
      BY KeyNumbers
    <2> QED
      BY <1>1, <1>5, <2>1 DEF Before, IdBefore
  <1> QED
    BY <1>2, <1>4, <1>5

Sorted(s) == \A i, j \in DOMAIN s : i < j => Before(s[i], s[j])

\* A sorting of a finite set has every member of it.
LEMMA SortingCovers ==
  ASSUME NEW K, K \subseteq Keys, IsFiniteSet(K), NEW s \in [1..Cardinality(K) -> K], Sorted(s)
  PROVE  \A k \in K : \E i \in 1..Cardinality(K) : s[i] = k
  <1> DEFINE n == Cardinality(K)
  <1>1. n \in Nat
    BY FS_CardinalityType
  <1>2. s \in Injection(1..n, K)
    <2>1. ASSUME NEW i \in 1..n, NEW j \in 1..n, s[i] = s[j]
          PROVE  i = j
      <3>1. i \in Int /\ j \in Int /\ s[i] \in Keys
        BY <1>1
      <3>2. ~(i < j) /\ ~(j < i)
        BY <2>1, <3>1, BeforeIsAnOrder DEF Sorted
      <3> QED
        BY <3>1, <3>2
    <2> QED
      BY <2>1 DEF Injection, IsInjective
  <1>3. IsFiniteSet(1..n) /\ Cardinality(1..n) = n
    <2>1. IsFiniteSet(1..n) /\ Cardinality(1..n) = IF 1 > n THEN 0 ELSE n - 1 + 1
      BY <1>1, FS_Interval
    <2> QED
      BY <1>1, <2>1
  <1>4. s \in Surjection(1..n, K)
    BY <1>2, <1>3, FS_Injection
  <1> QED
    BY <1>4 DEF Surjection

\* A finite set of keys can be sorted: each key goes to the place after those before it.
LEMMA SortingExists ==
  ASSUME NEW K, K \subseteq Keys, IsFiniteSet(K)
  PROVE  \E s \in [1..Cardinality(K) -> K] : Sorted(s)
  <1> DEFINE n == Cardinality(K)
             Earlier(k) == {l \in K : Before(l, k)}
             rank == [k \in K |-> Cardinality(Earlier(k)) + 1]
  <1>1. n \in Nat
    BY FS_CardinalityType
  <1>2. \A k \in K : /\ IsFiniteSet(Earlier(k)) /\ Cardinality(Earlier(k)) \in Nat
                     /\ Cardinality(Earlier(k)) < n
    <2> SUFFICES ASSUME NEW k \in K
                 PROVE  /\ IsFiniteSet(Earlier(k)) /\ Cardinality(Earlier(k)) \in Nat
                        /\ Cardinality(Earlier(k)) < n
      OBVIOUS
    <2>1. Earlier(k) \subseteq K /\ k \notin Earlier(k)
      BY BeforeIsAnOrder
    <2> HIDE DEF Earlier
    <2>2. Earlier(k) # K
      BY <2>1
    <2>3. IsFiniteSet(Earlier(k)) /\ Cardinality(Earlier(k)) \in Nat
      BY <2>1, FS_Subset, FS_CardinalityType
    <2>4. Cardinality(Earlier(k)) <= n /\ Cardinality(Earlier(k)) # n
      BY <2>1, <2>2, FS_Subset
    <2> QED
      BY <1>1, <2>3, <2>4
  <1>3. ASSUME NEW k \in K, NEW l \in K, Before(k, l)
        PROVE  rank[k] < rank[l]
    <2>1. Earlier(k) \subseteq Earlier(l) /\ k \in Earlier(l) /\ k \notin Earlier(k)
      BY <1>3, BeforeIsAnOrder
    <2> HIDE DEF Earlier
    <2>2. Cardinality(Earlier(k)) <= Cardinality(Earlier(l))
          /\ Cardinality(Earlier(k)) # Cardinality(Earlier(l))
      BY <1>2, <2>1, FS_Subset
    <2> QED
      BY <1>2, <2>2
  <1>4. rank \in [K -> 1..n]
    <2> HIDE DEF Earlier
    <2> QED
      BY <1>1, <1>2
  <1> HIDE DEF rank
  <1>5. rank \in Injection(K, 1..n)
    <2>1. ASSUME NEW k \in K, NEW l \in K, rank[k] = rank[l]
          PROVE  k = l
      <3>1. rank[k] \in Int /\ rank[l] \in Int
        BY <1>4
      <3>2. ~Before(k, l) /\ ~Before(l, k)
        BY <1>3, <2>1, <3>1
      <3> QED
        BY <3>2, BeforeIsAnOrder
    <2> QED
      BY <1>4, <2>1 DEF Injection, IsInjective
  <1>6. rank \in Surjection(K, 1..n)
    <2>1. IsFiniteSet(1..n) /\ Cardinality(1..n) = IF 1 > n THEN 0 ELSE n - 1 + 1
      BY <1>1, FS_Interval
    <2>2. Cardinality(1..n) = Cardinality(K)
      BY <1>1, <2>1
    <2> QED
      BY <1>5, <2>1, <2>2, FS_Injection
  <1> DEFINE s == [i \in 1..n |-> CHOOSE k \in K : rank[k] = i]
  <1>7. \A i \in 1..n : s[i] \in K /\ rank[s[i]] = i
    BY <1>6 DEF Surjection
  <1>8. s \in [1..n -> K]
    BY <1>7
  <1>9. ASSUME NEW i \in 1..n, NEW j \in 1..n, i < j
        PROVE  Before(s[i], s[j])
    <2>1. s[i] \in K /\ s[j] \in K /\ rank[s[i]] = i /\ rank[s[j]] = j
      BY <1>7
    <2>2. i \in Int /\ j \in Int
      OBVIOUS
    <2> HIDE DEF s
    <2>3. s[i] # s[j]
      BY <1>9, <2>1, <2>2
    <2>4. ~Before(s[j], s[i])
      BY <1>3, <1>9, <2>1, <2>2
    <2> QED
      BY <2>1, <2>3, <2>4, BeforeIsAnOrder
  <1> HIDE DEF s
  <1> QED
    BY <1>8, <1>9 DEF Sorted

\* The statement returns each row once, in the order of the keys.
LEMMA OrderedRows ==
  ASSUME NEW R, R \subseteq Rows, IsFiniteSet(R)
  PROVE  /\ Ordered(R) \in Seq({Key(r) : r \in R})
         /\ Sorted(Ordered(R))
         /\ \A r \in R : \E i \in 1..Len(Ordered(R)) : Ordered(R)[i] = Key(r)
  <1> DEFINE K == {Key(r) : r \in R}
             keyOf == [r \in R |-> Key(r)]
  <1>1. K \subseteq Keys
    BY KeyOfRow
  <1>2. IsFiniteSet(K)
    <2>1. keyOf \in Surjection(R, K)
      BY DEF Surjection
    <2> QED
      BY <2>1, FS_Surjection
  <1>3. \A r \in R : Key(r) \in K
    OBVIOUS
  <1>4. Ordered(R) = CHOOSE s \in [1..Cardinality(K) -> K] : Sorted(s)
    BY DEF Ordered, Sorted
  <1> HIDE DEF K
  <1>5. Ordered(R) \in [1..Cardinality(K) -> K] /\ Sorted(Ordered(R))
    BY <1>1, <1>2, <1>4, SortingExists
  <1>6. Cardinality(K) \in Nat
    BY <1>2, FS_CardinalityType
  <1>7. Ordered(R) \in Seq(K) /\ Len(Ordered(R)) = Cardinality(K)
    <2>1. Ordered(R) \in Seq(K)
      BY <1>5, <1>6, SeqDef
    <2>2. DOMAIN Ordered(R) = 1..Cardinality(K) /\ Len(Ordered(R)) \in Nat
          /\ DOMAIN Ordered(R) = 1..Len(Ordered(R))
      BY <1>5, <2>1, LenProperties
    <2> QED
      BY <1>6, <2>1, <2>2
  <1>8. \A k \in K : \E i \in 1..Cardinality(K) : Ordered(R)[i] = k
    BY <1>1, <1>2, <1>5, SortingCovers
  <1>9. \A r \in R : \E i \in 1..Len(Ordered(R)) : Ordered(R)[i] = Key(r)
    BY <1>3, <1>7, <1>8
  <1> QED
    BY <1>5, <1>7, <1>9 DEF K
-----------------------------------------------------------------------------
(***************************************************************************)
(* A page                                                                  *)
(***************************************************************************)
LEMMA UptoIsPrefix ==
  ASSUME NEW S, NEW s \in Seq(S), NEW n \in Nat
  PROVE  /\ Upto(s, n) \in Seq(S)
         /\ Len(Upto(s, n)) = IF n < Len(s) THEN n ELSE Len(s)
         /\ \A i \in 1..Len(Upto(s, n)) : i \in 1..Len(s) /\ Upto(s, n)[i] = s[i]
  <1> DEFINE m == IF n < Len(s) THEN n ELSE Len(s)
  <1>1. Len(s) \in Nat
    BY LenProperties
  <1>2. m \in Nat /\ m <= Len(s)
    BY <1>1
  <1>3. \A i \in 1..m : i \in 1..Len(s) /\ s[i] \in S
    BY <1>1, <1>2, ElementOfSeq
  <1> HIDE DEF m
  <1>4. /\ SubSeq(s, 1, m) \in Seq(S)
        /\ Len(SubSeq(s, 1, m)) = IF 1 <= m THEN m - 1 + 1 ELSE 0
        /\ \A i \in 1..(m - 1 + 1) : SubSeq(s, 1, m)[i] = s[1 + i - 1]
    BY <1>2, <1>3, SubSeqProperties
  <1>5. Len(SubSeq(s, 1, m)) = m
    BY <1>2, <1>4
  <1>6. \A i \in 1..m : SubSeq(s, 1, m)[i] = s[i]
    <2> SUFFICES ASSUME NEW i \in 1..m
                 PROVE  SubSeq(s, 1, m)[i] = s[i]
      OBVIOUS
    <2>1. i \in 1..(m - 1 + 1) /\ 1 + i - 1 = i
      BY <1>2
    <2> QED
      BY <1>4, <2>1
  <1>7. Upto(s, n) = SubSeq(s, 1, m)
    BY DEF Upto, m
  <1> QED
    BY <1>3, <1>4, <1>5, <1>6, <1>7 DEF m

LEMMA NoCursorEncodesNothing ==
  ASSUME NEW k
  PROVE  Encode(k) # NoCursor /\ Decodable(Encode(k))
  <1>1. Encode(k).v = 1 /\ NoCursor.v = 0
    BY DEF Encode, NoCursor
  <1> QED
    BY <1>1 DEF Decodable

\* The keys of a page are in order, and the next position separates them from the rest of
\* the rows R; without one there is no rest.
Separates(R, vis, next) ==
  /\ vis \in Seq({Key(r) : r \in R})
  /\ Sorted(vis)
  /\ next = NoCursor \/ (Len(vis) \in Nat \ {0} /\ next = Encode(vis[Len(vis)]))
  /\ \A r \in R : \/ \E i \in 1..Len(vis) : vis[i] = Key(r)
                  \/ next # NoCursor /\ Before(vis[Len(vis)], Key(r))

\* The extra row that is asked for tells whether there is a rest.
LEMMA PageSeparates ==
  ASSUME NEW R, R \subseteq Rows, IsFiniteSet(R), NEW size \in Nat \ {0},
         NEW fetched, fetched = Upto(Ordered(R), size + 1)
  PROVE  Separates(R, Visible(fetched, size), NextPosition(fetched, size))
  <1> DEFINE K == {Key(r) : r \in R}
             vis == Visible(fetched, size)
             next == NextPosition(fetched, size)
             all == Ordered(R)
  <1>1. /\ all \in Seq(K) /\ Sorted(all) /\ Len(all) \in Nat /\ DOMAIN all = 1..Len(all)
        /\ \A r \in R : \E i \in 1..Len(all) : all[i] = Key(r)
    <2>1. /\ all \in Seq(K) /\ Sorted(all)
          /\ \A r \in R : \E i \in 1..Len(all) : all[i] = Key(r)
      BY OrderedRows
    <2> HIDE DEF K, all
    <2> QED
      BY <2>1, LenProperties
  <1> HIDE DEF K, all
  <1>2. /\ fetched \in Seq(K)
        /\ Len(fetched) = IF size + 1 < Len(all) THEN size + 1 ELSE Len(all)
        /\ \A i \in 1..Len(fetched) : i \in 1..Len(all) /\ fetched[i] = all[i]
    BY <1>1, UptoIsPrefix DEF all
  <1>3. /\ vis \in Seq(K)
        /\ Len(vis) = IF size < Len(fetched) THEN size ELSE Len(fetched)
        /\ \A i \in 1..Len(vis) : i \in 1..Len(fetched) /\ vis[i] = fetched[i]
    BY <1>2, UptoIsPrefix DEF Visible
  <1> HIDE DEF vis
  <1>4. Len(vis) \in Nat /\ DOMAIN vis = 1..Len(vis) /\ Len(fetched) \in Nat
    BY <1>2, <1>3, LenProperties
  <1>5. \A i \in 1..Len(vis) : i \in 1..Len(all) /\ vis[i] = all[i]
    BY <1>2, <1>3
  <1>6. Sorted(vis)
    BY <1>1, <1>4, <1>5 DEF Sorted
  <1>7. CASE Len(all) <= size
    <2>1. Len(fetched) = Len(all) /\ Len(vis) = Len(all)
      BY <1>1, <1>2, <1>3, <1>7
    <2>2. next = NoCursor
      BY <1>1, <1>7, <2>1 DEF NextPosition
    <2>3. \A r \in R : \E i \in 1..Len(vis) : vis[i] = Key(r)
      BY <1>1, <1>5, <2>1
    <2> QED
      BY <1>3, <1>6, <2>2, <2>3 DEF K, vis, Separates
  <1>8. CASE ~(Len(all) <= size)
    <2>1. Len(fetched) = size + 1 /\ Len(vis) = size
      BY <1>1, <1>2, <1>3, <1>8
    <2>2. vis # <<>> /\ Len(vis) \in Nat \ {0}
      BY <1>3, <2>1, EmptySeq
    <2>3. next = Encode(vis[Len(vis)])
      BY <2>1, <2>2 DEF NextPosition, Last, vis
    <2>4. ASSUME NEW r \in R
          PROVE  \/ \E i \in 1..Len(vis) : vis[i] = Key(r)
                 \/ Before(vis[Len(vis)], Key(r))
      <3>1. PICK i \in 1..Len(all) : all[i] = Key(r)
        BY <1>1
      <3>2. CASE i <= size
        <4>1. i \in 1..Len(vis)
          BY <1>1, <2>1, <3>2
        <4> QED
          BY <1>5, <3>1, <4>1
      <3>3. CASE ~(i <= size)
        <4>1. size \in 1..Len(vis) /\ size \in 1..Len(all) /\ size < i
          BY <1>1, <1>8, <2>1, <3>3
        <4>2. Before(all[size], all[i])
          BY <1>1, <3>1, <4>1 DEF Sorted
        <4> QED
          BY <1>5, <2>1, <3>1, <4>1, <4>2
      <3> QED
        BY <3>2, <3>3
    <2>5. next # NoCursor
      BY <2>3, NoCursorEncodesNothing
    <2> QED
      BY <1>3, <1>6, <2>2, <2>3, <2>4, <2>5 DEF K, vis, Separates
  <1> QED
    BY <1>7, <1>8
-----------------------------------------------------------------------------
(***************************************************************************)
(* The inductive invariant of a walk.  The cursor is the key of the last   *)
(* row shown, which ties the pages together; each row that has matched     *)
(* since the first page has been shown or comes after the cursor.          *)
(***************************************************************************)
Cursors == {NoCursor} \union {Encode(k) : k \in Keys}

Walks ==
  [status : {"none", "walking", "done", "invalid"}, filter : Filters \union {{}},
   size : PageSizes \union {0}, cursor : Cursors, seen : Seq(Keys), steady : SUBSET Ids]

\* In a walk w that goes on at the cursor, the rows have been shown in order, and up to
\* the cursor.
ShownUpTo(w, cursor) ==
  /\ Sorted(w.seen)
  /\ cursor # NoCursor => w.seen # <<>> /\ cursor = Encode(w.seen[Len(w.seen)])

Shown(w, key) == \E i \in 1..Len(w.seen) : w.seen[i] = key

Ahead(w, key) == w.seen # <<>> => Before(w.seen[Len(w.seen)], key)

SteadyKept(w, cursor) ==
  \A i \in w.steady :
    \E r \in resources : /\ r.id = i /\ Matches(r, w.filter)
                         /\ Shown(w, Key(r)) \/ (cursor # NoCursor /\ Ahead(w, Key(r)))

WalkInv ==
  /\ walk \in Walks
  /\ walk.status = "walking" <=> walk.cursor # NoCursor
  /\ walk.status = "walking" => walk.size >= MinPageSize
  /\ ShownUpTo(walk, walk.cursor)
  /\ SteadyKept(walk, walk.cursor)

\* A page goes on where the last one ended: in order, and with no steady row left out.
LEMMA ShowKeepsWalk ==
  ASSUME resources \subseteq Rows, IsFiniteSet(resources),
         NEW w \in Walks, w.size >= MinPageSize, NEW cursor \in Cursors,
         ShownUpTo(w, cursor), cursor = NoCursor => w.seen = <<>>,
         \A i \in w.steady :
           \E r \in resources : /\ r.id = i /\ Matches(r, w.filter)
                                /\ Shown(w, Key(r)) \/ Ahead(w, Key(r)),
         Show(w, cursor)
  PROVE  WalkInv'
  <1> DEFINE R == Selected(w.filter, cursor)
             fetched == Fetched(w.filter, cursor, w.size)
             vis == Visible(fetched, w.size)
             next == NextPosition(fetched, w.size)
             seen == w.seen \o vis
             last == w.seen[Len(w.seen)]
  <1>1. /\ walk' = [w EXCEPT !.status = IF next = NoCursor THEN "done" ELSE "walking",
                             !.cursor = next, !.seen = seen]
        /\ UNCHANGED <<vars, matching>>
    BY DEF Show
  <1>2. w.size \in Nat \ {0}
    <2>1. w.size \in PageSizes \union {0}
      BY DEF Walks
    <2>2. \A n \in PageSizes \union {0} : n \in Int
      <3>1. \A n \in PageSizes : n \in Int
        BY ListingConstants
      <3> QED
        BY <3>1
    <2>3. w.size \in Int
      BY <2>1, <2>2
    <2> QED
      BY <2>3, ListingConstants
  <1>3. R \subseteq resources /\ R \subseteq Rows /\ IsFiniteSet(R)
    <2>1. R \subseteq resources
      BY DEF Selected
    <2> QED
      BY <2>1, FS_Subset
  <1>4. fetched = Upto(Ordered(R), w.size + 1)
    BY DEF Fetched
  <1>5. /\ vis \in Seq({Key(r) : r \in R}) /\ Sorted(vis)
        /\ next = NoCursor \/ (Len(vis) \in Nat \ {0} /\ next = Encode(vis[Len(vis)]))
        /\ \A r \in R : \/ \E i \in 1..Len(vis) : vis[i] = Key(r)
                        \/ next # NoCursor /\ Before(vis[Len(vis)], Key(r))
    <2> HIDE DEF R, fetched
    <2>1. Separates(R, vis, next)
      BY <1>2, <1>3, <1>4, PageSeparates
    <2> HIDE DEF vis, next
    <2> QED
      BY <2>1 DEF Separates
  <1> HIDE DEF R, fetched, vis, next
  <1>6. w.seen \in Seq(Keys) /\ Len(w.seen) \in Nat /\ DOMAIN w.seen = 1..Len(w.seen)
        /\ \A i \in 1..Len(w.seen) : w.seen[i] \in Keys
    <2>1. w.seen \in Seq(Keys)
      BY DEF Walks
    <2> QED
      BY <2>1, LenProperties, ElementOfSeq
  <1>7. /\ vis \in Seq(Keys) /\ Len(vis) \in Nat /\ DOMAIN vis = 1..Len(vis)
        /\ \A i \in 1..Len(vis) : vis[i] \in Keys /\ \E r \in R : vis[i] = Key(r)
    <2>1. {Key(r) : r \in R} \subseteq Keys
      BY <1>3, KeyOfRow
    <2>2. vis \in Seq(Keys)
      BY <1>5, <2>1, SeqMonotonic
    <2>3. \A i \in 1..Len(vis) : vis[i] \in {Key(r) : r \in R}
      BY <1>5, ElementOfSeq
    <2>4. Len(vis) \in Nat /\ DOMAIN vis = 1..Len(vis)
      BY <2>2, LenProperties
    <2> QED
      BY <2>1, <2>2, <2>3, <2>4
  <1>8. /\ seen \in Seq(Keys) /\ Len(seen) = Len(w.seen) + Len(vis)
        /\ DOMAIN seen = 1..Len(seen)
        /\ \A i \in 1..Len(w.seen) : i \in 1..Len(seen) /\ seen[i] = w.seen[i]
        /\ \A i \in 1..Len(vis) : Len(w.seen) + i \in 1..Len(seen)
                                  /\ seen[Len(w.seen) + i] = vis[i]
        /\ \A i \in 1..Len(seen) : i \in 1..Len(w.seen) \/ i - Len(w.seen) \in 1..Len(vis)
    <2>1. /\ seen \in Seq(Keys) /\ Len(seen) = Len(w.seen) + Len(vis)
          /\ \A i \in 1..(Len(w.seen) + Len(vis)) :
               seen[i] = IF i <= Len(w.seen) THEN w.seen[i] ELSE vis[i - Len(w.seen)]
      BY <1>6, <1>7, ConcatProperties
    <2>2. DOMAIN seen = 1..Len(seen)
      BY <2>1, LenProperties
    <2> HIDE DEF seen
    <2>3. \A i \in 1..Len(w.seen) : i \in 1..Len(seen) /\ seen[i] = w.seen[i]
      BY <1>6, <1>7, <2>1
    <2>4. \A i \in 1..Len(vis) : /\ Len(w.seen) + i \in 1..Len(seen)
                                 /\ ~(Len(w.seen) + i <= Len(w.seen))
                                 /\ (Len(w.seen) + i) - Len(w.seen) = i
      BY <1>6, <1>7, <2>1
    <2>5. \A i \in 1..Len(vis) : seen[Len(w.seen) + i] = vis[i]
      BY <2>1, <2>4
    <2>6. \A i \in 1..Len(seen) : i \in 1..Len(w.seen) \/ i - Len(w.seen) \in 1..Len(vis)
      BY <1>6, <1>7, <2>1
    <2> QED
      BY <2>1, <2>2, <2>3, <2>4, <2>5, <2>6
  <1> HIDE DEF seen
  <1>9. \A i \in 1..Len(w.seen), j \in 1..Len(vis) : Before(w.seen[i], vis[j])
    <2> SUFFICES ASSUME NEW i \in 1..Len(w.seen), NEW j \in 1..Len(vis)
                 PROVE  Before(w.seen[i], vis[j])
      OBVIOUS
    <2>1. w.seen # <<>> /\ cursor # NoCursor /\ cursor = Encode(last)
      BY EmptySeq DEF ShownUpTo
    <2>2. Len(w.seen) \in 1..Len(w.seen) /\ last \in Keys
      BY <1>6
    <2>3. PICK r \in R : vis[j] = Key(r)
      BY <1>7
    <2>4. Before(last, Key(r))
      <3>1. Before([at |-> cursor.at, id |-> cursor.id], Key(r))
        BY <2>1, <2>3 DEF R, Selected, Follows
      <3>2. cursor.at = last.at /\ cursor.id = last.id
        BY <2>1 DEF Encode
      <3> HIDE DEF last
      <3> QED
        BY <3>1, <3>2 DEF Before
    <2>5. CASE i = Len(w.seen)
      BY <2>3, <2>4, <2>5
    <2>6. CASE i # Len(w.seen)
      <3>1. i < Len(w.seen)
        BY <1>6, <2>6
      <3>2. Before(w.seen[i], last)
        BY <1>6, <2>2, <3>1 DEF ShownUpTo, Sorted
      <3>3. w.seen[i] \in Keys /\ vis[j] \in Keys
        BY <1>6, <1>7
      <3> HIDE DEF last
      <3> QED
        BY <2>2, <2>3, <2>4, <3>2, <3>3, BeforeIsAnOrder
    <2> QED
      BY <2>5, <2>6
  <1>10. Sorted(seen)
    <2> SUFFICES ASSUME NEW i \in 1..Len(seen), NEW j \in 1..Len(seen), i < j
                 PROVE  Before(seen[i], seen[j])
      BY <1>8 DEF Sorted
    <2>1. CASE j \in 1..Len(w.seen)
      <3>1. i \in 1..Len(w.seen)
        BY <1>6, <2>1
      <3> QED
        BY <1>6, <1>8, <2>1, <3>1 DEF ShownUpTo, Sorted
    <2>2. CASE j - Len(w.seen) \in 1..Len(vis) /\ i \in 1..Len(w.seen)
      <3>1. Len(w.seen) + (j - Len(w.seen)) = j
        BY <1>6
      <3>2. seen[i] = w.seen[i] /\ seen[Len(w.seen) + (j - Len(w.seen))] = vis[j - Len(w.seen)]
        BY <1>8, <2>2, Zenon
      <3>3. Before(w.seen[i], vis[j - Len(w.seen)])
        BY <1>9, <2>2, Zenon
      <3> QED
        BY <3>1, <3>2, <3>3, Zenon
    <2>3. CASE j - Len(w.seen) \in 1..Len(vis) /\ i - Len(w.seen) \in 1..Len(vis)
      <3>1. /\ Len(w.seen) + (j - Len(w.seen)) = j /\ Len(w.seen) + (i - Len(w.seen)) = i
            /\ i - Len(w.seen) < j - Len(w.seen)
        BY <1>6
      <3>2. Before(vis[i - Len(w.seen)], vis[j - Len(w.seen)])
        BY <1>5, <1>7, <2>3, <3>1 DEF Sorted
      <3>3. seen[Len(w.seen) + (i - Len(w.seen))] = vis[i - Len(w.seen)]
        BY <1>8, <2>3, Zenon
      <3>4. seen[Len(w.seen) + (j - Len(w.seen))] = vis[j - Len(w.seen)]
        BY <1>8, <2>3, Zenon
      <3>5. seen[i] = vis[i - Len(w.seen)] /\ seen[j] = vis[j - Len(w.seen)]
        BY <3>1, <3>3, <3>4, Zenon
      <3> QED
        BY <3>2, <3>5, Zenon
    <2>4. /\ i \in 1..Len(w.seen) \/ i - Len(w.seen) \in 1..Len(vis)
          /\ j \in 1..Len(w.seen) \/ j - Len(w.seen) \in 1..Len(vis)
      BY <1>8, Zenon
    <2>5. j \in 1..Len(w.seen) => i \in 1..Len(w.seen)
      BY <1>6
    <2> QED
      BY <2>1, <2>2, <2>3, <2>4, <2>5, Zenon
  <1>11. next = NoCursor \/ (seen # <<>> /\ next = Encode(seen[Len(seen)]) /\ next \in Cursors)
    <2> SUFFICES ASSUME next # NoCursor
                 PROVE  seen # <<>> /\ next = Encode(seen[Len(seen)]) /\ next \in Cursors
      OBVIOUS
    <2>1. Len(vis) \in 1..Len(vis) /\ next = Encode(vis[Len(vis)])
      BY <1>5
    <2>2. seen[Len(seen)] = vis[Len(vis)]
      BY <1>8, <2>1
    <2>3. Len(seen) # 0
      BY <1>6, <1>7, <1>8, <2>1
    <2> QED
      BY <1>7, <2>1, <2>2, <2>3, EmptySeq DEF Cursors
  <1>12. walk' \in Walks
    BY <1>1, <1>8, <1>11 DEF Walks, Cursors
  <1>13. /\ walk'.status = IF next = NoCursor THEN "done" ELSE "walking"
         /\ walk'.cursor = next /\ walk'.seen = seen /\ walk'.steady = w.steady
         /\ walk'.filter = w.filter /\ walk'.size = w.size
    BY <1>1 DEF Walks
  <1>14. ShownUpTo(walk', walk'.cursor)
    BY <1>10, <1>11, <1>13 DEF ShownUpTo
  <1>15. SteadyKept(walk, walk.cursor)'
    <2> SUFFICES ASSUME NEW i \in w.steady
                 PROVE  \E r \in resources :
                          /\ r.id = i /\ Matches(r, w.filter)
                          /\ \/ \E j \in 1..Len(seen) : seen[j] = Key(r)
                             \/ next # NoCursor /\ (seen # <<>> => Before(seen[Len(seen)], Key(r)))
      BY <1>1, <1>13 DEF SteadyKept, Shown, Ahead, vars, Matches
    <2>1. PICK r \in resources : /\ r.id = i /\ Matches(r, w.filter)
                                 /\ Shown(w, Key(r)) \/ Ahead(w, Key(r))
      OBVIOUS
    <2>2. CASE Shown(w, Key(r))
      BY <1>8, <2>1, <2>2 DEF Shown
    <2>3. CASE Ahead(w, Key(r))
      <3>1. r \in R
        <4>1. CASE cursor = NoCursor
          BY <2>1, <4>1 DEF R, Selected
        <4>2. CASE cursor # NoCursor
          <5>1. Before(last, Key(r)) /\ cursor = Encode(last)
            BY <2>3, <4>2 DEF Ahead, ShownUpTo
          <5>2. cursor.at = last.at /\ cursor.id = last.id
            BY <5>1 DEF Encode
          <5> HIDE DEF last
          <5>3. Before([at |-> cursor.at, id |-> cursor.id], Key(r))
            BY <5>1, <5>2 DEF Before
          <5> QED
            BY <2>1, <5>3 DEF R, Selected, Follows
        <4> QED
          BY <4>1, <4>2
      <3>2. CASE \E j \in 1..Len(vis) : vis[j] = Key(r)
        BY <1>8, <2>1, <3>2
      <3>3. CASE next # NoCursor /\ Before(vis[Len(vis)], Key(r))
        <4>1. Len(vis) \in 1..Len(vis)
          BY <1>5, <3>3
        <4>2. seen[Len(seen)] = vis[Len(vis)]
          BY <1>8, <4>1
        <4> QED
          BY <2>1, <3>3, <4>2
      <3> QED
        BY <1>5, <3>1, <3>2, <3>3
    <2> QED
      BY <2>1, <2>2, <2>3
  <1> QED
    BY <1>12, <1>13, <1>14, <1>15 DEF WalkInv
-----------------------------------------------------------------------------
(***************************************************************************)
(* The creations beside a walk                                             *)
(***************************************************************************)
Stamped ==
  /\ \A w \in Writers : phase[w] = "commit" => row[w].at # 0
  /\ \A r \in resources : r.at # 0

\* Rows are added one by one, and are stamped when they become visible.
LEMMA CreationAddsStampedRows ==
  ASSUME Typed, Stamped, IsFiniteSet(resources), [Next]_vars
  PROVE  resources \subseteq resources' /\ IsFiniteSet(resources') /\ Stamped'
  <1> USE DEF Stamped, Typed, TypeOK, CommandTyped, RowTyped
  <1>1. CASE Deactivate \/ Drift \/ UNCHANGED vars
    BY <1>1 DEF Deactivate, Drift, vars
  <1>2. ASSUME NEW w \in Writers,
               Begin(w) \/ CatalogsActive(w) \/ NameFree(w) \/ Construct(w) \/ Flush(w)
        PROVE  resources' = resources /\ Stamped'
    <2>1. /\ resources' = resources
          /\ \A v \in Writers \ {w} : phase'[v] = phase[v] /\ row'[v] = row[v]
          /\ phase'[w] = "commit" => Flush(w)
      BY <1>2 DEF Begin, CatalogsActive, NameFree, Construct, Flush, Advance
    <2>2. ASSUME Flush(w)
          PROVE  row'[w].at # 0
      <3>1. row[w] \in Rows /\ row' = [row EXCEPT ![w].at = clock]
        BY <2>2 DEF Flush, Advance
      <3>2. row'[w].at = clock
        BY <3>1 DEF Rows
      <3> QED
        BY <3>2, CreationConstants
    <2> QED
      BY <2>1, <2>2
  <1>3. ASSUME NEW w \in Writers, Finish(w)
        PROVE  \A v \in Writers : phase'[v] = "commit" =>
                 phase[v] = "commit" /\ row'[v] = row[v]
    BY <1>3 DEF Finish
  <1>4. ASSUME NEW w \in Writers,
               CatalogMissing(w) \/ CatalogInactive(w) \/ NameTaken(w) \/ Lose(w)
        PROVE  resources' = resources /\ Stamped'
    BY <1>3, <1>4 DEF CatalogMissing, CatalogInactive, NameTaken, Lose, Fail
  <1>5. ASSUME NEW w \in Writers, Commit(w) \/ CommitUnacknowledged(w)
        PROVE  resources \subseteq resources' /\ IsFiniteSet(resources') /\ Stamped'
    <2>1. resources' = resources \union {row[w]} /\ row[w].at # 0 /\ Finish(w)
      BY <1>5 DEF Commit, CommitUnacknowledged, Store
    <2>2. IsFiniteSet(resources')
      BY <2>1, FS_AddElement
    <2> QED
      BY <1>3, <2>1, <2>2
  <1> QED
    BY <1>1, <1>2, <1>4, <1>5 DEF Next

MatchingTyped == matching \in [Ids -> SUBSET Attributes]

ListingInv ==
  /\ Typed
  /\ Stamped
  /\ IsFiniteSet(resources)
  /\ MatchingTyped
  /\ WalkInv

LEMMA WalkRecord ==
  ASSUME NEW status \in {"none", "walking", "done", "invalid"}, NEW filter \in Filters \union {{}},
         NEW size \in PageSizes \union {0}, NEW cursor \in Cursors, NEW seen \in Seq(Keys),
         NEW steady \in SUBSET Ids
  PROVE  [status |-> status, filter |-> filter, size |-> size, cursor |-> cursor,
          seen |-> seen, steady |-> steady] \in Walks
  BY DEF Walks

LEMMA NoWalkFields ==
  /\ NoWalk \in Walks
  /\ NoWalk.status = "none" /\ NoWalk.filter = {} /\ NoWalk.size = 0
  /\ NoWalk.cursor = NoCursor /\ NoWalk.seen = <<>> /\ NoWalk.steady = {}
  <1>1. /\ <<>> \in Seq(Keys) /\ NoCursor \in Cursors
        /\ "none" \in {"none", "walking", "done", "invalid"}
        /\ {} \in Filters \union {{}} /\ 0 \in PageSizes \union {0} /\ {} \in SUBSET Ids
    BY EmptySeq DEF Cursors
  <1>2. NoWalk \in Walks
    BY <1>1, WalkRecord DEF NoWalk
  <1> QED
    BY <1>2 DEF NoWalk

LEMMA InitListingInv == ListingInit => ListingInv
  <1> SUFFICES ASSUME ListingInit
               PROVE  ListingInv
    OBVIOUS
  <1>1. Typed
    BY InitInv DEF ListingInit, Inv, Typed
  <1>2. Stamped /\ IsFiniteSet(resources)
    BY FS_EmptySet DEF ListingInit, Init, Stamped
  <1>3. MatchingTyped
    BY DEF ListingInit, MatchingTyped
  <1>4. WalkInv
    <2>1. walk = NoWalk
      BY DEF ListingInit
    <2> QED
      BY <2>1, NoWalkFields DEF WalkInv, ShownUpTo, Sorted, SteadyKept
  <1> QED
    BY <1>1, <1>2, <1>3, <1>4 DEF ListingInv

\* A row that comes or changes beside a walk takes no steady row from it.
LEMMA ChangeKeepsWalk ==
  ASSUME ListingInv, Change
  PROVE  MatchingTyped' /\ WalkInv'
  <1>1. PICK r \in resources, a \in Attributes :
          /\ matching' = [matching EXCEPT ![r.id] = IF a \in @ THEN @ \ {a} ELSE @ \union {a}]
          /\ walk' = [walk EXCEPT !.steady =
                        IF walk.filter \subseteq matching'[r.id] THEN @ ELSE @ \ {r.id}]
          /\ UNCHANGED vars
    BY DEF Change
  <1>2. r.id \in Ids /\ walk \in Walks /\ \A s \in resources : s.id \in Ids
    BY DEF ListingInv, Typed, TypeOK, Rows, WalkInv
  <1>3. MatchingTyped'
    BY <1>1, <1>2 DEF ListingInv, MatchingTyped
  <1>4. /\ walk' \in Walks
        /\ walk'.status = walk.status /\ walk'.cursor = walk.cursor /\ walk'.size = walk.size
        /\ walk'.seen = walk.seen /\ walk'.filter = walk.filter
        /\ walk'.steady \subseteq walk.steady
        /\ r.id \in walk'.steady => walk.filter \subseteq matching'[r.id]
    BY <1>1, <1>2 DEF Walks
  <1>5. ASSUME NEW i \in walk'.steady
        PROVE  \E s \in resources :
                 /\ s.id = i /\ walk.filter \subseteq matching'[s.id]
                 /\ \/ Shown(walk, Key(s))
                    \/ walk.cursor # NoCursor /\ Ahead(walk, Key(s))
    <2>1. PICK s \in resources :
            /\ s.id = i /\ Matches(s, walk.filter)
            /\ Shown(walk, Key(s)) \/ (walk.cursor # NoCursor /\ Ahead(walk, Key(s)))
      BY <1>4 DEF ListingInv, WalkInv, SteadyKept
    <2>2. walk.filter \subseteq matching'[s.id]
      <3>1. CASE s.id = r.id
        BY <1>4, <2>1, <3>1
      <3>2. CASE s.id # r.id
        <4>1. matching'[s.id] = matching[s.id]
          BY <1>1, <1>2, <3>2 DEF ListingInv, MatchingTyped
        <4> QED
          BY <2>1, <4>1 DEF Matches
      <3> QED
        BY <3>1, <3>2
    <2> QED
      BY <2>1, <2>2
  <1>6. SteadyKept(walk, walk.cursor)'
    BY <1>1, <1>4, <1>5 DEF SteadyKept, Matches, Shown, Ahead, vars
  <1> QED
    BY <1>3, <1>4, <1>6 DEF ListingInv, WalkInv, ShownUpTo

LEMMA CreateKeepsWalk ==
  ASSUME WalkInv, resources \subseteq resources', UNCHANGED listing
  PROVE  WalkInv'
  BY DEF WalkInv, SteadyKept, ShownUpTo, Shown, Ahead, Matches, listing

LEMMA NextListingInv ==
  ASSUME ListingInv, [ListingNext]_allVars
  PROVE  ListingInv'
  <1> USE DEF ListingInv
  <1>1. ASSUME UNCHANGED vars
        PROVE  Typed' /\ Stamped' /\ IsFiniteSet(resources')
    BY <1>1 DEF vars, uuidVars, Typed, TypeOK, CommandTyped, RowTyped, Stamped
  <1>2. CASE walk.status = "none" /\ FirstPage
    <2>1. PICK filter \in Filters, size \in PageSizes :
            /\ ValidQuery(filter, size)
            /\ Show([NoWalk EXCEPT !.filter = filter, !.size = size,
                       !.steady = {r.id : r \in {x \in resources : Matches(x, filter)}}],
                    NoCursor)
      BY <1>2 DEF FirstPage
    <2> DEFINE w == [NoWalk EXCEPT !.filter = filter, !.size = size,
                       !.steady = {r.id : r \in {x \in resources : Matches(x, filter)}}]
    <2>2. {r.id : r \in {x \in resources : Matches(x, filter)}} \in SUBSET Ids
      BY DEF Typed, TypeOK, Rows
    <2>3. /\ w.filter = filter /\ w.size = size /\ w.cursor = NoCursor /\ w.seen = <<>>
          /\ w.steady = {r.id : r \in {x \in resources : Matches(x, filter)}}
      BY NoWalkFields DEF Walks
    <2>4. w \in Walks
      BY <2>2, NoWalkFields DEF Walks
    <2> HIDE DEF w
    <2>5. w.size >= MinPageSize /\ ShownUpTo(w, NoCursor) /\ NoCursor \in Cursors
      BY <2>1, <2>3 DEF ValidQuery, ShownUpTo, Sorted, Cursors
    <2>6. \A i \in w.steady : \E r \in resources : r.id = i /\ Matches(r, w.filter)
      BY <2>3
    <2>7. \A i \in w.steady :
            \E r \in resources : /\ r.id = i /\ Matches(r, w.filter)
                                 /\ Shown(w, Key(r)) \/ Ahead(w, Key(r))
      BY <2>3, <2>6 DEF Ahead
    <2>8. Show(w, NoCursor)
      BY <2>1 DEF w
    <2>9. WalkInv'
      BY <2>3, <2>4, <2>5, <2>7, <2>8, ShowKeepsWalk DEF Typed, TypeOK
    <2> QED
      BY <1>1, <2>8, <2>9 DEF Show, MatchingTyped
  <1>3. CASE NextPage
    <2>1. Show(walk, walk.cursor) /\ walk.cursor # NoCursor /\ walk.size >= MinPageSize
      BY <1>3 DEF NextPage, WalkInv
    <2>2. walk \in Walks /\ walk.cursor \in Cursors
      BY DEF WalkInv, Walks
    <2>3. \A i \in walk.steady :
            \E r \in resources : /\ r.id = i /\ Matches(r, walk.filter)
                                 /\ Shown(walk, Key(r)) \/ Ahead(walk, Key(r))
      BY DEF WalkInv, SteadyKept
    <2>4. WalkInv'
      BY <2>1, <2>2, <2>3, ShowKeepsWalk DEF Typed, TypeOK, WalkInv
    <2> QED
      BY <1>1, <2>1, <2>4 DEF Show, MatchingTyped
  <1>4. CASE InvalidQuery \/ InvalidCursor \/ Forget
    <2>1. /\ UNCHANGED <<vars, matching>>
          /\ walk' = [NoWalk EXCEPT !.status = "invalid"] \/ walk' = NoWalk
      BY <1>4 DEF InvalidQuery, InvalidCursor, Forget
    <2>2. /\ walk' \in Walks /\ walk'.status \in {"none", "invalid"}
          /\ walk'.cursor = NoCursor /\ walk'.seen = <<>> /\ walk'.steady = {}
      BY <2>1, NoWalkFields DEF Walks
    <2>3. WalkInv'
      BY <2>2 DEF WalkInv, ShownUpTo, Sorted, SteadyKept
    <2> QED
      BY <1>1, <2>1, <2>3 DEF MatchingTyped
  <1>5. CASE Create
    <2>1. Next /\ UNCHANGED listing
      BY <1>5 DEF Create
    <2> QED
      BY <2>1, NextTyped, CreationAddsStampedRows, CreateKeepsWalk DEF MatchingTyped, listing
  <1>6. CASE Change
    <2>1. UNCHANGED vars
      BY <1>6 DEF Change
    <2> QED
      BY <1>1, <1>6, <2>1, ChangeKeepsWalk
  <1>7. CASE UNCHANGED allVars
    <2>1. UNCHANGED vars /\ UNCHANGED listing /\ resources \subseteq resources'
      BY <1>7 DEF allVars, vars
    <2> QED
      BY <1>1, <2>1, CreateKeepsWalk DEF MatchingTyped, listing
  <1> QED
    BY <1>2, <1>3, <1>4, <1>5, <1>6, <1>7 DEF ListingNext

LEMMA ListingInvariant == ListingSpec => []ListingInv
  <1>1. ListingInv /\ [ListingNext]_allVars => ListingInv'
    BY NextListingInv
  <1> QED
    BY <1>1, InitListingInv, PTL DEF ListingSpec

-----------------------------------------------------------------------------
\* A walk changes nothing that a creation reads or writes: what is proved of creations
\* holds beside any walk.
THEOREM WalksLeaveCreationsAlone == ListingSpec => Spec
  <1>1. ListingInit => Init
    BY DEF ListingInit
  <1>2. [ListingNext]_allVars => [Next]_vars
    BY DEF ListingNext, allVars, FirstPage, NextPage, Show, InvalidQuery, InvalidCursor, Forget,
           Create, Change
  <1> QED
    BY <1>1, <1>2, PTL DEF ListingSpec, Spec

\* The types; every visible row is stamped, and a walk goes on exactly while it has a cursor.
THEOREM ListingTyped == ListingSpec => []ListingTypeOK
  <1>1. ListingInv => ListingTypeOK
    <2> SUFFICES ASSUME ListingInv
                 PROVE  ListingTypeOK
      OBVIOUS
    <2>1. walk.status \in {"none", "walking", "done", "invalid"} /\ walk.cursor \in Cursors
      BY DEF ListingInv, WalkInv, Walks
    <2>2. walk.cursor # NoCursor => Decodable(walk.cursor)
      BY <2>1, NoCursorEncodesNothing DEF Cursors
    <2> QED
      BY <2>1, <2>2 DEF ListingInv, Typed, Stamped, MatchingTyped, WalkInv, ListingTypeOK
  <1> QED
    BY <1>1, ListingInvariant, PTL

\* Over all its pages, of whatever size, a walk shows rows in strictly increasing order and
\* none twice, whatever is created or changed or stamped by a clock set back meanwhile.
THEOREM NothingShownTwice == ListingSpec => []PagesInOrder
  <1>1. ListingInv => PagesInOrder
    BY DEF ListingInv, WalkInv, ShownUpTo, Sorted, PagesInOrder
  <1> QED
    BY <1>1, ListingInvariant, PTL

\* A walk that ends has shown every row that was visible and matched from its first page on.
THEOREM NothingLeftOut == ListingSpec => []NothingSteadySkipped
  <1>1. ListingInv => NothingSteadySkipped
    <2> SUFFICES ASSUME ListingInv, walk.status = "done", NEW i \in walk.steady
                 PROVE  \E j \in DOMAIN walk.seen : i = walk.seen[j].id
      BY DEF NothingSteadySkipped
    <2>1. walk.cursor = NoCursor
      BY DEF ListingInv, WalkInv
    <2>2. PICK r \in resources : r.id = i /\ Shown(walk, Key(r))
      BY <2>1 DEF ListingInv, WalkInv, SteadyKept
    <2>3. PICK j \in 1..Len(walk.seen) : walk.seen[j] = Key(r)
      BY <2>2 DEF Shown
    <2>4. DOMAIN walk.seen = 1..Len(walk.seen)
      <3>1. walk.seen \in Seq(Keys)
        BY DEF ListingInv, WalkInv, Walks
      <3> QED
        BY <3>1, LenProperties
    <2> QED
      BY <2>2, <2>3, <2>4 DEF Key
  <1> QED
    BY <1>1, ListingInvariant, PTL
=============================================================================
