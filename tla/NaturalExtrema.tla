--------------------------- MODULE NaturalExtrema ---------------------------
(***************************************************************************)
(* Least and greatest elements of sets of natural numbers, from the well-  *)
(* foundedness of <.                                                       *)
(***************************************************************************)
EXTENDS Integers, FiniteSetTheorems, WellFoundedInduction, TLAPS

\* A set of numbers has a least one.
LEMMA LeastNat ==
  ASSUME NEW S, S \subseteq Nat, S # {}
  PROVE  \E m \in S : \A k \in S : m <= k
  <1> DEFINE R == {ss \in Nat \X Nat : ss[1] < ss[2]}
  <1>1. IsWellFoundedOn(R, Nat)
    BY NatLessThanWellFounded DEF OpToRel
  <1> HIDE DEF R
  <1>2. PICK m \in S : \A k \in S : <<k, m>> \notin R
    BY <1>1, WFMin
  <1>3. \A k \in S : ~(k < m)
    BY <1>2 DEF R
  <1> QED
    BY <1>3

\* A finite set of numbers has a greatest: a smallest one without would not be.
LEMMA GreatestNat ==
  ASSUME NEW T, T \subseteq Nat, T # {}, IsFiniteSet(T)
  PROVE  \E m \in T : \A k \in T : k <= m
  <1> DEFINE Bounded(S) == \E m \in S : \A k \in S : k <= m
             Bad == {S \in SUBSET T : S # {} /\ ~Bounded(S)}
             Sizes == {Cardinality(S) : S \in Bad}
  <1> SUFFICES ASSUME T \in Bad
               PROVE  FALSE
    OBVIOUS
  <1>1. \A S \in SUBSET T : IsFiniteSet(S) /\ Cardinality(S) \in Nat
    BY FS_Subset, FS_CardinalityType
  <1>2. Sizes # {} /\ Sizes \subseteq Nat
    BY <1>1
  <1> HIDE DEF Bounded
  <1>3. PICK S \in Bad : \A S2 \in Bad : Cardinality(S) <= Cardinality(S2)
    <2> HIDE DEF Bad
    <2>1. PICK n \in Sizes : \A k \in Sizes : n <= k
      BY <1>2, LeastNat
    <2> QED
      BY <2>1
  <1>4. PICK x \in S : TRUE
    BY <1>3
  <1>5. Cardinality(S \ {x}) < Cardinality(S)
    <2>1. IsFiniteSet(S) /\ Cardinality(S) \in Nat
      BY <1>1, <1>3
    <2>2. Cardinality(S \ {x}) = Cardinality(S) - 1
      BY <1>4, <2>1, FS_RemoveElement
    <2> QED
      BY <2>1, <2>2
  <1>6. CASE S \ {x} = {}
    <2>1. Bounded(S)
      BY <1>3, <1>4, <1>6 DEF Bounded
    <2> QED
      BY <1>3, <2>1
  <1>7. CASE S \ {x} # {}
    <2>1. S \ {x} \notin Bad
      BY <1>1, <1>3, <1>5
    <2>2. PICK m \in S \ {x} : \A k \in S \ {x} : k <= m
      BY <1>3, <1>7, <2>1 DEF Bounded
    <2>3. Bounded(S)
      <3>1. m \in Nat /\ x \in Nat /\ \A k \in S : k \in Nat
        BY <1>3, <1>4, <2>2
      <3>2. CASE m <= x
        BY <1>4, <2>2, <3>1, <3>2 DEF Bounded
      <3>3. CASE ~(m <= x)
        BY <1>4, <2>2, <3>1, <3>3 DEF Bounded
      <3> QED
        BY <3>2, <3>3
    <2> QED
      BY <1>3, <2>3
  <1> QED
    BY <1>6, <1>7

\* So do the numbers that a function takes on a finite set: they have a greatest.
LEMMA GreatestValue ==
  ASSUME NEW S, S # {}, IsFiniteSet(S), NEW f, f \in [S -> Nat]
  PROVE  \E s \in S : \A t \in S : f[t] <= f[s]
  <1> DEFINE T == {f[s] : s \in S}
  <1>1. f \in Surjection(S, T)
    BY DEF Surjection
  <1>2. IsFiniteSet(T)
    BY <1>1, FS_Surjection
  <1>3. T # {} /\ T \subseteq Nat
    OBVIOUS
  <1> HIDE DEF T
  <1>4. PICK m \in T : \A k \in T : k <= m
    BY <1>2, <1>3, GreatestNat
  <1> QED
    BY <1>4 DEF T
=============================================================================
