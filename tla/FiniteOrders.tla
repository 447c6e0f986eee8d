---------------------------- MODULE FiniteOrders ----------------------------
(***************************************************************************)
(* Facts about finite strict orders: what a stable sort rests on.  The     *)
(* proofs about components that sort cite them.                            *)
(***************************************************************************)
EXTENDS FiniteSetTheorems, TLAPS

\* A nonempty set of numbers has a least one.
LEMMA LeastNumber ==
  ASSUME NEW T, T \subseteq Nat, T # {}
  PROVE  \E i \in T : \A j \in T : i <= j
<1>1. \E i \in T : \A j \in T : <<j, i>> \notin OpToRel(<, Nat)
  BY NatLessThanWellFounded, WFMin
<1>2. \A i, j \in T : <<j, i>> \notin OpToRel(<, Nat) => i <= j
  BY DEF OpToRel
<1> QED  BY <1>1, <1>2

\* What is before x in S.
Below(S, R, x) == {y \in S : <<y, x>> \in R}

StrictOrder(S, R) ==
  /\ \A x \in S : <<x, x>> \notin R
  /\ \A x, y, z \in S : <<x, y>> \in R /\ <<y, z>> \in R => <<x, z>> \in R
  /\ \A x, y \in S : x = y \/ <<x, y>> \in R \/ <<y, x>> \in R

\* Of two elements of a finite order the one that comes first has less below it.
LEMMA BelowCounts ==
  ASSUME NEW S, IsFiniteSet(S), NEW R, StrictOrder(S, R), NEW x \in S, NEW y \in S,
         <<x, y>> \in R
  PROVE  /\ Cardinality(Below(S, R, x)) \in Nat /\ Cardinality(Below(S, R, y)) \in Nat
         /\ Cardinality(Below(S, R, x)) < Cardinality(Below(S, R, y))
<1>1. Below(S, R, x) \subseteq Below(S, R, y) /\ x \in Below(S, R, y) \ Below(S, R, x)
  BY DEF Below, StrictOrder
<1>2. IsFiniteSet(Below(S, R, y)) /\ IsFiniteSet(Below(S, R, x))
  BY FS_Subset DEF Below
<1>3. /\ Cardinality(Below(S, R, x)) <= Cardinality(Below(S, R, y))
      /\ Cardinality(Below(S, R, x)) # Cardinality(Below(S, R, y))
  BY <1>1, <1>2, FS_Subset
<1>4. Cardinality(Below(S, R, x)) \in Nat /\ Cardinality(Below(S, R, y)) \in Nat
  BY <1>2, FS_CardinalityType
<1> QED  BY <1>3, <1>4

\* A nonempty finite order has a first element.
LEMMA FirstOfFinite ==
  ASSUME NEW S, IsFiniteSet(S), S # {}, NEW R, StrictOrder(S, R)
  PROVE  \E x \in S : \A y \in S \ {x} : <<x, y>> \in R
<1> DEFINE T == {Cardinality(Below(S, R, x)) : x \in S}
<1>1. \A x \in S : Cardinality(Below(S, R, x)) \in Nat
  BY FS_Subset, FS_CardinalityType DEF Below
<1>2. T \subseteq Nat /\ T # {}
  BY <1>1
<1>3. PICK n \in T : \A m \in T : n <= m
  BY <1>2, LeastNumber
<1>4. PICK x \in S : n = Cardinality(Below(S, R, x))
  OBVIOUS
<1>5. ASSUME NEW y \in S \ {x}, <<x, y>> \notin R PROVE FALSE
  <2>1. <<y, x>> \in R
    BY <1>5 DEF StrictOrder
  <2>2. Cardinality(Below(S, R, y)) < Cardinality(Below(S, R, x))
    BY <2>1, BelowCounts
  <2>3. Cardinality(Below(S, R, x)) <= Cardinality(Below(S, R, y))
    BY <1>3, <1>4
  <2> QED  BY <1>1, <2>2, <2>3
<1> QED  BY <1>5

\* Every place of a finite order is taken, by one element.
LEMMA PlacesAreTaken ==
  ASSUME NEW S, IsFiniteSet(S), NEW R, StrictOrder(S, R), NEW n \in 1 .. Cardinality(S)
  PROVE  /\ \E x \in S : Cardinality(Below(S, R, x)) = n - 1
         /\ \A x, y \in S : Cardinality(Below(S, R, x)) = Cardinality(Below(S, R, y)) => x = y
<1> DEFINE place == [x \in S |-> Cardinality(Below(S, R, x))]
           places == 0 .. Cardinality(S) - 1
<1>1. Cardinality(S) \in Nat
  BY FS_CardinalityType
<1>2. ASSUME NEW x \in S PROVE Cardinality(Below(S, R, x)) \in places
  <2>1. Below(S, R, x) \subseteq S /\ x \notin Below(S, R, x)
    BY DEF Below, StrictOrder
  <2>2. /\ IsFiniteSet(Below(S, R, x)) /\ Cardinality(Below(S, R, x)) <= Cardinality(S)
        /\ Cardinality(Below(S, R, x)) # Cardinality(S)
    BY <2>1, FS_Subset
  <2>3. Cardinality(Below(S, R, x)) \in Nat
    BY <2>2, FS_CardinalityType
  <2> QED  BY <1>1, <2>2, <2>3
<1>3. ASSUME NEW x \in S, NEW y \in S, x # y
      PROVE  Cardinality(Below(S, R, x)) # Cardinality(Below(S, R, y))
  <2>1. <<x, y>> \in R \/ <<y, x>> \in R
    BY <1>3 DEF StrictOrder
  <2>2. CASE <<x, y>> \in R
    BY <2>2, BelowCounts
  <2>3. CASE <<y, x>> \in R
    BY <2>3, BelowCounts
  <2> QED  BY <2>1, <2>2, <2>3
<1>4. place \in [S -> places]
  BY <1>2
<1>5. \A x, y \in S : place[x] = place[y] => x = y
  BY <1>3
<1>6. place \in Injection(S, places)
  BY <1>4, <1>5 DEF Injection, IsInjective
<1>7. IsFiniteSet(places) /\ Cardinality(places) = Cardinality(S)
  <2> DEFINE b == Cardinality(S) - 1
  <2>1. b \in Int /\ b + 1 = Cardinality(S) /\ b >= -1
    BY <1>1
  <2>2. places = 0 .. b
    OBVIOUS
  <2> HIDE DEF b, places
  <2>3. IsFiniteSet(0 .. b) /\ Cardinality(0 .. b) = IF 0 > b THEN 0 ELSE b - 0 + 1
    BY <2>1, FS_Interval
  <2> QED  BY <2>1, <2>2, <2>3
<1>8. place \in Surjection(S, places)
  BY <1>6, <1>7, FS_Injection
<1>9. n - 1 \in places
  BY <1>1
<1>10. \E x \in S : place[x] = n - 1
  BY <1>8, <1>9 DEF Surjection
<1> QED  BY <1>3, <1>10
=============================================================================
