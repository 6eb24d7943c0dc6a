------------------------------ MODULE BoundedSets ------------------------------
(***************************************************************************)
(* A set of naturals with a bound has a greatest and a least member, and a *)
(* finite set whose members can all be compared has a last one: what the   *)
(* proofs need to know that a highest reference, a latest date, a highest  *)
(* revision and a last sibling are there.                                  *)
(***************************************************************************)
EXTENDS Integers, FiniteSets, FiniteSetTheorems, TLAPS

\* A set of naturals with a bound has a greatest: as many naturals are not above
\* some member as there are up to the greatest, and the last of these is it.
LEMMA Greatest ==
    ASSUME NEW b \in Nat, NEW S \in SUBSET (0 .. b), S # {}
    PROVE  \E x \in S : \A y \in S : y <= x
  <1> DEFINE D == {n \in 0 .. b : \E y \in S : n <= y}
             k == Cardinality(D) - 1
  <1>1. IsFiniteSet(D) /\ Cardinality(D) \in Nat
    <2>1. IsFiniteSet(0 .. b)
      BY FS_Interval
    <2>2. D \subseteq 0 .. b
      OBVIOUS
    <2> HIDE DEF D
    <2>3. IsFiniteSet(D)
      BY <2>1, <2>2, FS_Subset
    <2>4. QED
      BY <2>3, FS_CardinalityType
  <1>2. S \subseteq D
    OBVIOUS
  <1>3. k \in Nat
    <2>1. D # {}
      BY <1>2
    <2> HIDE DEF D
    <2>2. Cardinality(D) # 0
      BY <2>1, <1>1, FS_EmptySet
    <2>3. QED
      BY <2>2, <1>1
  <1>4. ASSUME NEW d \in D
        PROVE  d <= k
    <2>1. 0 .. d \subseteq D /\ d \in Nat
      OBVIOUS
    <2> HIDE DEF D
    <2>2. Cardinality(0 .. d) = d + 1
      BY <2>1, FS_Interval
    <2>3. Cardinality(0 .. d) <= Cardinality(D)
      BY <1>1, <2>1, FS_Subset
    <2>4. QED
      BY <1>1, <2>1, <2>2, <2>3
  <1>5. k \in D
    <2> SUFFICES ASSUME k \notin D
                 PROVE  FALSE
      OBVIOUS
    <2>0. \A d \in D : d \in Nat
      OBVIOUS
    <2> HIDE DEF D
    <2>1. D \subseteq 0 .. (k - 1)
      <3> SUFFICES ASSUME NEW d \in D PROVE d \in 0 .. (k - 1)
        OBVIOUS
      <3>1. d <= k /\ d # k
        BY <1>4
      <3> HIDE DEF k
      <3>2. QED
        BY <2>0, <1>3, <3>1
    <2>2. IsFiniteSet(0 .. (k - 1)) /\ Cardinality(0 .. (k - 1)) = k
      <3> HIDE DEF k
      <3>1. k - 1 \in Int /\ 0 \in Int
        BY <1>3
      <3>2. QED
        BY <1>3, <3>1, FS_Interval
    <2>3. Cardinality(D) <= k
      <3> HIDE DEF k
      <3>1. Cardinality(D) <= Cardinality(0 .. (k - 1))
        BY <2>1, <2>2, FS_Subset
      <3>2. QED
        BY <3>1, <2>2
    <2>4. QED
      BY <1>1, <2>3
  <1>6. PICK y \in S : k <= y
    BY <1>5
  <1>7. y = k
    <2>1. y \in D /\ y \in Nat
      BY <1>2
    <2> HIDE DEF D, k
    <2>2. y <= k
      BY <2>1, <1>4
    <2>3. QED
      BY <2>1, <2>2, <1>3, <1>6
  <1>8. QED
    BY <1>2, <1>4, <1>7

\* So it has a least.
LEMMA LeastMember ==
    ASSUME NEW b \in Nat, NEW S \in SUBSET (0 .. b), S # {}
    PROVE  \E x \in S : \A y \in S : x <= y
  <1> DEFINE T == {n \in 0 .. b : b - n \in S}
  <1>1. T # {} /\ T \in SUBSET (0 .. b)
    <2>1. PICK y \in S : TRUE
      OBVIOUS
    <2>2. b - y \in 0 .. b /\ b - (b - y) = y
      OBVIOUS
    <2>3. QED
      BY <2>1, <2>2
  <1> HIDE DEF T
  <1>2. PICK m \in T : \A n \in T : n <= m
    BY <1>1, Greatest
  <1>3. b - m \in S /\ m \in 0 .. b
    BY DEF T
  <1>4. ASSUME NEW y \in S
        PROVE  b - m <= y
    <2>1. y \in 0 .. b /\ b - y \in 0 .. b /\ b - (b - y) = y
      OBVIOUS
    <2>2. b - y \in T
      BY <2>1 DEF T
    <2>3. QED
      BY <1>2, <1>3, <2>1, <2>2
  <1>5. QED
    BY <1>3, <1>4

\* A finite set, any two members of which can be compared, has a member that is
\* not before any other: one that is not before the most.
LEMMA LastMember ==
    ASSUME NEW S, IsFiniteSet(S), S # {}, NEW R,
           \A x, y \in S : <<x, y>> \in R \/ <<y, x>> \in R,
           \A x, y, z \in S : <<x, y>> \in R /\ <<y, z>> \in R => <<x, z>> \in R
    PROVE  \E x \in S : \A y \in S : <<x, y>> \in R
  <1> DEFINE Under(x) == {y \in S : <<x, y>> \in R}
             C == {Cardinality(Under(x)) : x \in S}
             b == Cardinality(S)
  <1>1. b \in Nat /\ \A x \in S : Cardinality(Under(x)) \in 0 .. b /\ IsFiniteSet(Under(x))
    <2>1. b \in Nat
      BY FS_CardinalityType
    <2>2. ASSUME NEW x \in S
          PROVE  Cardinality(Under(x)) \in 0 .. b /\ IsFiniteSet(Under(x))
      <3>1. Under(x) \in SUBSET S
        OBVIOUS
      <3> HIDE DEF Under
      <3>2. IsFiniteSet(Under(x)) /\ Cardinality(Under(x)) <= b
        BY <3>1, FS_Subset
      <3>3. Cardinality(Under(x)) \in Nat
        BY <3>2, FS_CardinalityType
      <3>4. QED
        BY <2>1, <3>2, <3>3
    <2>3. QED
      BY <2>1, <2>2
  <1> HIDE DEF b
  <1>2. C # {} /\ C \in SUBSET (0 .. b)
    <2> HIDE DEF Under
    <2>1. QED
      BY <1>1
  <1> HIDE DEF C
  <1>3. PICK c \in C : \A d \in C : d <= c
    BY <1>1, <1>2, Greatest
  <1>4. PICK x \in S : c = Cardinality(Under(x))
    BY DEF C
  <1>5. ASSUME NEW y \in S, <<x, y>> \notin R
        PROVE  FALSE
    <2>1. Under(x) \in SUBSET Under(y) /\ y \in Under(y) /\ y \notin Under(x)
      BY <1>5
    <2>2. Cardinality(Under(y)) \in C
      BY DEF C
    <2> HIDE DEF Under
    <2>3. Cardinality(Under(y)) <= Cardinality(Under(x))
      BY <1>3, <1>4, <2>2
    <2>4. IsFiniteSet(Under(y)) /\ Cardinality(Under(y)) \in Nat /\ Cardinality(Under(x)) \in Nat
      BY <1>1
    <2>5. /\ Cardinality(Under(x)) <= Cardinality(Under(y))
          /\ Cardinality(Under(y)) = Cardinality(Under(x)) => Under(y) = Under(x)
      BY <2>1, <2>4, FS_Subset
    <2>6. QED
      BY <2>1, <2>3, <2>4, <2>5
  <1>6. QED
    BY <1>5
===============================================================================
