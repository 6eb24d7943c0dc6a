------------------------- MODULE StrategicPlanProofs -------------------------
(***************************************************************************)
(* What holds of a plan for any number of priorities and rows below them,  *)
(* any number of classes and any levels users choose: no two priorities    *)
(* share a level and their order is kept, every row keeps its shape, and,  *)
(* while nobody edits a level, every row shows its parent's index and its  *)
(* own place, and keeps its order among its siblings.                      *)
(***************************************************************************)
EXTENDS StrategicPlan, BoundedSets, SequenceTheorems, FunctionTheorems, TLAPS

-------------------------------------------------------------------------------
\* The levels.

\* The levels are numbers, and no two priorities share one.
LevelsTyped == priority_level \in [Priorities -> Nat]
LevelsInv == LevelsTyped /\ LevelsUnique

\* The cascade is closed upwards: a priority one level below the last one it
\* moves is moved as well.
LEMMA RunClosed ==
    ASSUME LevelsTyped, NEW L \in Nat, NEW q \in Run(L), NEW r \in Plan,
           priority_level[r] = priority_level[q] + 1
    PROVE  r \in Run(L)
  <1>1. /\ q \in Plan /\ priority_level[q] \in Nat /\ priority_level[q] >= L
        /\ \A l \in L..priority_level[q] : \E s \in Plan : priority_level[s] = l
    BY DEF Run, Plan, LevelsTyped
  <1>2. priority_level[r] \in Nat /\ priority_level[r] >= L
    BY <1>1
  <1>3. ASSUME NEW l \in L..priority_level[r]
        PROVE  \E s \in Plan : priority_level[s] = l
    <2>1. CASE l = priority_level[r]
      BY <2>1
    <2>2. CASE l # priority_level[r]
      BY <1>1, <1>2, <2>2
    <2>3. QED
      BY <2>1, <2>2
  <1>4. QED
    BY <1>2, <1>3 DEF Run

\* A priority on level L is moved, and whatever is moved is on L or below it.
LEMMA RunStart ==
    ASSUME LevelsTyped, NEW L \in Nat
    PROVE  /\ \A r \in Plan : priority_level[r] = L => r \in Run(L)
           /\ \A r \in Run(L) : r \in Plan /\ priority_level[r] >= L
  <1>1. ASSUME NEW r \in Plan, priority_level[r] = L
        PROVE  r \in Run(L)
    BY <1>1 DEF Run
  <1>2. QED
    BY <1>1 DEF Run

\* What a save does to the levels: the cascade, then the row that is saved.
Saved(p, L) ==
    priority_level' = [q \in Priorities |->
                         IF q = p THEN L
                         ELSE priority_level[q] + (IF q \in Run(L) THEN 1 ELSE 0)]

\* A save of a priority, new or edited, leaves the levels numbers and unique.
LEMMA SavedKeepsInv ==
    ASSUME LevelsInv, NEW p \in Priorities, NEW L \in Nat \ {0}, Saved(p, L)
    PROVE  LevelsInv'
  <1>1. LevelsTyped'
    BY DEF LevelsInv, LevelsTyped, Saved
  <1>2. ASSUME NEW q \in Priorities, NEW r \in Priorities, q # r, q # p,
               priority_level'[q] # 0, priority_level'[q] = priority_level'[r]
        PROVE  FALSE
    <2>1. q \in Plan /\ priority_level[q] \in Nat
      BY <1>2, RunStart DEF LevelsInv, LevelsTyped, Saved, Plan
    <2>2. CASE r = p
      <3>1. priority_level'[q] = L
        BY <1>2, <2>2 DEF Saved
      <3>2. CASE q \in Run(L)
        BY <1>2, <2>1, <3>1, <3>2, RunStart DEF LevelsInv, Saved
      <3>3. CASE q \notin Run(L)
        BY <1>2, <2>1, <3>1, <3>3, RunStart DEF LevelsInv, Saved
      <3>4. QED
        BY <3>2, <3>3
    <2>3. CASE r # p
      <3>1. r \in Plan /\ priority_level[r] \in Nat
        BY <1>2, <2>3, RunStart DEF LevelsInv, LevelsTyped, Saved, Plan
      <3>2. priority_level[q] # priority_level[r]
        BY <1>2, <2>1, <3>1 DEF LevelsInv, LevelsUnique
      <3>3. CASE q \in Run(L) /\ r \notin Run(L)
        <4>1. priority_level[r] = priority_level[q] + 1
          BY <1>2, <2>1, <2>3, <3>1, <3>3 DEF Saved
        <4>2. QED
          BY <3>1, <3>3, <4>1, RunClosed DEF LevelsInv
      <3>4. CASE r \in Run(L) /\ q \notin Run(L)
        <4>1. priority_level[q] = priority_level[r] + 1
          BY <1>2, <2>1, <2>3, <3>1, <3>4 DEF Saved
        <4>2. QED
          BY <2>1, <3>4, <4>1, RunClosed DEF LevelsInv
      <3>5. CASE q \in Run(L) <=> r \in Run(L)
        BY <1>2, <2>1, <2>3, <3>1, <3>2, <3>5 DEF Saved
      <3>6. QED
        BY <3>3, <3>4, <3>5
    <2>4. QED
      BY <2>2, <2>3
  <1>3. LevelsUnique'
    BY <1>2 DEF LevelsUnique, Plan
  <1>4. QED
    BY <1>1, <1>3 DEF LevelsInv

\* So does destroying one: those that move up close the gap it leaves.
LEMMA DestroyKeepsInv ==
    ASSUME LevelsInv, NEW p \in Priorities, DestroyPriority(p)
    PROVE  LevelsInv'
  <1> DEFINE lower == {q \in Plan : priority_level[q] > priority_level[p]}
  <1>1. /\ p \in Plan
        /\ priority_level' = [q \in Priorities |->
                                 IF q = p THEN 0
                                 ELSE priority_level[q] - (IF q \in lower THEN 1 ELSE 0)]
    BY DEF DestroyPriority
  <1>2. ASSUME NEW q \in Priorities
        PROVE  priority_level[q] \in Nat /\ (q \in lower => priority_level[q] > priority_level[p])
    BY DEF LevelsInv, LevelsTyped
  <1>3. ASSUME NEW q \in lower
        PROVE  priority_level[q] - 1 \in Nat
    BY <1>2 DEF Plan
  <1> HIDE DEF lower
  <1>4. LevelsTyped'
    BY <1>1, <1>2, <1>3 DEF LevelsTyped
  <1>5. ASSUME NEW q \in Priorities, NEW r \in Priorities, q # r,
               priority_level'[q] # 0, priority_level'[q] = priority_level'[r]
        PROVE  FALSE
    <2>1. /\ q # p /\ q \in Plan
          /\ r # p /\ r \in Plan
      BY <1>1, <1>2, <1>5 DEF Plan, lower
    <2>2. priority_level[q] # priority_level[r] /\ priority_level[q] # priority_level[p]
            /\ priority_level[r] # priority_level[p]
      BY <1>1, <1>5, <2>1 DEF LevelsInv, LevelsUnique
    <2>3. QED
      BY <1>1, <1>2, <1>5, <2>1, <2>2 DEF lower, Plan
  <1>6. LevelsUnique'
    BY <1>5 DEF LevelsUnique, Plan
  <1>7. QED
    BY <1>4, <1>6 DEF LevelsInv

\* Every step keeps the levels numbers and unique.
LEMMA NextKeepsInv == LevelsInv /\ [Next]_vars => LevelsInv'
  <1> SUFFICES ASSUME LevelsInv, [Next]_vars
               PROVE  LevelsInv'
    OBVIOUS
  <1>1. ASSUME NEW p \in Priorities, NEW L \in 1..MaxLevel, CreatePriority(p, L)
        PROVE  LevelsInv'
    <2>1. Saved(p, L)
      BY <1>1 DEF CreatePriority, Saved
    <2>2. L \in Nat \ {0}
      BY MaxLevelAssumption
    <2>3. QED
      BY <2>1, <2>2, SavedKeepsInv
  <1>2. ASSUME NEW p \in Priorities, NEW L \in 1..MaxLevel, UpdatePriority(p, L)
        PROVE  LevelsInv'
    <2>1. Saved(p, L)
      BY <1>2 DEF UpdatePriority, Saved
    <2>2. L \in Nat \ {0}
      BY MaxLevelAssumption
    <2>3. QED
      BY <2>1, <2>2, SavedKeepsInv
  <1>3. ASSUME NEW p \in Priorities, DestroyPriority(p)
        PROVE  LevelsInv'
    BY <1>3, DestroyKeepsInv
  <1>4. CASE UNCHANGED priority_level
    BY <1>4 DEF LevelsInv, LevelsTyped, LevelsUnique, Plan
  <1>5. ASSUME NEW i \in Items, NEW x \in Priorities \cup Items, CreateItem(i, x)
        PROVE  UNCHANGED priority_level
    BY <1>5 DEF CreateItem
  <1>6. ASSUME NEW i \in Items, DestroyItem(i)
        PROVE  UNCHANGED priority_level
    BY <1>6 DEF DestroyItem
  <1>7. QED
    BY <1>1, <1>2, <1>3, <1>4, <1>5, <1>6 DEF Next, vars

\* So they always are.
LEMMA LevelsInvariant == Spec => []LevelsInv
  <1>1. Init => LevelsInv
    BY DEF Init, LevelsInv, LevelsTyped, LevelsUnique, Plan
  <1>2. QED
    BY <1>1, NextKeepsInv, PTL DEF Spec

\* Whatever levels users pick, for any number of priorities: no two priorities
\* of a plan come to share a level.
THEOREM LevelsAlwaysUnique == Spec => []LevelsUnique
  BY LevelsInvariant, PTL DEF LevelsInv

\* The order of two priorities that a save only moves is kept.
LEMMA SavedKeepsOrder ==
    ASSUME LevelsInv, NEW e, NEW L \in Nat, Saved(e, L),
           NEW p \in Plan, NEW q \in Plan, p # e, q # e,
           priority_level[p] < priority_level[q]
    PROVE  priority_level'[p] < priority_level'[q]
  <1>1. /\ p \in Priorities /\ q \in Priorities
        /\ priority_level[p] \in Nat /\ priority_level[q] \in Nat
    BY DEF Plan, LevelsInv, LevelsTyped
  <1>2. CASE p \in Run(L) /\ q \notin Run(L)
    <2>1. priority_level[q] # priority_level[p] + 1
      BY <1>2, RunClosed DEF LevelsInv
    <2>2. QED
      BY <1>1, <1>2, <2>1 DEF Saved
  <1>3. CASE ~(p \in Run(L) /\ q \notin Run(L))
    BY <1>1, <1>3 DEF Saved
  <1>4. QED
    BY <1>2, <1>3

\* So is the order of two priorities that survive the destruction of a third.
LEMMA DestroyKeepsOrder ==
    ASSUME LevelsInv, NEW e \in Priorities, DestroyPriority(e),
           NEW p \in Plan, NEW q \in Plan, p \in Plan', q \in Plan',
           priority_level[p] < priority_level[q]
    PROVE  priority_level'[p] < priority_level'[q]
  <1>1. /\ p \in Priorities /\ q \in Priorities /\ e \in Plan
        /\ priority_level[p] \in Nat /\ priority_level[q] \in Nat
        /\ priority_level[e] \in Nat
    BY DEF Plan, LevelsInv, LevelsTyped, DestroyPriority
  <1>2. p # e /\ q # e
    BY <1>1 DEF DestroyPriority, Plan
  <1>3. /\ priority_level[p] # priority_level[e]
        /\ priority_level[q] # priority_level[e]
    BY <1>1, <1>2 DEF LevelsInv, LevelsUnique
  <1>4. ASSUME NEW r \in Plan, r # e
        PROVE  priority_level'[r] =
                 priority_level[r] - (IF priority_level[r] > priority_level[e] THEN 1 ELSE 0)
    BY <1>4 DEF DestroyPriority, Plan
  <1>5. QED
    BY <1>1, <1>2, <1>3, <1>4

\* For any number of priorities, no request changes the order in which two
\* priorities that survive it are shown, unless it edits one of their levels.
THEOREM PriorityOrderAlwaysKept == Spec => PriorityOrderKept
  <1> DEFINE Edited(p) == \E L \in 1..MaxLevel : UpdatePriority(p, L)
             Kept == \A p, q \in Plan :
                        (p \in Plan' /\ q \in Plan' /\ priority_level[p] < priority_level[q])
                            => \/ priority_level'[p] < priority_level'[q]
                               \/ \E L \in 1..MaxLevel :
                                     UpdatePriority(p, L) \/ UpdatePriority(q, L)
  <1>1. ASSUME LevelsInv, Next
        PROVE  Kept
    <2> SUFFICES ASSUME NEW p \in Plan, NEW q \in Plan, p \in Plan', q \in Plan',
                        priority_level[p] < priority_level[q],
                        ~Edited(p), ~Edited(q)
                 PROVE  priority_level'[p] < priority_level'[q]
      OBVIOUS
    <2>1. ASSUME NEW e \in Priorities, NEW L \in 1..MaxLevel, CreatePriority(e, L)
          PROVE  priority_level'[p] < priority_level'[q]
      <3>1. Saved(e, L) /\ p # e /\ q # e
        BY <2>1 DEF CreatePriority, Saved
      <3>2. L \in Nat
        BY MaxLevelAssumption
      <3>3. QED
        BY <1>1, <3>1, <3>2, SavedKeepsOrder
    <2>2. ASSUME NEW e \in Priorities, NEW L \in 1..MaxLevel, UpdatePriority(e, L)
          PROVE  priority_level'[p] < priority_level'[q]
      <3>1. Saved(e, L)
        BY <2>2 DEF UpdatePriority, Saved
      <3>2. p # e /\ q # e
        BY <2>2
      <3>3. L \in Nat
        BY MaxLevelAssumption
      <3>4. QED
        BY <1>1, <3>1, <3>2, <3>3, SavedKeepsOrder
    <2>3. ASSUME NEW e \in Priorities, DestroyPriority(e)
          PROVE  priority_level'[p] < priority_level'[q]
      BY <1>1, <2>3, DestroyKeepsOrder
    <2>4. ASSUME UNCHANGED priority_level
          PROVE  priority_level'[p] < priority_level'[q]
      BY <2>4
    <2>5. ASSUME NEW i \in Items, NEW x \in Priorities \cup Items, CreateItem(i, x)
          PROVE  UNCHANGED priority_level
      BY <2>5 DEF CreateItem
    <2>6. ASSUME NEW i \in Items, DestroyItem(i)
          PROVE  UNCHANGED priority_level
      BY <2>6 DEF DestroyItem
    <2>7. QED
      BY <1>1, <2>1, <2>2, <2>3, <2>4, <2>5, <2>6 DEF Next
  <1>2. LevelsInv /\ [Next]_vars => [Kept]_vars
    BY <1>1
  <1>3. QED
    BY <1>2, LevelsInvariant, PTL DEF Spec, PriorityOrderKept

-------------------------------------------------------------------------------
\* Sequences, and their order.

LEMMA Sequence ==
    ASSUME NEW S, NEW n \in Nat, NEW f \in [1..n -> S]
    PROVE  f \in Seq(S) /\ Len(f) = n
  <1>1. f \in Seq(S)
    BY SeqDef
  <1>2. DOMAIN f = 1..Len(f) /\ Len(f) \in Nat
    BY <1>1, LenProperties
  <1>3. DOMAIN f = 1..n
    OBVIOUS
  <1>4. QED
    BY <1>1, <1>2, <1>3

\* Two different sequences of one length differ first at some place.
LEMMA FirstDifference ==
    ASSUME NEW n \in Nat, NEW a \in [1..n -> Int], NEW b \in [1..n -> Int], a # b
    PROVE  \E k \in 1..n : a[k] # b[k] /\ \A j \in 1..(k - 1) : a[j] = b[j]
  <1> DEFINE D == {k \in 1..n : a[k] # b[k]}
  <1>1. D # {} /\ D \in SUBSET (0..n)
    OBVIOUS
  <1> HIDE DEF D
  <1>2. PICK k \in D : \A j \in D : k <= j
    BY <1>1, LeastMember
  <1>3. k \in 1..n /\ a[k] # b[k]
    BY DEF D
  <1>4. ASSUME NEW j \in 1..(k - 1)
        PROVE  a[j] = b[j]
    <2>1. j \in 1..n /\ ~(k <= j)
      BY <1>3
    <2>2. j \notin D
      BY <1>2, <2>1
    <2>3. QED
      BY <2>1, <2>2 DEF D
  <1>5. QED
    BY <1>3, <1>4

LEMMA GeqTotal ==
    ASSUME NEW n \in Nat, NEW a \in [1..n -> Int], NEW b \in [1..n -> Int]
    PROVE  Geq(a, b) \/ Geq(b, a)
  <1>1. CASE a = b
    BY <1>1 DEF Geq
  <1>2. CASE a # b
    <2>1. PICK k \in 1..n : a[k] # b[k] /\ \A j \in 1..(k - 1) : a[j] = b[j]
      BY <1>2, FirstDifference
    <2>2. a[k] \in Int /\ b[k] \in Int
      OBVIOUS
    <2>3. a[k] > b[k] \/ b[k] > a[k]
      BY <2>1, <2>2
    <2>4. QED
      BY <2>1, <2>3 DEF Geq
  <1>3. QED
    BY <1>1, <1>2

LEMMA GeqTransitive ==
    ASSUME NEW n \in Nat, NEW a \in [1..n -> Int], NEW b \in [1..n -> Int],
           NEW c \in [1..n -> Int], Geq(a, b), Geq(b, c)
    PROVE  Geq(a, c)
  <1>1. CASE a = b \/ b = c
    BY <1>1
  <1>2. CASE a # b /\ b # c
    <2>1. PICK k \in 1..n : a[k] > b[k] /\ \A j \in 1..(k - 1) : a[j] = b[j]
      BY <1>2 DEF Geq
    <2>2. PICK l \in 1..n : b[l] > c[l] /\ \A j \in 1..(l - 1) : b[j] = c[j]
      BY <1>2 DEF Geq
    <2>3. /\ a[k] \in Int /\ b[k] \in Int /\ c[k] \in Int
          /\ a[l] \in Int /\ b[l] \in Int /\ c[l] \in Int
      OBVIOUS
    <2>4. CASE k <= l
      <3>1. a[k] > c[k]
        <4>1. k = l \/ k \in 1..(l - 1)
          BY <2>4
        <4>2. QED
          BY <2>1, <2>2, <2>3, <4>1
      <3>2. \A j \in 1..(k - 1) : a[j] = c[j]
        <4>1. \A j \in 1..(k - 1) : j \in 1..(l - 1)
          BY <2>4
        <4>2. QED
          BY <2>1, <2>2, <4>1
      <3>3. QED
        BY <3>1, <3>2 DEF Geq
    <2>5. CASE l < k
      <3>1. a[l] > c[l]
        <4>1. l \in 1..(k - 1)
          BY <2>5
        <4>2. QED
          BY <2>1, <2>2, <2>3, <4>1
      <3>2. \A j \in 1..(l - 1) : a[j] = c[j]
        <4>1. \A j \in 1..(l - 1) : j \in 1..(k - 1)
          BY <2>5
        <4>2. QED
          BY <2>1, <2>2, <4>1
      <3>3. QED
        BY <3>1, <3>2 DEF Geq
    <2>6. QED
      BY <2>4, <2>5
  <1>3. QED
    BY <1>1, <1>2

\* Of two sequences that differ at most in their last number, that is compared.
LEMMA GeqByLast ==
    ASSUME NEW n \in Nat \ {0}, NEW a \in [1..n -> Int], NEW b \in [1..n -> Int],
           \A k \in 1..(n - 1) : a[k] = b[k]
    PROVE  Geq(a, b) <=> a[n] >= b[n]
  <1>1. ASSUME Geq(a, b)
        PROVE  a[n] >= b[n]
    <2>1. CASE a = b
      BY <2>1
    <2>2. CASE a # b
      <3>1. PICK k \in 1..n : a[k] > b[k]
        BY <1>1, <2>2 DEF Geq
      <3>2. k = n \/ k \in 1..(n - 1)
        OBVIOUS
      <3>3. a[k] \in Int /\ b[k] \in Int
        OBVIOUS
      <3>4. QED
        BY <3>1, <3>2, <3>3
    <2>3. QED
      BY <2>1, <2>2
  <1>2. ASSUME a[n] >= b[n]
        PROVE  Geq(a, b)
    <2>1. CASE a[n] = b[n]
      <3>1. \A k \in 1..n : a[k] = b[k]
        BY <2>1
      <3>2. a = b
        BY <3>1
      <3>3. QED
        BY <3>2 DEF Geq
    <2>2. CASE a[n] > b[n]
      BY <2>2 DEF Geq
    <2>3. QED
      BY <1>2, <2>1, <2>2
  <1>3. QED
    BY <1>1, <1>2

-------------------------------------------------------------------------------
\* The tree.

Nodes == Priorities \cup Items

LEMMA RowIs ==
    ASSUME TypeOK, NEW i \in Rows
    PROVE  /\ i \in Items /\ i \notin Priorities /\ DepthAssumption
           /\ path[i] \in Seq(Nodes) /\ path[i] \in [1..Len(path[i]) -> Nodes]
           /\ Len(path[i]) \in 1..Depth /\ path[i][1] \in Plan
           /\ index[i] \in Seq(Int) /\ Len(index[i]) = Len(path[i]) + 1
           /\ index[i] \in [1..(Len(path[i]) + 1) -> Int]
           /\ lastOf(i) = index[i][Len(path[i]) + 1] /\ lastOf(i) \in Int
  <1>1. i \in Items /\ i \notin Priorities /\ path[i] # <<>>
    BY IdsAssumption DEF Rows
  <1>2. path[i] \in Seq(Nodes) /\ index[i] \in Seq(Int)
    BY <1>1 DEF TypeOK, Nodes
  <1>3. /\ Len(path[i]) <= Depth /\ Len(index[i]) = Len(path[i]) + 1
        /\ path[i][1] \in Plan
    BY <1>1 DEF TypeOK
  <1>4. path[i] \in [1..Len(path[i]) -> Nodes] /\ index[i] \in [1..Len(index[i]) -> Int]
    BY <1>2, LenProperties
  <1>5. Len(path[i]) \in Nat \ {0}
    BY <1>1, <1>2, EmptySeq
  <1>6. Len(path[i]) \in 1..Depth
    BY <1>3, <1>5, DepthAssumption
  <1>7. lastOf(i) = index[i][Len(path[i]) + 1] /\ lastOf(i) \in Int
    BY <1>3, <1>4, <1>5 DEF lastOf
  <1>8. QED
    BY <1>1, <1>2, <1>3, <1>4, <1>6, <1>7, DepthAssumption

\* Above a row there is a row on each level below the priority's, and the chain
\* above that is a part of the row's.
LEMMA AboveIs ==
    ASSUME TypeOK, NEW i \in Rows, NEW k \in 2..Len(path[i])
    PROVE  /\ path[i][k] \in Rows
           /\ path[path[i][k]] = SubSeq(path[i], 1, k - 1)
           /\ Len(path[path[i][k]]) = k - 1
           /\ \A m \in 1..(k - 1) : path[path[i][k]][m] = path[i][m]
  <1>1. path[i][k] \in Rows /\ path[path[i][k]] = SubSeq(path[i], 1, k - 1)
    BY DEF TypeOK, Rows
  <1>2. path[i] \in [1..Len(path[i]) -> Nodes] /\ Len(path[i]) \in Nat
    BY RowIs
  <1>3. \A m \in 1..(k - 1) : path[i][m] \in Nodes
    BY <1>2
  <1>4. /\ Len(SubSeq(path[i], 1, k - 1)) = k - 1
        /\ \A m \in 1..(k - 1) : SubSeq(path[i], 1, k - 1)[m] = path[i][m]
    <2>1. k - 1 \in Int /\ 1 \in Int /\ 1 <= k - 1 /\ (k - 1) - 1 + 1 = k - 1
      BY <1>2
    <2>2. /\ Len(SubSeq(path[i], 1, k - 1)) = IF 1 <= k - 1 THEN (k - 1) - 1 + 1 ELSE 0
          /\ \A m \in 1..((k - 1) - 1 + 1) : SubSeq(path[i], 1, k - 1)[m] = path[i][1 + m - 1]
      BY <1>3, <2>1, SubSeqProperties
    <2>3. \A m \in 1..(k - 1) : 1 + m - 1 = m
      OBVIOUS
    <2>4. QED
      BY <2>1, <2>2, <2>3
  <1>5. QED
    BY <1>1, <1>4

\* The chain from the top down to a row or priority, which ends in it.
LEMMA NodeIs ==
    ASSUME TypeOK, NEW x \in Plan \cup Rows
    PROVE  /\ PathTo(x) \in Seq(Nodes) /\ IndexOf(x) \in Seq(Int)
           /\ Len(PathTo(x)) = Len(IndexOf(x)) /\ Len(PathTo(x)) \in Nat \ {0}
           /\ PathTo(x)[Len(PathTo(x))] = x
           /\ PathTo(x)[1] \in Plan
           /\ x \in Plan => /\ x \in Priorities /\ Len(PathTo(x)) = 1
                            /\ IndexOf(x) = <<priority_level[x]>>
           /\ x \in Rows => /\ x \notin Priorities /\ IndexOf(x) = index[x]
                            /\ Len(PathTo(x)) = Len(path[x]) + 1
                            /\ \A k \in 1..Len(path[x]) : PathTo(x)[k] = path[x][k]
  <1>1. CASE x \in Plan
    <2>1. x \in Priorities /\ x \in Nodes /\ priority_level[x] \in Int /\ x \notin Rows
      BY <1>1, IdsAssumption DEF Plan, Nodes, TypeOK, Rows
    <2>2. PathTo(x) = <<x>> /\ IndexOf(x) = <<priority_level[x]>>
      BY <2>1 DEF PathTo, IndexOf
    <2>3. QED
      BY <1>1, <2>1, <2>2
  <1>2. CASE x \in Rows
    <2>1. x \notin Priorities /\ x \in Nodes /\ x \notin Plan
      BY <1>2, RowIs DEF Nodes, Plan
    <2>2. PathTo(x) = Append(path[x], x) /\ IndexOf(x) = index[x]
      BY <2>1 DEF PathTo, IndexOf
    <2>3. /\ path[x] \in Seq(Nodes) /\ Len(path[x]) \in Nat \ {0} /\ path[x][1] \in Plan
          /\ index[x] \in Seq(Int) /\ Len(index[x]) = Len(path[x]) + 1
      BY <1>2, RowIs
    <2>4. /\ Append(path[x], x) \in Seq(Nodes)
          /\ Len(Append(path[x], x)) = Len(path[x]) + 1
          /\ \A k \in 1..Len(path[x]) : Append(path[x], x)[k] = path[x][k]
          /\ Append(path[x], x)[Len(path[x]) + 1] = x
      BY <2>1, <2>3, AppendProperties
    <2>5. Append(path[x], x)[1] \in Plan
      BY <2>3, <2>4
    <2>6. QED
      BY <1>2, <2>1, <2>2, <2>3, <2>4, <2>5
  <1>3. QED
    BY <1>1, <1>2

\* A row or priority has one place in any chain that it is in.
LEMMA PlaceIs ==
    ASSUME TypeOK, NEW d \in Rows, NEW k \in 1..(Len(path[d]) + 1)
    PROVE  /\ k = 1 => PathTo(d)[k] \in Plan
           /\ k > 1 => PathTo(d)[k] \in Rows /\ Len(path[PathTo(d)[k]]) = k - 1
           /\ \A l \in 1..(Len(path[d]) + 1) : PathTo(d)[l] = PathTo(d)[k] => l = k
  <1>1. /\ \A m \in 1..Len(path[d]) : PathTo(d)[m] = path[d][m]
        /\ PathTo(d)[Len(path[d]) + 1] = d /\ Len(path[d]) \in Nat \ {0}
        /\ path[d][1] \in Plan
    BY NodeIs, RowIs
  <1>2. \A x \in Plan : x \notin Rows
    BY IdsAssumption DEF Plan, Rows
  <1>3. ASSUME NEW m \in 2..(Len(path[d]) + 1)
        PROVE  PathTo(d)[m] \in Rows /\ Len(path[PathTo(d)[m]]) = m - 1
    <2>1. CASE m = Len(path[d]) + 1
      BY <1>1, <2>1
    <2>2. CASE m # Len(path[d]) + 1
      <3>1. m \in 2..Len(path[d]) /\ m \in 1..Len(path[d])
        BY <1>1, <2>2
      <3>2. QED
        BY <1>1, <3>1, AboveIs
    <2>3. QED
      BY <2>1, <2>2
  <1>4. PathTo(d)[1] \in Plan
    BY <1>1
  <1>5. \A m \in 1..(Len(path[d]) + 1) : m = 1 \/ m \in 2..(Len(path[d]) + 1)
    BY <1>1
  <1>6. ASSUME NEW l \in 1..(Len(path[d]) + 1), PathTo(d)[l] = PathTo(d)[k]
        PROVE  l = k
    <2>1. CASE l = 1
      BY <1>2, <1>3, <1>4, <1>5, <1>6, <2>1
    <2>2. CASE k = 1
      BY <1>2, <1>3, <1>4, <1>5, <1>6, <2>2
    <2>3. CASE l # 1 /\ k # 1
      <3>1. l \in 2..(Len(path[d]) + 1) /\ k \in 2..(Len(path[d]) + 1)
        BY <1>5, <2>3
      <3>2. Len(path[PathTo(d)[l]]) = l - 1 /\ Len(path[PathTo(d)[k]]) = k - 1
        BY <1>3, <3>1
      <3>3. l - 1 = k - 1
        BY <1>6, <3>2
      <3>4. QED
        BY <1>1, <3>3
    <2>4. QED
      BY <2>1, <2>2, <2>3
  <1>7. QED
    BY <1>3, <1>4, <1>5, <1>6

\* The parent of a row is there, and the row's chain is the chain down to it.
LEMMA ParentIs ==
    ASSUME TypeOK, NEW i \in Rows
    PROVE  parent(i) \in Plan \cup Rows /\ path[i] = PathTo(parent(i))
  <1> DEFINE n == Len(path[i])
             x == parent(i)
  <1>1. /\ n \in Nat \ {0} /\ path[i] \in Seq(Nodes) /\ path[i][1] \in Plan
        /\ x = path[i][n]
    BY RowIs DEF parent
  <1>2. CASE n = 1
    <2>1. x \in Plan
      BY <1>1, <1>2
    <2>2. /\ PathTo(x) \in Seq(Nodes) /\ Len(PathTo(x)) = 1 /\ PathTo(x)[1] = x
      BY <2>1, NodeIs
    <2>3. \A k \in 1..n : path[i][k] = PathTo(x)[k]
      BY <1>1, <1>2, <2>2
    <2> HIDE DEF x
    <2>4. path[i] = PathTo(x)
      BY <1>1, <1>2, <2>2, <2>3, SeqEqual
    <2>5. QED
      BY <2>1, <2>4 DEF x
  <1>3. CASE n # 1
    <2>1. n \in 2..n
      <3>1. \A m \in Nat \ {0} : m # 1 => m \in 2..m
        OBVIOUS
      <3> HIDE DEF n
      <3>2. QED
        BY <1>1, <1>3, <3>1
    <2>2. /\ x \in Rows /\ Len(path[x]) = n - 1
          /\ \A m \in 1..(n - 1) : path[x][m] = path[i][m]
      BY <1>1, <2>1, AboveIs
    <2>3. /\ PathTo(x) \in Seq(Nodes) /\ Len(PathTo(x)) = Len(path[x]) + 1
          /\ PathTo(x)[Len(path[x]) + 1] = x
          /\ \A k \in 1..Len(path[x]) : PathTo(x)[k] = path[x][k]
      BY <2>2, NodeIs
    <2>4. ASSUME NEW k \in 1..n
          PROVE  path[i][k] = PathTo(x)[k]
      <3>1. k = n \/ k \in 1..(n - 1)
        BY <1>1
      <3>2. QED
        BY <1>1, <2>2, <2>3, <3>1
    <2>5. Len(PathTo(x)) = n
      BY <1>1, <2>2, <2>3
    <2> HIDE DEF x
    <2>6. path[i] = PathTo(x)
      BY <1>1, <2>3, <2>4, <2>5, SeqEqual
    <2>7. QED
      BY <2>2, <2>6 DEF x
  <1>4. QED
    BY <1>2, <1>3

-------------------------------------------------------------------------------
\* What rewriting an index gives.

\* A row that is below x, at place at of the chain: the new index of x, then the
\* row's own numbers.
LEMMA RebasedIs ==
    ASSUME TypeOK, NEW d \in Rows, NEW at \in 1..Len(path[d]), NEW x, path[d][at] = x,
           NEW top \in Seq(Int)
    PROVE  /\ Rebased(x, top, d) \in Seq(Int)
           /\ Len(Rebased(x, top, d)) = Len(top) + (Len(path[d]) + 1 - at)
           /\ \A k \in 1..Len(top) : Rebased(x, top, d)[k] = top[k]
           /\ \A k \in 1..(Len(path[d]) + 1 - at) :
                 Rebased(x, top, d)[Len(top) + k] = lastOf(PathTo(d)[at + k])
  <1> DEFINE chain == PathTo(d)
             n == Len(path[d]) + 1 - at
             rest == [k \in 1..n |-> lastOf(chain[at + k])]
  <1>1. /\ Len(chain) = Len(path[d]) + 1 /\ Len(path[d]) \in Nat
        /\ DOMAIN chain = 1..(Len(path[d]) + 1)
        /\ chain[at] = x
    <2>1. /\ chain \in Seq(Nodes) /\ Len(chain) = Len(path[d]) + 1 /\ Len(path[d]) \in Nat
          /\ \A k \in 1..Len(path[d]) : chain[k] = path[d][k]
      BY NodeIs, RowIs
    <2>2. DOMAIN chain = 1..Len(chain)
      BY <2>1, LenProperties
    <2>3. QED
      BY <2>1, <2>2
  <1>2. at \in DOMAIN chain
    BY <1>1
  <1>3. \A k \in DOMAIN chain : chain[k] = x => k = at
    BY <1>1, <1>2, PlaceIs
  <1>4. (CHOOSE k \in DOMAIN chain : chain[k] = x) = at
    BY <1>1, <1>2, <1>3
  <1>5. n \in Nat /\ Len(chain) - at = n
    BY <1>1
  <1>6. Rebased(x, top, d) = top \o rest
    <2> DEFINE c == CHOOSE k \in DOMAIN chain : chain[k] = x
    <2>1. Rebased(x, top, d) = top \o [k \in 1..(Len(chain) - c) |-> lastOf(chain[c + k])]
      BY DEF Rebased
    <2>2. c = at
      BY <1>4
    <2> HIDE DEF chain, c
    <2>3. QED
      BY <1>5, <2>1, <2>2
  <1>7. \A k \in 1..n : lastOf(chain[at + k]) \in Int
    <2> SUFFICES ASSUME NEW k \in 1..n
                 PROVE  lastOf(chain[at + k]) \in Int
      OBVIOUS
    <2>1. at + k \in 1..(Len(path[d]) + 1) /\ at + k > 1
      BY <1>1
    <2>2. chain[at + k] \in Rows
      BY <2>1, PlaceIs
    <2>3. QED
      BY <2>2, RowIs
  <1> HIDE DEF chain
  <1>8. rest \in [1..n -> Int]
    BY <1>7
  <1>9. \A k \in 1..n : rest[k] = lastOf(chain[at + k])
    OBVIOUS
  <1> HIDE DEF n, rest
  <1>10. rest \in Seq(Int) /\ Len(rest) = n
    BY <1>5, <1>8, Sequence
  <1>11. /\ top \o rest \in Seq(Int)
         /\ Len(top \o rest) = Len(top) + n
         /\ \A k \in 1..(Len(top) + n) :
               (top \o rest)[k] = IF k <= Len(top) THEN top[k] ELSE rest[k - Len(top)]
    BY <1>10, ConcatProperties
  <1>12. Len(top) \in Nat
    BY LenProperties
  <1>13. ASSUME NEW k \in 1..Len(top)
         PROVE  (top \o rest)[k] = top[k]
    BY <1>5, <1>11, <1>12
  <1>14. ASSUME NEW k \in 1..n
         PROVE  (top \o rest)[Len(top) + k] = lastOf(chain[at + k])
    <2>1. /\ Len(top) + k \in 1..(Len(top) + n) /\ ~(Len(top) + k <= Len(top))
          /\ (Len(top) + k) - Len(top) = k
      BY <1>5, <1>12
    <2>2. QED
      BY <1>9, <1>11, <2>1
  <1>15. QED
    BY <1>6, <1>11, <1>13, <1>14 DEF chain, n

\* The same below a priority, whose index is its level.
LEMMA RebasedRoot ==
    ASSUME TypeOK, NEW d \in Rows, NEW n \in Int
    PROVE  /\ Rebased(path[d][1], <<n>>, d) \in Seq(Int)
           /\ Len(Rebased(path[d][1], <<n>>, d)) = Len(path[d]) + 1
           /\ Rebased(path[d][1], <<n>>, d)[1] = n
           /\ \A k \in 2..(Len(path[d]) + 1) :
                 Rebased(path[d][1], <<n>>, d)[k] = lastOf(PathTo(d)[k])
  <1>1. PICK top : top = <<n>>
    OBVIOUS
  <1>2. PICK x : x = path[d][1]
    OBVIOUS
  <1>3. PICK new : new = Rebased(x, top, d)
    OBVIOUS
  <1>4. top \in Seq(Int) /\ Len(top) = 1 /\ top[1] = n
    BY <1>1
  <1>5. Len(path[d]) \in Nat \ {0} /\ 1 \in 1..Len(path[d])
    BY RowIs
  <1>6. /\ new \in Seq(Int) /\ Len(new) = 1 + (Len(path[d]) + 1 - 1)
        /\ \A k \in 1..1 : new[k] = top[k]
        /\ \A k \in 1..(Len(path[d]) + 1 - 1) : new[1 + k] = lastOf(PathTo(d)[1 + k])
    <2>1. \A y : path[d][1] = y =>
             \A t \in Seq(Int) :
                /\ Rebased(y, t, d) \in Seq(Int)
                /\ Len(Rebased(y, t, d)) = Len(t) + (Len(path[d]) + 1 - 1)
                /\ \A k \in 1..Len(t) : Rebased(y, t, d)[k] = t[k]
                /\ \A k \in 1..(Len(path[d]) + 1 - 1) :
                      Rebased(y, t, d)[Len(t) + k] = lastOf(PathTo(d)[1 + k])
      BY <1>5, RebasedIs
    <2>2. /\ Rebased(x, top, d) \in Seq(Int)
          /\ Len(Rebased(x, top, d)) = Len(top) + (Len(path[d]) + 1 - 1)
          /\ \A k \in 1..Len(top) : Rebased(x, top, d)[k] = top[k]
          /\ \A k \in 1..(Len(path[d]) + 1 - 1) :
                Rebased(x, top, d)[Len(top) + k] = lastOf(PathTo(d)[1 + k])
      BY <1>2, <1>4, <2>1
    <2>3. QED
      BY <1>3, <1>4, <2>2
  <1>7. ASSUME NEW k \in 2..(Len(path[d]) + 1)
        PROVE  new[k] = lastOf(PathTo(d)[k])
    <2>1. k - 1 \in 1..(Len(path[d]) + 1 - 1) /\ 1 + (k - 1) = k
      BY <1>5
    <2>2. QED
      BY <1>6, <2>1
  <1>8. new \in Seq(Int) /\ Len(new) = Len(path[d]) + 1 /\ new[1] = n
    BY <1>4, <1>5, <1>6
  <1>9. QED
    BY <1>1, <1>2, <1>3, <1>7, <1>8

\* A row that moves up among its siblings: its last number is one less.
LEMMA DecrementedIs ==
    ASSUME TypeOK, NEW s \in Rows
    PROVE  /\ Decremented(s) \in Seq(Int) /\ Len(Decremented(s)) = Len(path[s]) + 1
           /\ \A k \in 1..Len(path[s]) : Decremented(s)[k] = index[s][k]
           /\ Decremented(s)[Len(path[s]) + 1] = lastOf(s) - 1
  <1>1. /\ index[s] \in Seq(Int) /\ Len(index[s]) = Len(path[s]) + 1
        /\ Len(path[s]) \in Nat /\ Len(path[s]) + 1 \in 1..Len(index[s])
        /\ lastOf(s) = index[s][Len(path[s]) + 1] /\ lastOf(s) \in Int
    BY RowIs
  <1>2. Decremented(s) = [index[s] EXCEPT ![Len(path[s]) + 1] = lastOf(s) - 1]
    BY <1>1 DEF Decremented
  <1>3. lastOf(s) - 1 \in Int
    BY <1>1
  <1>4. /\ Decremented(s) \in Seq(Int) /\ Len(Decremented(s)) = Len(index[s])
        /\ \A k \in 1..Len(index[s]) :
              Decremented(s)[k] = IF k = Len(path[s]) + 1 THEN lastOf(s) - 1 ELSE index[s][k]
    BY <1>1, <1>2, <1>3, ExceptSeq
  <1>5. \A k \in 1..Len(path[s]) : k \in 1..Len(index[s]) /\ k # Len(path[s]) + 1
    BY <1>1
  <1>6. QED
    BY <1>1, <1>4, <1>5

\* A row whose priority moves down a level: its first number is one more.
LEMMA RootIncrementedIs ==
    ASSUME TypeOK, NEW i \in Rows
    PROVE  /\ [index[i] EXCEPT ![1] = @ + 1] \in Seq(Int)
           /\ Len([index[i] EXCEPT ![1] = @ + 1]) = Len(path[i]) + 1
           /\ [index[i] EXCEPT ![1] = @ + 1][1] = index[i][1] + 1
           /\ \A k \in 2..(Len(path[i]) + 1) : [index[i] EXCEPT ![1] = @ + 1][k] = index[i][k]
  <1>1. /\ index[i] \in Seq(Int) /\ Len(index[i]) = Len(path[i]) + 1
        /\ Len(path[i]) \in Nat /\ 1 \in 1..Len(index[i]) /\ index[i][1] + 1 \in Int
    BY RowIs
  <1> DEFINE new == [index[i] EXCEPT ![1] = index[i][1] + 1]
  <1>2. /\ new \in Seq(Int) /\ Len(new) = Len(index[i])
        /\ \A k \in 1..Len(index[i]) :
              new[k] = IF k = 1 THEN index[i][1] + 1 ELSE index[i][k]
    BY <1>1, ExceptSeq
  <1> HIDE DEF new
  <1>3. \A k \in 2..(Len(path[i]) + 1) : k \in 1..Len(index[i]) /\ k # 1
    BY <1>1
  <1>4. new \in Seq(Int) /\ Len(new) = Len(path[i]) + 1 /\ new[1] = index[i][1] + 1
    BY <1>1, <1>2
  <1>5. \A k \in 2..(Len(path[i]) + 1) : new[k] = index[i][k]
    BY <1>2, <1>3
  <1>6. QED
    BY <1>4, <1>5 DEF new

\* Of the rows below x, one is the last: their indexes are of one length.
LEMMA ChildrenAre ==
    ASSUME TypeOK, NEW x \in Plan \cup Rows
    PROVE  /\ IsFiniteSet(children(x))
           /\ \A j \in children(x) : /\ j \in Rows /\ path[j] = PathTo(x)
                                     /\ Len(path[j]) = Len(IndexOf(x))
                                     /\ index[j] \in [1..(Len(IndexOf(x)) + 1) -> Int]
           /\ children(x) # {} =>
                 \E j \in children(x) : \A o \in children(x) : Geq(index[j], index[o])
  <1> DEFINE S == children(x)
             n == Len(IndexOf(x)) + 1
             R == {pair \in S \X S : Geq(index[pair[1]], index[pair[2]])}
  <1>1. S \subseteq Items /\ S \subseteq Rows /\ \A j \in S : parent(j) = x
    BY DEF children, Rows
  <1>2. IsFiniteSet(S)
    BY <1>1, FiniteAssumption, FS_Subset
  <1>3. n \in Nat /\ \A j \in S : /\ path[j] = PathTo(x) /\ Len(path[j]) = Len(IndexOf(x))
                                  /\ index[j] \in [1..n -> Int]
    <2>1. n \in Nat /\ Len(PathTo(x)) = Len(IndexOf(x))
      BY NodeIs
    <2>2. \A j \in S : path[j] = PathTo(x) /\ index[j] \in [1..(Len(path[j]) + 1) -> Int]
      BY <1>1, ParentIs, RowIs
    <2>3. QED
      BY <2>1, <2>2
  <1> HIDE DEF S, n
  <1>4. \A j, o \in S : <<j, o>> \in R <=> Geq(index[j], index[o])
    OBVIOUS
  <1>5. \A j, o \in S : <<j, o>> \in R \/ <<o, j>> \in R
    BY <1>3, <1>4, GeqTotal
  <1>6. \A j, o, u \in S : <<j, o>> \in R /\ <<o, u>> \in R => <<j, u>> \in R
    BY <1>3, <1>4, GeqTransitive
  <1> HIDE DEF R
  <1>7. S # {} => \E j \in S : \A o \in S : <<j, o>> \in R
    BY <1>2, <1>5, <1>6, LastMember
  <1>8. S # {} => \E j \in S : \A o \in S : Geq(index[j], index[o])
    BY <1>4, <1>7
  <1>9. QED
    BY <1>1, <1>2, <1>3, <1>8 DEF S, n

\* A new row below x is numbered after x, by a last number of its own.
LEMMA CreateIndexIs ==
    ASSUME TypeOK, NEW x \in Plan \cup Rows
    PROVE  \E n \in Int : create_index(x) = Append(IndexOf(x), n)
  <1> DEFINE prev == CHOOSE j \in children(x) :
                        \A o \in children(x) : Geq(index[j], index[o])
  <1>1. CASE children(x) = {}
    BY <1>1 DEF create_index
  <1>2. CASE children(x) # {}
    <2>1. prev \in children(x)
      BY <1>2, ChildrenAre
    <2>2. prev \in Rows
      BY <2>1 DEF children
    <2>3. create_index(x) = Append(IndexOf(x), lastOf(prev) + 1)
            \/ create_index(x) = Append(IndexOf(x), 1)
      BY <1>2 DEF create_index
    <2> HIDE DEF prev
    <2>4. lastOf(prev) \in Int
      BY <2>2, RowIs
    <2>5. lastOf(prev) + 1 \in Int /\ 1 \in Int
      BY <2>4
    <2>6. QED
      BY <2>3, <2>5
  <1>3. QED
    BY <1>1, <1>2

-------------------------------------------------------------------------------
\* The types: every row has the shape its class needs.

\* A step that takes whole branches of the tree away keeps the shape, if it
\* leaves each row an index of its length.
LEMMA BranchesGo ==
    ASSUME TypeOK, priority_level' \in [Priorities -> Nat], relevelled' \in BOOLEAN,
           NEW gone, path' = [j \in Items |-> IF j \in gone THEN <<>> ELSE path[j]],
           index' = [j \in Items |-> index'[j]],
           \A j \in Items : j \in gone \/ j \notin Rows => index'[j] = <<>>,
           \A j \in Rows \ gone :
              /\ index'[j] \in Seq(Int) /\ Len(index'[j]) = Len(path[j]) + 1
              /\ path[j][1] \in Plan'
              /\ \A k \in 2..Len(path[j]) : path[j][k] \notin gone
    PROVE  TypeOK'
  <1>1. Rows' = Rows \ gone /\ \A j \in Rows' : j \in Items /\ path'[j] = path[j]
    BY DEF Rows
  <1>2. path' \in [Items -> Seq(Priorities \cup Items)]
    <2>1. \A j \in Items : <<>> \in Seq(Priorities \cup Items)
                             /\ path[j] \in Seq(Priorities \cup Items)
      BY DEF TypeOK
    <2>2. QED
      BY <2>1
  <1>3. index' \in [Items -> Seq(Int)]
    <2>1. \A j \in Items : index'[j] \in Seq(Int)
      <3> SUFFICES ASSUME NEW j \in Items
                   PROVE  index'[j] \in Seq(Int)
        OBVIOUS
      <3>1. CASE j \in Rows \ gone
        BY <3>1
      <3>2. CASE j \notin Rows \ gone
        <4>1. index'[j] = <<>>
          BY <3>2
        <4>2. <<>> \in Seq(Int)
          BY EmptySeq
        <4>3. QED
          BY <4>1, <4>2
      <3>3. QED
        BY <3>1, <3>2
    <2>2. QED
      BY <2>1
  <1>4. ASSUME NEW j \in Rows'
        PROVE  /\ Len(path'[j]) <= Depth /\ Len(index'[j]) = Len(path'[j]) + 1
               /\ path'[j][1] \in Plan'
               /\ \A k \in 2..Len(path'[j]) :
                     /\ path'[j][k] \in Rows'
                     /\ path'[path'[j][k]] = SubSeq(path'[j], 1, k - 1)
    <2>1. j \in Rows \ gone /\ path'[j] = path[j]
      BY <1>1
    <2>2. Len(path[j]) <= Depth
      BY <2>1 DEF TypeOK, Rows
    <2>3. ASSUME NEW k \in 2..Len(path[j])
          PROVE  path[j][k] \in Rows' /\ path'[path[j][k]] = SubSeq(path[j], 1, k - 1)
      <3>1. path[j][k] \in Rows \ gone /\ path[path[j][k]] = SubSeq(path[j], 1, k - 1)
        BY <2>1, AboveIs
      <3>2. QED
        BY <1>1, <3>1
    <2>4. QED
      BY <2>1, <2>2, <2>3
  <1>5. \A j \in Items : j \notin Rows' => index'[j] = <<>>
    BY <1>1
  <1>6. QED
    BY <1>2, <1>3, <1>4, <1>5 DEF TypeOK

\* Who is below a row that is below x is below x.
LEMMA BelowIs ==
    ASSUME TypeOK, NEW j \in Rows, NEW x
    PROVE  /\ j \in Below(x) <=> \E k \in 1..Len(path[j]) : path[j][k] = x
           /\ \A k \in 2..Len(path[j]) : path[j][k] \in Below(x) => j \in Below(x)
  <1>1. DOMAIN path[j] = 1..Len(path[j]) /\ Len(path[j]) \in Nat
    BY RowIs, LenProperties
  <1>2. j \in Below(x) <=> \E k \in 1..Len(path[j]) : path[j][k] = x
    BY <1>1 DEF Below
  <1>3. ASSUME NEW k \in 2..Len(path[j]), path[j][k] \in Below(x)
        PROVE  j \in Below(x)
    <2>1. PICK a \in Rows : a = path[j][k]
      BY <1>3 DEF Below
    <2>2. Len(path[a]) = k - 1 /\ \A m \in 1..(k - 1) : path[a][m] = path[j][m]
      BY <2>1, AboveIs
    <2>3. DOMAIN path[a] = 1..Len(path[a])
      BY RowIs, LenProperties
    <2>4. PICK m \in 1..(k - 1) : path[a][m] = x
      BY <1>3, <2>1, <2>2, <2>3 DEF Below
    <2>5. m \in 1..Len(path[j]) /\ path[j][m] = x
      BY <1>1, <2>2, <2>4
    <2>6. QED
      BY <1>2, <2>5
  <1>4. QED
    BY <1>2, <1>3

\* What a save of a priority does to the indexes.
LEMMA RaisedIs ==
    ASSUME TypeOK, NEW Q, index' = RootIncremented(Q)
    PROVE  /\ index' = [j \in Items |-> index'[j]]
           /\ \A j \in Items : j \notin Rows => index'[j] = <<>>
           /\ \A j \in Rows :
                 /\ index'[j] \in Seq(Int) /\ Len(index'[j]) = Len(path[j]) + 1
                 /\ index'[j][1] = index[j][1] + (IF path[j][1] \in Q THEN 1 ELSE 0)
                 /\ \A k \in 2..(Len(path[j]) + 1) : index'[j][k] = index[j][k]
  <1>1. /\ index' = [j \in Items |-> index'[j]]
        /\ \A j \in Items : j \notin Rows => index'[j] = index[j]
        /\ \A j \in Rows : index'[j] = IF path[j][1] \in Q
                                       THEN [index[j] EXCEPT ![1] = @ + 1] ELSE index[j]
    BY DEF RootIncremented, Rows
  <1>2. \A j \in Items : j \notin Rows => index[j] = <<>>
    BY DEF TypeOK
  <1>3. ASSUME NEW j \in Rows
        PROVE  /\ index'[j] \in Seq(Int) /\ Len(index'[j]) = Len(path[j]) + 1
               /\ index'[j][1] = index[j][1] + (IF path[j][1] \in Q THEN 1 ELSE 0)
               /\ \A k \in 2..(Len(path[j]) + 1) : index'[j][k] = index[j][k]
    <2>1. CASE path[j][1] \in Q
      <3>1. index'[j] = [index[j] EXCEPT ![1] = @ + 1]
        BY <1>1, <2>1
      <3>2. QED
        BY <2>1, <3>1, RootIncrementedIs
    <2>2. CASE path[j][1] \notin Q
      <3>1. index'[j] = index[j]
        BY <1>1, <2>2
      <3>2. /\ index[j] \in Seq(Int) /\ Len(index[j]) = Len(path[j]) + 1
            /\ index[j] \in [1..(Len(path[j]) + 1) -> Int] /\ Len(path[j]) \in Nat
        BY RowIs
      <3>3. index[j][1] \in Int
        BY <3>2
      <3>4. QED
        BY <2>2, <3>1, <3>2, <3>3
    <2>3. QED
      BY <2>1, <2>2
  <1>4. QED
    BY <1>1, <1>2, <1>3

LEMMA SavedTypes ==
    ASSUME TypeOK, LevelsInv, NEW p \in Priorities, NEW L \in Nat \ {0}, Saved(p, L),
           index' = RootIncremented(Run(L)), path' = path, relevelled' \in BOOLEAN
    PROVE  TypeOK'
  <1>1. priority_level' \in [Priorities -> Nat]
    BY SavedKeepsInv DEF LevelsInv, LevelsTyped
  <1>2. Plan \subseteq Plan'
    <2> SUFFICES ASSUME NEW q \in Plan
                 PROVE  q \in Plan'
      OBVIOUS
    <2>1. q \in Priorities /\ priority_level[q] \in Nat /\ priority_level[q] # 0
      BY DEF Plan, LevelsInv, LevelsTyped
    <2>2. priority_level'[q] # 0
      BY <2>1 DEF Saved
    <2>3. QED
      BY <2>1, <2>2 DEF Plan
  <1>0. PICK none : none = {}
    OBVIOUS
  <1>3. path' = [j \in Items |-> IF j \in none THEN <<>> ELSE path[j]]
    BY <1>0 DEF TypeOK
  <1>4. \A j \in Rows : path[j][1] \in Plan'
    BY <1>2, RowIs
  <1>5. /\ index' = [j \in Items |-> index'[j]]
        /\ \A j \in Items : j \in none \/ j \notin Rows => index'[j] = <<>>
        /\ \A j \in Rows \ none :
              /\ index'[j] \in Seq(Int) /\ Len(index'[j]) = Len(path[j]) + 1
              /\ path[j][1] \in Plan'
              /\ \A k \in 2..Len(path[j]) : path[j][k] \notin none
    BY <1>0, <1>4, RaisedIs
  <1>6. QED
    BY <1>1, <1>3, <1>5, BranchesGo

\* What destroying a priority does to the indexes.
LEMMA DestroyedPriorityIs ==
    ASSUME TypeOK, LevelsInv, NEW p \in Priorities, DestroyPriority(p)
    PROVE  /\ index' = [j \in Items |-> index'[j]]
           /\ \A j \in Items : j \in Below(p) \/ j \notin Rows => index'[j] = <<>>
           /\ \A j \in Rows \ Below(p) :
                 /\ index'[j] \in Seq(Int) /\ Len(index'[j]) = Len(path[j]) + 1
                 /\ path[j][1] \in Plan'
                 /\ IF priority_level[path[j][1]] > priority_level[p]
                    THEN /\ index'[j][1] = priority_level[path[j][1]] - 1
                         /\ \A k \in 2..(Len(path[j]) + 1) :
                               index'[j][k] = lastOf(PathTo(j)[k])
                    ELSE index'[j] = index[j]
  <1> DEFINE lower == {q \in Plan : priority_level[q] > priority_level[p]}
  <1>1. /\ p \in Plan
        /\ priority_level' = [q \in Priorities |->
                                 IF q = p THEN 0
                                 ELSE priority_level[q] - (IF q \in lower THEN 1 ELSE 0)]
        /\ index' = [j \in Items |->
                       IF j \in Below(p) THEN <<>>
                       ELSE IF j \in Rows /\ path[j][1] \in lower
                       THEN Rebased(path[j][1], <<priority_level[path[j][1]] - 1>>, j)
                       ELSE index[j]]
    BY DEF DestroyPriority
  <1>2. index' = [j \in Items |-> index'[j]]
    BY <1>1
  <1>3. \A j \in Items : j \in Below(p) \/ j \notin Rows => index'[j] = <<>>
    BY <1>1 DEF TypeOK
  <1>4. ASSUME NEW j \in Rows \ Below(p)
        PROVE  /\ index'[j] \in Seq(Int) /\ Len(index'[j]) = Len(path[j]) + 1
               /\ path[j][1] \in Plan'
               /\ IF priority_level[path[j][1]] > priority_level[p]
                  THEN /\ index'[j][1] = priority_level[path[j][1]] - 1
                       /\ \A k \in 2..(Len(path[j]) + 1) :
                             index'[j][k] = lastOf(PathTo(j)[k])
                  ELSE index'[j] = index[j]
    <2>1. /\ j \in Items /\ path[j][1] \in Plan /\ Len(path[j]) \in Nat \ {0}
          /\ index[j] \in Seq(Int) /\ Len(index[j]) = Len(path[j]) + 1
      BY RowIs
    <2>2. PICK q \in Plan : q = path[j][1]
      BY <2>1
    <2>3. q # p
      <3>1. 1 \in 1..Len(path[j])
        BY <2>1
      <3>2. QED
        BY <2>2, <3>1, BelowIs
    <2>4. /\ q \in Priorities /\ priority_level[q] \in Nat \ {0}
          /\ priority_level[p] \in Nat \ {0}
      BY <1>1, <2>2 DEF Plan, LevelsInv, LevelsTyped
    <2>5. priority_level'[q] = priority_level[q] - (IF q \in lower THEN 1 ELSE 0)
      BY <1>1, <2>3, <2>4
    <2>6. q \in lower <=> priority_level[q] > priority_level[p]
      BY <2>2
    <2>7. index'[j] = IF q \in lower THEN Rebased(q, <<priority_level[q] - 1>>, j) ELSE index[j]
      BY <1>1, <2>1, <2>2
    <2> HIDE DEF lower
    <2>8. q \in Plan'
      <3>1. priority_level'[q] # 0
        BY <2>4, <2>5, <2>6
      <3>2. QED
        BY <2>4, <3>1 DEF Plan
    <2>9. CASE q \in lower
      <3>1. index'[j] = Rebased(path[j][1], <<priority_level[q] - 1>>, j)
        BY <2>2, <2>7, <2>9
      <3>2. j \in Rows /\ priority_level[q] - 1 \in Int
        BY <2>4
      <3>3. /\ index'[j] \in Seq(Int) /\ Len(index'[j]) = Len(path[j]) + 1
            /\ index'[j][1] = priority_level[q] - 1
            /\ \A k \in 2..(Len(path[j]) + 1) : index'[j][k] = lastOf(PathTo(j)[k])
        BY <3>1, <3>2, RebasedRoot
      <3>4. QED
        BY <2>2, <2>6, <2>8, <2>9, <3>3
    <2>10. CASE q \notin lower
      BY <2>1, <2>2, <2>6, <2>7, <2>8, <2>10
    <2>11. QED
      BY <2>9, <2>10
  <1>5. QED
    BY <1>2, <1>3, <1>4

LEMMA DestroyPriorityTypes ==
    ASSUME TypeOK, LevelsInv, NEW p \in Priorities, DestroyPriority(p)
    PROVE  TypeOK'
  <1>1. priority_level' \in [Priorities -> Nat]
    BY DestroyKeepsInv DEF LevelsInv, LevelsTyped
  <1>2. /\ path' = [j \in Items |-> IF j \in Below(p) THEN <<>> ELSE path[j]]
        /\ relevelled' \in BOOLEAN
    BY DEF DestroyPriority, TypeOK
  <1>3. \A j \in Rows \ Below(p) : \A k \in 2..Len(path[j]) : path[j][k] \notin Below(p)
    BY BelowIs
  <1>4. QED
    BY <1>1, <1>2, <1>3, DestroyedPriorityIs, BranchesGo

\* The chain down to a node, cut off above a row in it, is that row's chain.
LEMMA PathToIs ==
    ASSUME TypeOK, NEW x \in Plan \cup Rows, NEW k \in 2..Len(PathTo(x))
    PROVE  /\ PathTo(x)[k] \in Rows
           /\ path[PathTo(x)[k]] = SubSeq(PathTo(x), 1, k - 1)
  <1>1. x \in Rows /\ Len(PathTo(x)) = Len(path[x]) + 1 /\ PathTo(x) \in Seq(Nodes)
    BY NodeIs
  <1>2. PICK a : a = PathTo(x)[k]
    OBVIOUS
  <1>3. a \in Rows /\ Len(path[a]) = k - 1 /\ path[a] \in Seq(Nodes)
    <2>1. k \in 1..(Len(path[x]) + 1) /\ k > 1
      BY <1>1
    <2>2. QED
      BY <1>1, <1>2, <2>1, PlaceIs, RowIs
  <1>4. ASSUME NEW m \in 1..(k - 1)
        PROVE  path[a][m] = PathTo(x)[m]
    <2>1. /\ PathTo(x)[Len(path[x]) + 1] = x /\ Len(path[x]) \in Nat
          /\ \A l \in 1..Len(path[x]) : PathTo(x)[l] = path[x][l]
      <3>1. Len(path[x]) \in Nat
        BY <1>1, RowIs
      <3>2. /\ PathTo(x)[Len(PathTo(x))] = x
            /\ \A l \in 1..Len(path[x]) : PathTo(x)[l] = path[x][l]
        BY <1>1, NodeIs
      <3>3. QED
        BY <1>1, <3>1, <3>2
    <2>2. m \in 1..Len(path[x])
      BY <1>1, <2>1
    <2>3. CASE k = Len(path[x]) + 1
      BY <1>2, <2>1, <2>2, <2>3
    <2>4. CASE k # Len(path[x]) + 1
      <3>1. k \in 2..Len(path[x]) /\ k \in 1..Len(path[x])
        BY <1>1, <2>1, <2>4
      <3>2. a = path[x][k]
        BY <1>2, <2>1, <3>1
      <3>3. \A l \in 1..(k - 1) : path[path[x][k]][l] = path[x][l]
        BY <1>1, <3>1, AboveIs
      <3>4. QED
        BY <2>1, <2>2, <3>2, <3>3
    <2>5. QED
      BY <2>3, <2>4
  <1>5. /\ SubSeq(PathTo(x), 1, k - 1) \in Seq(Nodes)
        /\ Len(SubSeq(PathTo(x), 1, k - 1)) = k - 1
        /\ \A m \in 1..(k - 1) : SubSeq(PathTo(x), 1, k - 1)[m] = PathTo(x)[m]
    <2>1. \A m \in 1..(k - 1) : PathTo(x)[m] \in Nodes
      <3>1. PathTo(x) \in [1..Len(PathTo(x)) -> Nodes] /\ Len(PathTo(x)) \in Nat
        BY <1>1, LenProperties
      <3>2. QED
        BY <3>1
    <2>2. 1 \in Int /\ k - 1 \in Int /\ 1 <= k - 1 /\ (k - 1) - 1 + 1 = k - 1
      BY <1>1
    <2>3. /\ SubSeq(PathTo(x), 1, k - 1) \in Seq(Nodes)
          /\ Len(SubSeq(PathTo(x), 1, k - 1)) = IF 1 <= k - 1 THEN (k - 1) - 1 + 1 ELSE 0
          /\ \A m \in 1..((k - 1) - 1 + 1) :
                SubSeq(PathTo(x), 1, k - 1)[m] = PathTo(x)[1 + m - 1]
      BY <2>1, <2>2, SubSeqProperties
    <2>4. \A m \in 1..(k - 1) : 1 + m - 1 = m
      OBVIOUS
    <2>5. QED
      BY <2>2, <2>3, <2>4
  <1>6. path[a] = SubSeq(PathTo(x), 1, k - 1)
    BY <1>3, <1>4, <1>5, SeqEqual
  <1>7. QED
    BY <1>2, <1>3, <1>6

\* What creating a row does.
LEMMA CreatedItemIs ==
    ASSUME TypeOK, NEW i \in Items, NEW x, CreateItem(i, x)
    PROVE  /\ x \in Plan \cup Rows /\ i \notin Rows /\ Rows' = Rows \cup {i}
           /\ path' = [path EXCEPT ![i] = PathTo(x)]
           /\ index' = [index EXCEPT ![i] = create_index(x)]
           /\ path'[i] = PathTo(x) /\ index'[i] = create_index(x)
           /\ \A j \in Items : j # i => path'[j] = path[j] /\ index'[j] = index[j]
           /\ index'[i] \in Seq(Int) /\ Len(index'[i]) = Len(PathTo(x)) + 1
           /\ \A k \in 1..Len(PathTo(x)) : index'[i][k] = IndexOf(x)[k]
           /\ Len(PathTo(x)) <= Depth
  <1>1. /\ i \notin Rows /\ x \in Plan \cup Rows /\ Len(IndexOf(x)) <= Depth
        /\ path' = [path EXCEPT ![i] = PathTo(x)]
        /\ index' = [index EXCEPT ![i] = create_index(x)]
    BY DEF CreateItem
  <1>2. DOMAIN path = Items /\ DOMAIN index = Items
    BY DEF TypeOK
  <1>3. /\ path'[i] = PathTo(x) /\ index'[i] = create_index(x)
        /\ \A j \in Items : j # i => path'[j] = path[j] /\ index'[j] = index[j]
    BY <1>1, <1>2
  <1>4. /\ IndexOf(x) \in Seq(Int) /\ Len(PathTo(x)) = Len(IndexOf(x))
        /\ Len(PathTo(x)) \in Nat \ {0} /\ PathTo(x) \in Seq(Nodes)
    BY <1>1, NodeIs
  <1>5. Rows' = Rows \cup {i}
    <2>1. PathTo(x) # <<>>
      BY <1>4, EmptySeq
    <2>2. QED
      BY <1>1, <1>3, <2>1 DEF Rows
  <1>6. PICK n \in Int : create_index(x) = Append(IndexOf(x), n)
    BY <1>1, CreateIndexIs
  <1>7. /\ Append(IndexOf(x), n) \in Seq(Int)
        /\ Len(Append(IndexOf(x), n)) = Len(IndexOf(x)) + 1
        /\ \A k \in 1..Len(IndexOf(x)) : Append(IndexOf(x), n)[k] = IndexOf(x)[k]
    BY <1>4, AppendProperties
  <1>8. /\ index'[i] \in Seq(Int) /\ Len(index'[i]) = Len(PathTo(x)) + 1
        /\ \A k \in 1..Len(PathTo(x)) : index'[i][k] = IndexOf(x)[k]
    BY <1>3, <1>4, <1>6, <1>7
  <1>9. QED
    BY <1>1, <1>3, <1>4, <1>5, <1>8

LEMMA CreateItemTypes ==
    ASSUME TypeOK, NEW i \in Items, NEW x, CreateItem(i, x)
    PROVE  TypeOK'
  <1>1. /\ x \in Plan \cup Rows /\ i \notin Rows /\ Rows' = Rows \cup {i}
        /\ path' = [path EXCEPT ![i] = PathTo(x)]
        /\ index' = [index EXCEPT ![i] = create_index(x)]
        /\ path'[i] = PathTo(x) /\ index'[i] = create_index(x)
        /\ \A j \in Items : j # i => path'[j] = path[j] /\ index'[j] = index[j]
        /\ index'[i] \in Seq(Int) /\ Len(index'[i]) = Len(PathTo(x)) + 1
        /\ Len(PathTo(x)) <= Depth
    BY CreatedItemIs
  <1>2. UNCHANGED <<priority_level, relevelled>> /\ Plan' = Plan
    BY DEF CreateItem, Plan
  <1>3. PathTo(x) \in Seq(Nodes) /\ PathTo(x)[1] \in Plan
    BY <1>1, NodeIs
  <1>4. path' \in [Items -> Seq(Priorities \cup Items)] /\ index' \in [Items -> Seq(Int)]
    BY <1>1, <1>3 DEF TypeOK, Nodes
  <1>5. ASSUME NEW j \in Rows'
        PROVE  /\ Len(path'[j]) <= Depth /\ Len(index'[j]) = Len(path'[j]) + 1
               /\ path'[j][1] \in Plan'
               /\ \A k \in 2..Len(path'[j]) :
                     /\ path'[j][k] \in Rows'
                     /\ path'[path'[j][k]] = SubSeq(path'[j], 1, k - 1)
    <2>1. \A a \in Rows : a \in Items /\ a # i /\ path'[a] = path[a] /\ index'[a] = index[a]
      BY <1>1 DEF Rows
    <2>2. CASE j = i
      <3>1. \A k \in 2..Len(PathTo(x)) : /\ PathTo(x)[k] \in Rows
                                         /\ path[PathTo(x)[k]] = SubSeq(PathTo(x), 1, k - 1)
        BY <1>1, PathToIs
      <3>2. QED
        BY <1>1, <1>2, <1>3, <2>1, <2>2, <3>1
    <2>3. CASE j \in Rows
      <3>1. /\ Len(path[j]) <= Depth /\ Len(index[j]) = Len(path[j]) + 1
            /\ path[j][1] \in Plan
            /\ \A k \in 2..Len(path[j]) : /\ path[j][k] \in Rows
                                          /\ path[path[j][k]] = SubSeq(path[j], 1, k - 1)
        BY <2>3 DEF TypeOK, Rows
      <3>2. QED
        BY <1>1, <1>2, <2>1, <2>3, <3>1
    <2>4. QED
      BY <1>1, <2>2, <2>3
  <1>6. \A j \in Items : j \notin Rows' => index'[j] = <<>>
    BY <1>1 DEF TypeOK
  <1>7. QED
    BY <1>2, <1>4, <1>5, <1>6 DEF TypeOK

\* The siblings of a row have its place in the chains of what is below them, and
\* none of them is below it.
LEMMA SiblingsAre ==
    ASSUME TypeOK, NEW i \in Rows, NEW s \in siblings(i)
    PROVE  /\ s \in Rows /\ path[s] = path[i]
           /\ s \notin Below(i)
           /\ \A d \in Rows : \A k \in 1..Len(path[d]) :
                 path[d][k] = s => /\ k = Len(path[i]) + 1
                                   /\ s # i => d \notin Below(i) \cup {i}
                                   /\ d \notin siblings(i)
  <1>1. s \in Rows /\ parent(s) = parent(i)
    BY DEF siblings
  <1>2. path[s] = path[i]
    BY <1>1, ParentIs
  <1>3. ASSUME NEW d \in Rows, NEW k \in 1..Len(path[d])
        PROVE  path[d][k] \in Rows => k = Len(path[path[d][k]]) + 1
    <2>1. /\ k \in 1..(Len(path[d]) + 1) /\ Len(path[d]) \in Nat
          /\ PathTo(d)[k] = path[d][k]
      BY NodeIs, RowIs
    <2>2. \A y \in Plan : y \notin Rows
      BY IdsAssumption DEF Plan, Rows
    <2>3. QED
      BY <2>1, <2>2, PlaceIs
  <1>4. Len(path[i]) \in Nat
    BY RowIs
  <1>5. s \notin Below(i)
    BY <1>1, <1>2, <1>3, <1>4, BelowIs
  <1>6. ASSUME NEW d \in Rows, NEW k \in 1..Len(path[d]), path[d][k] = s
        PROVE  /\ k = Len(path[i]) + 1
               /\ s # i => d \notin Below(i) \cup {i}
               /\ d \notin siblings(i)
    <2>1. k = Len(path[i]) + 1
      BY <1>1, <1>2, <1>3, <1>6
    <2>2. s # i => d \notin Below(i)
      BY <1>3, <1>6, <2>1, BelowIs
    <2>3. \A o \in siblings(i) : Len(path[o]) = Len(path[i])
      BY ParentIs DEF siblings
    <2>4. Len(path[d]) # Len(path[i]) /\ i \in siblings(i)
      BY <1>4, <2>1, RowIs DEF siblings
    <2>5. QED
      BY <2>1, <2>2, <2>3, <2>4
  <1>7. QED
    BY <1>1, <1>2, <1>5, <1>6

\* What destroying a row does: its branch goes, and the siblings after it are
\* decremented with the rows below them.
LEMMA DestroyedItemIs ==
    ASSUME TypeOK, NEW i \in Items, DestroyItem(i)
    PROVE  /\ i \in Rows
           /\ path' = [j \in Items |-> IF j \in {i} \cup Below(i) THEN <<>> ELSE path[j]]
           /\ index' = [j \in Items |-> index'[j]]
           /\ \A j \in Items : j \in {i} \cup Below(i) \/ j \notin Rows => index'[j] = <<>>
           /\ \A s \in lower_priority_siblings(i) :
                 s \in Rows \ ({i} \cup Below(i)) /\ index'[s] = Decremented(s)
           /\ \A j \in Rows \ ({i} \cup Below(i)) :
                 \/ j \in lower_priority_siblings(i)
                 \/ \E s \in lower_priority_siblings(i) : \E at \in 1..Len(path[j]) :
                       /\ path[j][at] = s
                       /\ index'[j] = Rebased(s, Decremented(s), j)
                 \/ /\ index'[j] = index[j]
                    /\ \A k \in 1..Len(path[j]) : path[j][k] \notin lower_priority_siblings(i)
  <1> DEFINE gone == {i} \cup Below(i)
             lower == lower_priority_siblings(i)
             under(j) == {s \in lower : j \in Below(s)}
  <1>1. /\ i \in Rows
        /\ path' = [j \in Items |-> IF j \in gone THEN <<>> ELSE path[j]]
        /\ index' = [j \in Items |->
                       CASE j \in gone -> <<>>
                         [] j \in lower -> Decremented(j)
                         [] under(j) # {} ->
                              LET s == CHOOSE s \in under(j) : TRUE
                              IN  Rebased(s, Decremented(s), j)
                         [] OTHER -> index[j]]
    BY DEF DestroyItem
  <1>2. \A s \in lower : s \in siblings(i) /\ s # i
    BY DEF lower_priority_siblings
  <1>3. \A s \in lower : s \in Rows /\ s \notin gone
    BY <1>1, <1>2, SiblingsAre
  <1>4. \A j \in Rows : \A s \in under(j) : j \notin gone /\ j \notin lower
    <2> SUFFICES ASSUME NEW j \in Rows, NEW s \in under(j)
                 PROVE  j \notin gone /\ j \notin lower
      OBVIOUS
    <2>1. s \in lower /\ s \in siblings(i) /\ s # i
      BY <1>2
    <2>2. PICK k \in 1..Len(path[j]) : path[j][k] = s
      BY BelowIs
    <2>3. j \notin Below(i) \cup {i} /\ j \notin siblings(i)
      BY <1>1, <2>1, <2>2, SiblingsAre
    <2>4. QED
      BY <1>2, <2>3
  <1>5. \A j \in Items : j \notin Rows => j \notin lower /\ under(j) = {} /\ index[j] = <<>>
    BY <1>3 DEF Below, TypeOK
  <1> HIDE DEF gone, lower
  <1>6. \A j \in Items : j \in gone \/ j \notin Rows => index'[j] = <<>>
    <2> SUFFICES ASSUME NEW j \in Items, j \in gone \/ j \notin Rows
                 PROVE  index'[j] = <<>>
      OBVIOUS
    <2>1. j \notin lower /\ under(j) = {}
      BY <1>3, <1>4, <1>5
    <2> HIDE DEF under
    <2>2. QED
      BY <1>1, <1>5, <2>1
  <1>7. \A s \in lower : index'[s] = Decremented(s)
    <2> SUFFICES ASSUME NEW s \in lower
                 PROVE  index'[s] = Decremented(s)
      OBVIOUS
    <2>1. s \in Items /\ s \notin gone /\ under(s) = {}
      BY <1>3, <1>4 DEF Rows
    <2> HIDE DEF under
    <2>2. QED
      BY <1>1, <2>1
  <1>8. ASSUME NEW j \in Rows \ gone, j \notin lower
        PROVE  \/ \E s \in lower : \E at \in 1..Len(path[j]) :
                     path[j][at] = s /\ index'[j] = Rebased(s, Decremented(s), j)
               \/ /\ index'[j] = index[j]
                  /\ \A k \in 1..Len(path[j]) : path[j][k] \notin lower
    <2>1. j \in Items
      BY DEF Rows
    <2>2. CASE under(j) # {}
      <3> DEFINE s == CHOOSE s \in under(j) : TRUE
      <3>1. s \in under(j)
        BY <2>2
      <3>2. s \in lower /\ j \in Below(s)
        BY <3>1
      <3> HIDE DEF under
      <3>3. index'[j] = Rebased(s, Decremented(s), j)
        BY <1>1, <1>8, <2>1, <2>2
      <3> HIDE DEF s
      <3>4. PICK at \in 1..Len(path[j]) : path[j][at] = s
        BY <3>2, BelowIs
      <3>5. QED
        BY <3>2, <3>3, <3>4
    <2>3. CASE under(j) = {}
      <3>1. \A k \in 1..Len(path[j]) : path[j][k] \notin lower
        BY <2>3, BelowIs
      <3> HIDE DEF under
      <3>2. index'[j] = index[j]
        BY <1>1, <1>8, <2>1, <2>3
      <3>3. QED
        BY <3>1, <3>2
    <2>4. QED
      BY <2>2, <2>3
  <1>9. index' = [j \in Items |-> index'[j]]
    <2> HIDE DEF under
    <2>1. QED
      BY <1>1
  <1>10. QED
    BY <1>1, <1>3, <1>6, <1>7, <1>8, <1>9 DEF gone, lower

\* What is below a sibling that moves up keeps its own numbers under the new one.
LEMMA RebasedBranch ==
    ASSUME TypeOK, NEW d \in Rows, NEW at \in 1..Len(path[d]), NEW s \in Rows, path[d][at] = s,
           NEW new, new = Rebased(s, Decremented(s), d)
    PROVE  /\ at = Len(path[s]) + 1
           /\ new \in Seq(Int) /\ Len(new) = Len(path[d]) + 1
           /\ \A k \in 1..(at - 1) : new[k] = index[s][k]
           /\ new[at] = lastOf(s) - 1
           /\ \A k \in (at + 1)..(Len(path[d]) + 1) : new[k] = lastOf(PathTo(d)[k])
  <1>1. Len(path[d]) \in Nat /\ Len(path[s]) \in Nat
    BY RowIs
  <1>2. at = Len(path[s]) + 1
    <2>1. PathTo(d)[at] = s /\ at \in 1..(Len(path[d]) + 1)
      BY <1>1, NodeIs
    <2>2. \A x \in Plan : x \notin Rows
      BY IdsAssumption DEF Plan, Rows
    <2>3. QED
      BY <2>1, <2>2, PlaceIs
  <1>3. PICK top : top = Decremented(s)
    OBVIOUS
  <1>4. /\ top \in Seq(Int) /\ Len(top) = at
        /\ \A k \in 1..(at - 1) : top[k] = index[s][k]
        /\ top[at] = lastOf(s) - 1
    <2>1. /\ Decremented(s) \in Seq(Int) /\ Len(Decremented(s)) = Len(path[s]) + 1
          /\ \A k \in 1..Len(path[s]) : Decremented(s)[k] = index[s][k]
          /\ Decremented(s)[Len(path[s]) + 1] = lastOf(s) - 1
      BY DecrementedIs
    <2>2. at - 1 = Len(path[s])
      BY <1>1, <1>2
    <2>3. QED
      BY <1>2, <1>3, <2>1, <2>2
  <1>5. /\ Rebased(s, top, d) \in Seq(Int)
        /\ Len(Rebased(s, top, d)) = Len(top) + (Len(path[d]) + 1 - at)
        /\ \A k \in 1..Len(top) : Rebased(s, top, d)[k] = top[k]
        /\ \A k \in 1..(Len(path[d]) + 1 - at) :
              Rebased(s, top, d)[Len(top) + k] = lastOf(PathTo(d)[at + k])
    <2>1. \A y : path[d][at] = y =>
             \A t \in Seq(Int) :
                /\ Rebased(y, t, d) \in Seq(Int)
                /\ Len(Rebased(y, t, d)) = Len(t) + (Len(path[d]) + 1 - at)
                /\ \A k \in 1..Len(t) : Rebased(y, t, d)[k] = t[k]
                /\ \A k \in 1..(Len(path[d]) + 1 - at) :
                      Rebased(y, t, d)[Len(t) + k] = lastOf(PathTo(d)[at + k])
      BY RebasedIs
    <2>2. path[d][at] = s
      OBVIOUS
    <2>3. QED
      BY <1>4, <2>1, <2>2
  <1>6. new = Rebased(s, top, d)
    BY <1>3
  <1>7. /\ new \in Seq(Int) /\ Len(new) = at + (Len(path[d]) + 1 - at)
        /\ \A k \in 1..at : new[k] = top[k]
        /\ \A k \in 1..(Len(path[d]) + 1 - at) : new[at + k] = lastOf(PathTo(d)[at + k])
    BY <1>4, <1>5, <1>6
  <1>8. ASSUME NEW k \in (at + 1)..(Len(path[d]) + 1)
        PROVE  new[k] = lastOf(PathTo(d)[k])
    <2>1. k - at \in 1..(Len(path[d]) + 1 - at) /\ at + (k - at) = k
      BY <1>1
    <2>2. QED
      BY <1>7, <2>1
  <1>9. /\ \A k \in 1..(at - 1) : new[k] = index[s][k]
        /\ new[at] = lastOf(s) - 1
    BY <1>4, <1>7
  <1>10. Len(new) = Len(path[d]) + 1
    BY <1>1, <1>7
  <1>11. QED
    BY <1>2, <1>7, <1>8, <1>9, <1>10

LEMMA DestroyItemTypes ==
    ASSUME TypeOK, NEW i \in Items, DestroyItem(i)
    PROVE  TypeOK'
  <1>0. PICK gone : gone = {i} \cup Below(i)
    OBVIOUS
  <1>1. /\ path' = [j \in Items |-> IF j \in gone THEN <<>> ELSE path[j]]
        /\ index' = [j \in Items |-> index'[j]]
        /\ \A j \in Items : j \in gone \/ j \notin Rows => index'[j] = <<>>
    BY <1>0, DestroyedItemIs
  <1>2. UNCHANGED <<priority_level, relevelled>> /\ Plan' = Plan
    BY DEF DestroyItem, Plan
  <1>3. ASSUME NEW j \in Rows \ gone
        PROVE  index'[j] \in Seq(Int) /\ Len(index'[j]) = Len(path[j]) + 1
    <2>1. \A s \in lower_priority_siblings(i) : s \in Rows /\ index'[s] = Decremented(s)
      BY DestroyedItemIs
    <2>2. CASE j \in lower_priority_siblings(i)
      BY <2>1, <2>2, DecrementedIs
    <2>3. CASE \E s \in lower_priority_siblings(i) : \E at \in 1..Len(path[j]) :
                  path[j][at] = s /\ index'[j] = Rebased(s, Decremented(s), j)
      <3>1. PICK s \in Rows, at \in 1..Len(path[j]) :
               path[j][at] = s /\ index'[j] = Rebased(s, Decremented(s), j)
        BY <2>1, <2>3
      <3>2. PICK new : new = index'[j]
        OBVIOUS
      <3>3. new \in Seq(Int) /\ Len(new) = Len(path[j]) + 1
        BY <3>1, <3>2, RebasedBranch
      <3>4. QED
        BY <3>2, <3>3
    <2>4. CASE index'[j] = index[j]
      BY <2>4, RowIs
    <2>5. QED
      BY <1>0, <2>2, <2>3, <2>4, DestroyedItemIs
  <1>4. ASSUME NEW j \in Rows \ gone
        PROVE  path[j][1] \in Plan' /\ \A k \in 2..Len(path[j]) : path[j][k] \notin gone
    <2>1. path[j][1] \in Plan' /\ Len(path[j]) \in Nat
      BY <1>2, RowIs
    <2>2. \A k \in 2..Len(path[j]) : path[j][k] # i /\ path[j][k] \notin Below(i)
      BY <1>0, <2>1, BelowIs
    <2>3. QED
      BY <1>0, <2>1, <2>2
  <1>5. priority_level' \in [Priorities -> Nat] /\ relevelled' \in BOOLEAN
    BY <1>2 DEF TypeOK
  <1>6. QED
    BY <1>1, <1>3, <1>4, <1>5, BranchesGo

TypesInv == TypeOK /\ LevelsInv

LEMMA NextTypes == TypesInv /\ [Next]_vars => TypesInv'
  <1> SUFFICES ASSUME TypesInv, [Next]_vars
               PROVE  TypeOK'
    BY NextKeepsInv DEF TypesInv
  <1> USE DEF TypesInv
  <1>1. ASSUME NEW p \in Priorities, NEW L \in 1..MaxLevel, CreatePriority(p, L)
        PROVE  TypeOK'
    <2>1. /\ Saved(p, L) /\ index' = RootIncremented(Run(L)) /\ path' = path
          /\ relevelled' \in BOOLEAN
      BY <1>1 DEF CreatePriority, Saved, TypeOK
    <2>2. L \in Nat \ {0}
      BY MaxLevelAssumption
    <2>3. QED
      BY <2>1, <2>2, SavedTypes
  <1>2. ASSUME NEW p \in Priorities, NEW L \in 1..MaxLevel, UpdatePriority(p, L)
        PROVE  TypeOK'
    <2>1. /\ Saved(p, L) /\ index' = RootIncremented(Run(L)) /\ path' = path
          /\ relevelled' \in BOOLEAN
      BY <1>2 DEF UpdatePriority, Saved
    <2>2. L \in Nat \ {0}
      BY MaxLevelAssumption
    <2>3. QED
      BY <2>1, <2>2, SavedTypes
  <1>3. ASSUME NEW p \in Priorities, DestroyPriority(p)
        PROVE  TypeOK'
    BY <1>3, DestroyPriorityTypes
  <1>4. ASSUME NEW i \in Items, NEW x \in Priorities \cup Items, CreateItem(i, x)
        PROVE  TypeOK'
    BY <1>4, CreateItemTypes
  <1>5. ASSUME NEW i \in Items, DestroyItem(i)
        PROVE  TypeOK'
    BY <1>5, DestroyItemTypes
  <1>6. CASE UNCHANGED vars
    BY <1>6 DEF vars, TypeOK, Rows, Plan
  <1>7. QED
    BY <1>1, <1>2, <1>3, <1>4, <1>5, <1>6 DEF Next

LEMMA InitTypes == Init => TypesInv
  <1> SUFFICES ASSUME Init PROVE TypesInv
    OBVIOUS
  <1>1. LevelsInv
    BY DEF Init, LevelsInv, LevelsTyped, LevelsUnique, Plan
  <1>2. Rows = {}
    BY DEF Init, Rows
  <1>3. <<>> \in Seq(Priorities \cup Items) /\ <<>> \in Seq(Int)
    BY EmptySeq
  <1>4. QED
    BY <1>1, <1>2, <1>3 DEF Init, TypesInv, TypeOK

LEMMA TypesInvariant == Spec => []TypesInv
  BY InitTypes, NextTypes, PTL DEF Spec

\* For any number of priorities, rows and classes, and whatever levels users
\* choose: every row keeps the shape its class needs.
THEOREM TypeCorrect == Spec => []TypeOK
  BY TypesInvariant, PTL DEF TypesInv

-------------------------------------------------------------------------------
\* The numbers.  That an index is the parent's and one number more has to be
\* known of every number in it, as the numbers above a row change at once.

\* The number a node adds to the indexes below it.
NumberOf(x) == IF x \in Priorities THEN priority_level[x] ELSE lastOf(x)

\* An index has the numbers of what is above the row, in their order.
IndexIsPath == \A i \in Rows : \A k \in 1..Len(path[i]) : index[i][k] = NumberOf(path[i][k])

\* The last numbers of the rows below one are 1, 2, ...
ChildrenCounted ==
    \A x \in Nodes : {lastOf(i) : i \in children(x)} = 1..Cardinality(children(x))

NumberInv == ~relevelled => IndexIsPath /\ ChildrenCounted

\* As many last numbers as rows: no two rows below one have the same.
LEMMA NumbersApart ==
    ASSUME TypeOK, ChildrenCounted, NEW x \in Nodes
    PROVE  /\ IsFiniteSet(children(x)) /\ Cardinality(children(x)) \in Nat
           /\ \A i \in children(x) : lastOf(i) \in 1..Cardinality(children(x))
           /\ \A n \in 1..Cardinality(children(x)) : \E i \in children(x) : lastOf(i) = n
           /\ \A i, j \in children(x) : lastOf(i) = lastOf(j) => i = j
  <1> DEFINE S == children(x)
             n == Cardinality(S)
             f == [i \in S |-> lastOf(i)]
  <1>1. IsFiniteSet(S)
    <2>1. S \subseteq Items
      BY DEF children, Rows
    <2>2. QED
      BY <2>1, FiniteAssumption, FS_Subset
  <1>2. n \in Nat
    BY <1>1, FS_CardinalityType
  <1>3. {lastOf(i) : i \in S} = 1..n
    BY DEF ChildrenCounted
  <1>4. IsFiniteSet(1..n) /\ Cardinality(1..n) = n
    <2> HIDE DEF n
    <2>1. n \in Int /\ 1 \in Int /\ (1 > n => n = 0)
      BY <1>2
    <2>2. QED
      BY <1>2, <2>1, FS_Interval
  <1> HIDE DEF S, n
  <1>5. /\ \A i \in S : lastOf(i) \in 1..n
        /\ \A m \in 1..n : \E i \in S : lastOf(i) = m
    BY <1>3
  <1>6. f \in [S -> 1..n] /\ \A m \in 1..n : \E i \in S : f[i] = m
    BY <1>5
  <1>7. f \in Surjection(S, 1..n)
    BY <1>6, Fun_IsSurj
  <1>8. Cardinality(S) = Cardinality(1..n)
    BY <1>4 DEF n
  <1>9. f \in Injection(S, 1..n)
    <2> HIDE DEF f
    <2>1. QED
      BY <1>1, <1>7, <1>8, FS_SurjSameCardinalityImpliesInj
  <1>10. \A i, j \in S : f[i] = f[j] => i = j
    <2> HIDE DEF f
    <2>1. QED
      BY <1>9, Fun_InjectionProperties
  <1>11. \A i, j \in S : lastOf(i) = lastOf(j) => i = j
    BY <1>10
  <1>12. QED
    BY <1>1, <1>2, <1>5, <1>11 DEF S, n

\* The index of a node has the numbers of the chain down to it.
LEMMA NodeNumbers ==
    ASSUME TypeOK, IndexIsPath, NEW x \in Plan \cup Rows, NEW k \in 1..Len(PathTo(x))
    PROVE  IndexOf(x)[k] = NumberOf(PathTo(x)[k])
  <1>1. CASE x \in Plan
    <2>1. /\ x \in Priorities /\ Len(PathTo(x)) = 1 /\ IndexOf(x) = <<priority_level[x]>>
          /\ PathTo(x)[Len(PathTo(x))] = x
      BY <1>1, NodeIs
    <2>2. k = 1
      BY <2>1
    <2>3. QED
      BY <2>1, <2>2 DEF NumberOf
  <1>2. CASE x \in Rows
    <2>1. /\ IndexOf(x) = index[x] /\ Len(PathTo(x)) = Len(path[x]) + 1 /\ x \notin Priorities
          /\ PathTo(x)[Len(PathTo(x))] = x
          /\ \A m \in 1..Len(path[x]) : PathTo(x)[m] = path[x][m]
      BY <1>2, NodeIs
    <2>2. Len(path[x]) \in Nat /\ lastOf(x) = index[x][Len(path[x]) + 1]
      BY <1>2, RowIs
    <2>3. CASE k = Len(path[x]) + 1
      BY <2>1, <2>2, <2>3 DEF NumberOf
    <2>4. CASE k # Len(path[x]) + 1
      <3>1. k \in 1..Len(path[x])
        BY <2>1, <2>2, <2>4
      <3>2. QED
        BY <1>2, <2>1, <3>1 DEF IndexIsPath
    <2>5. QED
      BY <2>3, <2>4
  <1>3. QED
    BY <1>1, <1>2

\* A row shows its parent's index and one number more.
LEMMA ChildNumbers ==
    ASSUME TypeOK, IndexIsPath, NEW x \in Plan \cup Rows, NEW i \in children(x)
    PROVE  /\ i \in Rows /\ Front(index[i]) = IndexOf(x)
           /\ \A k \in 1..Len(IndexOf(x)) : index[i][k] = IndexOf(x)[k]
           /\ index[i] \in [1..(Len(IndexOf(x)) + 1) -> Int]
           /\ lastOf(i) = index[i][Len(IndexOf(x)) + 1]
  <1>1. /\ i \in Rows /\ path[i] = PathTo(x) /\ Len(path[i]) = Len(IndexOf(x))
        /\ index[i] \in [1..(Len(IndexOf(x)) + 1) -> Int]
    BY ChildrenAre
  <1>2. /\ Len(index[i]) = Len(IndexOf(x)) + 1 /\ lastOf(i) = index[i][Len(IndexOf(x)) + 1]
    BY <1>1, RowIs
  <1>3. IndexOf(x) \in Seq(Int) /\ Len(IndexOf(x)) \in Nat \ {0}
    BY NodeIs
  <1>4. ASSUME NEW k \in 1..Len(IndexOf(x))
        PROVE  index[i][k] = IndexOf(x)[k]
    <2>1. index[i][k] = NumberOf(path[i][k])
      BY <1>1 DEF IndexIsPath
    <2>2. IndexOf(x)[k] = NumberOf(PathTo(x)[k])
      BY <1>1, NodeNumbers
    <2>3. QED
      BY <1>1, <2>1, <2>2
  <1>5. Front(index[i]) = IndexOf(x)
    <2> DEFINE m == Len(IndexOf(x))
    <2>1. Front(index[i]) = SubSeq(index[i], 1, m)
      BY <1>2, <1>3 DEF Front
    <2>2. m \in Int /\ 1 \in Int /\ 1 <= m /\ m - 1 + 1 = m
      BY <1>3
    <2>3. \A k \in 1..m : index[i][k] \in Int
      BY <1>1, <1>3
    <2>4. \A k \in 1..m : 1 + k - 1 = k
      BY <1>3
    <2> HIDE DEF m
    <2>5. /\ SubSeq(index[i], 1, m) \in Seq(Int)
          /\ Len(SubSeq(index[i], 1, m)) = IF 1 <= m THEN m - 1 + 1 ELSE 0
          /\ \A k \in 1..(m - 1 + 1) : SubSeq(index[i], 1, m)[k] = index[i][1 + k - 1]
      BY <2>2, <2>3, SubSeqProperties
    <2>6. /\ Len(SubSeq(index[i], 1, m)) = m
          /\ \A k \in 1..m : SubSeq(index[i], 1, m)[k] = index[i][k]
      BY <2>2, <2>4, <2>5
    <2>7. \A k \in 1..m : SubSeq(index[i], 1, m)[k] = IndexOf(x)[k]
      BY <1>4, <2>6 DEF m
    <2>8. Len(IndexOf(x)) = m
      BY DEF m
    <2>9. SubSeq(index[i], 1, m) = IndexOf(x)
      BY <1>3, <2>5, <2>6, <2>7, <2>8, SeqEqual
    <2>10. QED
      BY <2>1, <2>9
  <1>6. QED
    BY <1>1, <1>2, <1>4, <1>5

\* So rows below one are in the order of their last numbers.
LEMMA ByLast ==
    ASSUME TypeOK, IndexIsPath, NEW x \in Plan \cup Rows,
           NEW i \in children(x), NEW j \in children(x)
    PROVE  Geq(index[i], index[j]) <=> lastOf(i) >= lastOf(j)
  <1> DEFINE n == Len(IndexOf(x)) + 1
  <1>1. /\ n \in Nat \ {0} /\ n - 1 = Len(IndexOf(x))
    BY NodeIs
  <1>2. /\ index[i] \in [1..n -> Int] /\ lastOf(i) = index[i][n]
        /\ index[j] \in [1..n -> Int] /\ lastOf(j) = index[j][n]
        /\ \A k \in 1..Len(IndexOf(x)) : index[i][k] = IndexOf(x)[k]
        /\ \A k \in 1..Len(IndexOf(x)) : index[j][k] = IndexOf(x)[k]
    BY ChildNumbers
  <1> HIDE DEF n
  <1>3. \A k \in 1..(n - 1) : index[i][k] = index[j][k]
    BY <1>1, <1>2
  <1>4. Geq(index[i], index[j]) <=> index[i][n] >= index[j][n]
    BY <1>1, <1>2, <1>3, GeqByLast
  <1>5. QED
    BY <1>2, <1>4

\* A new row gets the number after the last one.
LEMMA NewNumber ==
    ASSUME TypeOK, IndexIsPath, ChildrenCounted, NEW x \in Plan \cup Rows
    PROVE  create_index(x) = Append(IndexOf(x), Cardinality(children(x)) + 1)
  <1> DEFINE S == children(x)
             n == Cardinality(S)
             prev == CHOOSE j \in children(x) :
                        \A o \in children(x) : Geq(index[j], index[o])
  <1>1. /\ IsFiniteSet(S) /\ n \in Nat /\ (S = {} => n = 0)
        /\ \A i \in S : lastOf(i) \in 1..n
        /\ \A m \in 1..n : \E i \in S : lastOf(i) = m
    <2>1. x \in Nodes
      BY DEF Nodes, Plan, Rows
    <2>2. /\ IsFiniteSet(S) /\ n \in Nat
          /\ \A i \in S : lastOf(i) \in 1..n
          /\ \A m \in 1..n : \E i \in S : lastOf(i) = m
      BY <2>1, NumbersApart
    <2>3. S = {} => n = 0
      BY FS_EmptySet
    <2>4. QED
      BY <2>2, <2>3
  <1>2. CASE S = {}
    <2>1. create_index(x) = Append(IndexOf(x), 1)
      BY <1>2 DEF create_index
    <2>2. n + 1 = 1
      BY <1>1, <1>2
    <2>3. QED
      BY <2>1, <2>2
  <1>3. CASE S # {}
    <2>1. prev \in S /\ \A o \in S : Geq(index[prev], index[o])
      BY <1>3, ChildrenAre
    <2>2. Front(index[prev]) = IndexOf(x)
      BY <2>1, ChildNumbers
    <2>3. create_index(x) = Append(IndexOf(x), lastOf(prev) + 1)
      BY <1>3, <2>2 DEF create_index
    <2> HIDE DEF prev
    <2>4. \A o \in S : lastOf(prev) >= lastOf(o)
      BY <2>1, ByLast
    <2>5. lastOf(prev) = n
      <3>1. lastOf(prev) \in 1..n
        BY <1>1, <2>1
      <3>2. n \in 1..n
        BY <1>1, <3>1
      <3>3. PICK o \in S : lastOf(o) = n
        BY <1>1, <3>2
      <3>4. QED
        BY <1>1, <2>4, <3>1, <3>3
    <2>6. QED
      BY <2>3, <2>5
  <1>4. QED
    BY <1>2, <1>3

\* The siblings after a row are those with a greater number.
LEMMA LowerIs ==
    ASSUME TypeOK, IndexIsPath, ChildrenCounted, NEW i \in Rows
    PROVE  /\ parent(i) \in Plan \cup Rows /\ siblings(i) = children(parent(i))
           /\ i \in siblings(i)
           /\ \A j \in siblings(i) :
                 j \in lower_priority_siblings(i) <=> lastOf(j) > lastOf(i)
  <1>1. /\ parent(i) \in Plan \cup Rows /\ siblings(i) = children(parent(i))
        /\ i \in siblings(i)
    BY ParentIs DEF siblings, children
  <1>2. ASSUME NEW j \in siblings(i)
        PROVE  j \in lower_priority_siblings(i) <=> lastOf(j) > lastOf(i)
    <2>1. lastOf(j) >= lastOf(i) <=> Geq(index[j], index[i])
      BY <1>1, ByLast
    <2>2. parent(i) \in Nodes
      BY <1>1 DEF Nodes, Plan, Rows
    <2>3. lastOf(j) = lastOf(i) => j = i
      BY <1>1, <2>2, NumbersApart
    <2>4. lastOf(j) \in Int /\ lastOf(i) \in Int
      BY RowIs DEF siblings
    <2>5. QED
      BY <2>1, <2>3, <2>4 DEF lower_priority_siblings
  <1>3. QED
    BY <1>1, <1>2

\* A step that takes branches away leaves the other rows below their parents.
LEMMA ChildrenLeft ==
    ASSUME TypeOK, NEW gone, path' = [j \in Items |-> IF j \in gone THEN <<>> ELSE path[j]]
    PROVE  /\ Rows' = Rows \ gone
           /\ \A j \in Rows \ gone : j \in Items /\ path'[j] = path[j]
           /\ \A x : children(x)' = children(x) \ gone
  <1>1. Rows' = Rows \ gone /\ \A j \in Rows \ gone : j \in Items /\ path'[j] = path[j]
    BY DEF Rows
  <1>2. QED
    BY <1>1 DEF children, parent

\* A row is below what its parent is below, and below its parent.
LEMMA FamilyIs ==
    ASSUME TypeOK, NEW top, NEW x, NEW j \in children(x)
    PROVE  j \in Below(top) <=> x = top \/ x \in Below(top)
  <1>1. j \in Rows /\ x = path[j][Len(path[j])] /\ Len(path[j]) \in Nat \ {0}
    BY RowIs DEF children, parent
  <1>2. ASSUME j \in Below(top)
        PROVE  x = top \/ x \in Below(top)
    <2>1. PICK k \in 1..Len(path[j]) : path[j][k] = top
      BY <1>1, <1>2, BelowIs
    <2>2. CASE k = Len(path[j])
      BY <1>1, <2>1, <2>2
    <2>3. CASE k # Len(path[j])
      <3>1. Len(path[j]) \in 2..Len(path[j]) /\ k \in 1..(Len(path[j]) - 1)
        BY <1>1, <2>3
      <3>2. /\ x \in Rows /\ Len(path[x]) = Len(path[j]) - 1
            /\ \A m \in 1..(Len(path[j]) - 1) : path[x][m] = path[j][m]
        BY <1>1, <3>1, AboveIs
      <3>3. k \in 1..Len(path[x]) /\ path[x][k] = top
        BY <2>1, <3>1, <3>2
      <3>4. QED
        BY <3>2, <3>3, BelowIs
    <2>4. QED
      BY <2>2, <2>3
  <1>3. ASSUME x = top
        PROVE  j \in Below(top)
    <2>1. Len(path[j]) \in 1..Len(path[j])
      BY <1>1
    <2>2. QED
      BY <1>1, <1>3, <2>1, BelowIs
  <1>4. ASSUME x \in Below(top)
        PROVE  j \in Below(top)
    <2>1. x \in Rows
      BY <1>4 DEF Below
    <2>2. Len(path[j]) # 1
      <3>1. \A y \in Plan : y \notin Rows
        BY IdsAssumption DEF Plan, Rows
      <3>2. path[j][1] \in Plan
        BY <1>1, RowIs
      <3>3. QED
        BY <1>1, <2>1, <3>1, <3>2
    <2>3. \A m \in Nat \ {0} : m # 1 => m \in 2..m
      OBVIOUS
    <2>4. Len(path[j]) \in 2..Len(path[j])
      BY <1>1, <2>2, <2>3
    <2>5. QED
      BY <1>1, <1>4, <2>4, BelowIs
  <1>5. QED
    BY <1>2, <1>3, <1>4

\* A new priority: the indexes below the priorities that move down follow them.
LEMMA CreatePriorityNumbers ==
    ASSUME TypesInv, IndexIsPath, ChildrenCounted, NEW p \in Priorities,
           NEW L \in 1..MaxLevel, CreatePriority(p, L)
    PROVE  /\ IndexIsPath' /\ ChildrenCounted'
           /\ \A j \in Rows : path'[j] = path[j] /\ lastOf(j)' = lastOf(j)
  <1> USE DEF TypesInv
  <1>1. PICK Q : Q = Run(L)
    OBVIOUS
  <1>2. /\ p \notin Plan /\ path' = path /\ index' = RootIncremented(Q)
        /\ priority_level' = [q \in Priorities |->
                                IF q = p THEN L
                                ELSE priority_level[q] + (IF q \in Q THEN 1 ELSE 0)]
    BY <1>1 DEF CreatePriority
  <1>3. \A j \in Rows :
           /\ Len(index'[j]) = Len(path[j]) + 1
           /\ index'[j][1] = index[j][1] + (IF path[j][1] \in Q THEN 1 ELSE 0)
           /\ \A k \in 2..(Len(path[j]) + 1) : index'[j][k] = index[j][k]
    BY <1>2, RaisedIs
  <1>4. Rows' = Rows
    BY <1>2 DEF Rows
  <1>5. ASSUME NEW j \in Rows
        PROVE  index'[j][Len(index'[j])] = lastOf(j)
    <2>1. Len(path[j]) \in Nat \ {0} /\ lastOf(j) = index[j][Len(path[j]) + 1]
      BY RowIs
    <2>2. Len(path[j]) + 1 \in 2..(Len(path[j]) + 1)
      BY <2>1
    <2>3. QED
      BY <1>3, <2>1, <2>2
  <1>6. ASSUME NEW j \in Rows, NEW k \in 1..Len(path[j])
        PROVE  index'[j][k] = IF path[j][k] \in Priorities THEN priority_level'[path[j][k]]
                              ELSE index'[path[j][k]][Len(index'[path[j][k]])]
    <2>1. Len(path[j]) \in Nat \ {0} /\ path[j][1] \in Plan
      BY RowIs
    <2>2. index[j][k] = NumberOf(path[j][k])
      BY DEF IndexIsPath
    <2>3. CASE k = 1
      <3>1. PICK q : q = path[j][1]
        OBVIOUS
      <3>2. q \in Priorities /\ q # p
        BY <1>2, <2>1, <3>1 DEF Plan
      <3>3. index[j][1] = priority_level[q]
        BY <2>2, <2>3, <3>1, <3>2 DEF NumberOf
      <3>4. priority_level'[q] = priority_level[q] + (IF q \in Q THEN 1 ELSE 0)
        BY <1>2, <3>2
      <3>5. index'[j][1] = priority_level'[q]
        BY <1>3, <3>1, <3>3, <3>4
      <3>6. QED
        BY <2>3, <3>1, <3>2, <3>5
    <2>4. CASE k # 1
      <3>1. k \in 2..Len(path[j]) /\ k \in 2..(Len(path[j]) + 1)
        BY <2>1, <2>4
      <3>2. path[j][k] \in Rows /\ path[j][k] \notin Priorities
        BY <3>1, AboveIs, RowIs
      <3>3. index'[j][k] = lastOf(path[j][k])
        BY <1>3, <2>2, <3>1, <3>2 DEF NumberOf
      <3>4. QED
        BY <1>5, <3>2, <3>3
    <2>5. QED
      BY <2>3, <2>4
  <1>7. IndexIsPath'
    BY <1>2, <1>4, <1>6 DEF IndexIsPath, NumberOf, lastOf
  <1>8. ASSUME NEW x \in Nodes
        PROVE  {lastOf(j)' : j \in children(x)'} = 1..Cardinality(children(x)')
    <2>1. children(x)' = children(x)
      BY <1>2, <1>4 DEF children, parent
    <2>2. \A j \in children(x) : lastOf(j)' = lastOf(j)
      BY <1>5 DEF children, lastOf
    <2>3. {lastOf(j) : j \in children(x)} = 1..Cardinality(children(x))
      BY DEF ChildrenCounted
    <2>4. {lastOf(j)' : j \in children(x)} = {lastOf(j) : j \in children(x)}
      BY <2>2
    <2>5. QED
      BY <2>1, <2>3, <2>4
  <1>9. ChildrenCounted'
    BY <1>8 DEF ChildrenCounted
  <1>10. QED
    BY <1>2, <1>5, <1>7, <1>9 DEF lastOf

\* A priority goes with its branch, and the indexes below lower ones follow them.
LEMMA DestroyPriorityNumbers ==
    ASSUME TypesInv, IndexIsPath, ChildrenCounted, NEW p \in Priorities, DestroyPriority(p)
    PROVE  /\ IndexIsPath' /\ ChildrenCounted'
           /\ \A j \in Rows : j \in Rows' => path'[j] = path[j] /\ lastOf(j)' = lastOf(j)
  <1> USE DEF TypesInv
  <1>1. PICK gone : gone = Below(p)
    OBVIOUS
  <1>2. /\ p \in Plan
        /\ path' = [j \in Items |-> IF j \in gone THEN <<>> ELSE path[j]]
        /\ \A q \in Plan : q # p =>
              priority_level'[q] = IF priority_level[q] > priority_level[p]
                                   THEN priority_level[q] - 1 ELSE priority_level[q]
    <2>1. \A q \in Plan : q \in Priorities /\ priority_level[q] \in Nat
      BY DEF Plan, LevelsInv, LevelsTyped
    <2>2. QED
      BY <1>1, <2>1 DEF DestroyPriority
  <1>3. \A j \in Rows \ gone :
           /\ Len(index'[j]) = Len(path[j]) + 1
           /\ IF priority_level[path[j][1]] > priority_level[p]
              THEN /\ index'[j][1] = priority_level[path[j][1]] - 1
                   /\ \A k \in 2..(Len(path[j]) + 1) : index'[j][k] = lastOf(PathTo(j)[k])
              ELSE index'[j] = index[j]
    BY <1>1, DestroyedPriorityIs
  <1>4. /\ Rows' = Rows \ gone
        /\ \A j \in Rows \ gone : j \in Items /\ path'[j] = path[j]
        /\ \A x : children(x)' = children(x) \ gone
    BY <1>2, ChildrenLeft
  <1>5. ASSUME NEW j \in Rows \ gone
        PROVE  index'[j][Len(index'[j])] = lastOf(j)
    <2>1. Len(path[j]) \in Nat \ {0} /\ lastOf(j) = index[j][Len(path[j]) + 1]
      BY RowIs
    <2>2. PathTo(j)[Len(path[j]) + 1] = j
      BY NodeIs
    <2>3. Len(path[j]) + 1 \in 2..(Len(path[j]) + 1)
      BY <2>1
    <2>4. QED
      BY <1>3, <2>1, <2>2, <2>3
  <1>6. ASSUME NEW j \in Rows \ gone, NEW k \in 1..Len(path[j])
        PROVE  index'[j][k] = IF path[j][k] \in Priorities THEN priority_level'[path[j][k]]
                              ELSE index'[path[j][k]][Len(index'[path[j][k]])]
    <2>1. Len(path[j]) \in Nat \ {0} /\ path[j][1] \in Plan
      BY RowIs
    <2>2. index[j][k] = NumberOf(path[j][k])
      BY DEF IndexIsPath
    <2>3. CASE k = 1
      <3>1. PICK q : q = path[j][1]
        OBVIOUS
      <3>2. q \in Priorities /\ q \in Plan
        BY <2>1, <3>1 DEF Plan
      <3>3. q # p
        BY <1>1, <2>3, <3>1, BelowIs
      <3>4. index[j][1] = priority_level[q]
        BY <2>2, <2>3, <3>1, <3>2 DEF NumberOf
      <3>5. index'[j][1] = priority_level'[q]
        BY <1>2, <1>3, <3>1, <3>2, <3>3, <3>4
      <3>6. QED
        BY <2>3, <3>1, <3>2, <3>5
    <2>4. CASE k # 1
      <3>1. k \in 2..Len(path[j]) /\ k \in 2..(Len(path[j]) + 1)
        BY <2>1, <2>4
      <3>2. path[j][k] \in Rows /\ path[j][k] \notin Priorities
        BY <3>1, AboveIs, RowIs
      <3>3. path[j][k] \notin gone
        BY <1>1, <3>1, BelowIs
      <3>4. PathTo(j)[k] = path[j][k]
        BY NodeIs
      <3>5. index'[j][k] = lastOf(path[j][k])
        BY <1>3, <2>2, <3>1, <3>2, <3>4 DEF NumberOf
      <3>6. QED
        BY <1>5, <3>2, <3>3, <3>5
    <2>5. QED
      BY <2>3, <2>4
  <1>7. IndexIsPath'
    BY <1>4, <1>6 DEF IndexIsPath, NumberOf, lastOf
  <1>8. ASSUME NEW x \in Nodes
        PROVE  {lastOf(j)' : j \in children(x)'} = 1..Cardinality(children(x)')
    <2>1. CASE x = p \/ x \in gone
      <3>1. children(x)' = {}
        BY <1>1, <1>4, <2>1, FamilyIs
      <3>2. Cardinality({}) = 0 /\ 1..0 = {}
        BY FS_EmptySet
      <3>3. QED
        BY <3>1, <3>2
    <2>2. CASE x # p /\ x \notin gone
      <3>1. children(x)' = children(x) /\ children(x) \cap gone = {}
        BY <1>1, <1>4, <2>2, FamilyIs
      <3>2. \A j \in children(x) : lastOf(j)' = lastOf(j)
        BY <1>5, <3>1 DEF children, lastOf
      <3>3. {lastOf(j) : j \in children(x)} = 1..Cardinality(children(x))
        BY DEF ChildrenCounted
      <3>4. {lastOf(j)' : j \in children(x)} = {lastOf(j) : j \in children(x)}
        BY <3>2
      <3>5. QED
        BY <3>1, <3>3, <3>4
    <2>3. QED
      BY <2>1, <2>2
  <1>9. ChildrenCounted'
    BY <1>8 DEF ChildrenCounted
  <1>10. QED
    BY <1>4, <1>5, <1>7, <1>9 DEF lastOf

\* A new row: the number after its siblings' is its own.
LEMMA CreateItemNumbers ==
    ASSUME TypesInv, IndexIsPath, ChildrenCounted, NEW i \in Items, NEW x, CreateItem(i, x)
    PROVE  IndexIsPath' /\ ChildrenCounted'
  <1> USE DEF TypesInv
  <1>1. /\ x \in Plan \cup Rows /\ i \notin Rows /\ Rows' = Rows \cup {i}
        /\ \A j \in Rows : j # i /\ path'[j] = path[j] /\ index'[j] = index[j]
        /\ Len(index'[i]) = Len(PathTo(x)) + 1
        /\ \A k \in 1..Len(PathTo(x)) : index'[i][k] = IndexOf(x)[k]
    BY CreatedItemIs DEF Rows
  <1>2. path'[i] = PathTo(x) /\ index'[i] = create_index(x)
    BY CreatedItemIs
  <1>3. priority_level' = priority_level
    BY DEF CreateItem
  <1>4. ASSUME NEW j \in Rows'
        PROVE  \A k \in 1..Len(path'[j]) :
                  /\ index'[j][k] = NumberOf(path'[j][k])
                  /\ path'[j][k] \notin Priorities => path'[j][k] \in Rows
    <2>1. CASE j = i
      <3>1. \A k \in 1..Len(PathTo(x)) : index'[i][k] = NumberOf(PathTo(x)[k])
        BY <1>1, NodeNumbers
      <3>2. \A k \in 2..Len(PathTo(x)) : PathTo(x)[k] \in Rows
        BY <1>1, PathToIs
      <3>3. PathTo(x)[1] \in Priorities /\ Len(PathTo(x)) \in Nat
        BY <1>1, NodeIs DEF Plan
      <3>4. \A k \in 1..Len(PathTo(x)) : k = 1 \/ k \in 2..Len(PathTo(x))
        BY <3>3
      <3>5. QED
        BY <1>2, <2>1, <3>1, <3>2, <3>3, <3>4
    <2>2. CASE j # i
      <3>1. j \in Rows /\ path'[j] = path[j] /\ index'[j] = index[j]
        BY <1>1, <2>2
      <3>2. path[j][1] \in Priorities /\ Len(path[j]) \in Nat
        BY <3>1, RowIs DEF Plan
      <3>3. \A k \in 2..Len(path[j]) : path[j][k] \in Rows
        BY <3>1, AboveIs
      <3>4. \A k \in 1..Len(path[j]) : k = 1 \/ k \in 2..Len(path[j])
        BY <3>2
      <3>5. \A k \in 1..Len(path[j]) : index[j][k] = NumberOf(path[j][k])
        BY <3>1 DEF IndexIsPath
      <3>6. QED
        BY <3>1, <3>2, <3>3, <3>4, <3>5
    <2>3. QED
      BY <2>1, <2>2
  <1>5. \A a \in Rows : index'[a][Len(index'[a])] = lastOf(a)
    BY <1>1 DEF lastOf
  <1>6. IndexIsPath'
    BY <1>3, <1>4, <1>5 DEF IndexIsPath, NumberOf, lastOf
  <1>7. ASSUME NEW y \in Nodes
        PROVE  {lastOf(j)' : j \in children(y)'} = 1..Cardinality(children(y)')
    <2>1. {lastOf(j) : j \in children(y)} = 1..Cardinality(children(y))
      BY DEF ChildrenCounted
    <2>2. \A j \in children(y) : lastOf(j)' = lastOf(j)
      BY <1>1 DEF children, lastOf
    <2>3. PathTo(x)[Len(PathTo(x))] = x
      BY <1>1, NodeIs
    <2>4. CASE y # x
      <3>1. children(y)' = children(y)
        BY <1>1, <1>2, <2>3, <2>4 DEF children, parent
      <3>2. {lastOf(j)' : j \in children(y)} = {lastOf(j) : j \in children(y)}
        BY <2>2
      <3>3. QED
        BY <2>1, <3>1, <3>2
    <2>5. CASE y = x
      <3>1. children(x)' = children(x) \cup {i} /\ i \notin children(x)
        BY <1>1, <1>2, <2>3 DEF children, parent
      <3>2. PICK n : n = Cardinality(children(x))
        OBVIOUS
      <3>3. IsFiniteSet(children(x)) /\ n \in Nat
        BY <2>5, <3>2, NumbersApart
      <3>4. Cardinality(children(x) \cup {i}) = n + 1
        BY <3>1, <3>2, <3>3, FS_AddElement
      <3>5. lastOf(i)' = n + 1
        <4>1. IndexOf(x) \in Seq(Int) /\ Len(IndexOf(x)) \in Nat
          BY <1>1, NodeIs
        <4>2. index'[i] = Append(IndexOf(x), n + 1)
          BY <1>1, <1>2, <3>2, NewNumber
        <4>3. /\ Len(Append(IndexOf(x), n + 1)) = Len(IndexOf(x)) + 1
              /\ Append(IndexOf(x), n + 1)[Len(IndexOf(x)) + 1] = n + 1
          BY <3>3, <4>1, AppendProperties
        <4>4. QED
          BY <4>2, <4>3 DEF lastOf
      <3>6. {lastOf(j)' : j \in children(x)} = 1..n
        BY <2>1, <2>2, <2>5, <3>2
      <3>7. {lastOf(j)' : j \in children(x) \cup {i}} = (1..n) \cup {n + 1}
        BY <3>5, <3>6
      <3>8. (1..n) \cup {n + 1} = 1..(n + 1)
        BY <3>3
      <3>9. QED
        BY <2>5, <3>1, <3>4, <3>7, <3>8
    <2>6. QED
      BY <2>4, <2>5
  <1>8. ChildrenCounted'
    BY <1>7 DEF ChildrenCounted
  <1>9. QED
    BY <1>6, <1>8

\* What the numbers are after a row is destroyed: those of the siblings after it
\* are one less, and nothing else on the way down to a row is.
LEMMA DestroyItemLasts ==
    ASSUME TypeOK, IndexIsPath, NEW i \in Items, DestroyItem(i)
    PROVE  \A j \in Rows \ ({i} \cup Below(i)) :
              /\ j \in lower_priority_siblings(i) => index'[j][Len(index'[j])] = lastOf(j) - 1
              /\ j \notin lower_priority_siblings(i) => index'[j][Len(index'[j])] = lastOf(j)
              /\ \A k \in 1..Len(path[j]) :
                    /\ path[j][k] \in lower_priority_siblings(i) =>
                          index'[j][k] = NumberOf(path[j][k]) - 1
                    /\ path[j][k] \notin lower_priority_siblings(i) =>
                          index'[j][k] = NumberOf(path[j][k])
  <1>0. PICK gone, lower : gone = {i} \cup Below(i) /\ lower = lower_priority_siblings(i)
    OBVIOUS
  <1>1. i \in Rows /\ \A s \in lower : /\ s \in siblings(i) /\ s \in Rows
                                       /\ index'[s] = Decremented(s)
    BY <1>0, DestroyedItemIs DEF lower_priority_siblings
  <1>2. \A d \in Rows : \A k \in 1..Len(path[d]) :
           path[d][k] \in lower => k = Len(path[i]) + 1 /\ d \notin lower
    BY <1>1, SiblingsAre
  <1>3. \A j \in Rows : /\ Len(path[j]) \in Nat \ {0} /\ lastOf(j) \in Int
                        /\ lastOf(j) = index[j][Len(path[j]) + 1]
                        /\ Len(index[j]) = Len(path[j]) + 1
                        /\ index[j] \in [1..(Len(path[j]) + 1) -> Int]
    BY RowIs
  <1>4. \A j \in Rows : \A k \in 1..Len(path[j]) :
           index[j][k] = NumberOf(path[j][k]) /\ index[j][k] \in Int
    <2>1. \A j \in Rows : \A k \in 1..Len(path[j]) : index[j][k] \in Int
      BY <1>3
    <2>2. QED
      BY <2>1 DEF IndexIsPath
  <1>5. ASSUME NEW j \in Rows \ gone
        PROVE  /\ j \in lower => index'[j][Len(index'[j])] = lastOf(j) - 1
               /\ j \notin lower => index'[j][Len(index'[j])] = lastOf(j)
               /\ \A k \in 1..Len(path[j]) :
                     /\ path[j][k] \in lower => index'[j][k] = NumberOf(path[j][k]) - 1
                     /\ path[j][k] \notin lower => index'[j][k] = NumberOf(path[j][k])
    <2>1. CASE j \in lower
      <3>1. /\ Len(index'[j]) = Len(path[j]) + 1
            /\ \A k \in 1..Len(path[j]) : index'[j][k] = index[j][k]
            /\ index'[j][Len(path[j]) + 1] = lastOf(j) - 1
        BY <1>1, <2>1, DecrementedIs
      <3>2. \A k \in 1..Len(path[j]) : path[j][k] \notin lower
        BY <1>2, <2>1
      <3>3. QED
        BY <1>4, <2>1, <3>1, <3>2
    <2>2. CASE j \notin lower /\ \E s \in lower : \E at \in 1..Len(path[j]) :
                  path[j][at] = s /\ index'[j] = Rebased(s, Decremented(s), j)
      <3>1. PICK s \in lower, at \in 1..Len(path[j]) :
               path[j][at] = s /\ index'[j] = Rebased(s, Decremented(s), j)
        BY <2>2
      <3>2. PICK new : new = index'[j]
        OBVIOUS
      <3>3. s \in Rows /\ path[j][at] = s /\ new = Rebased(s, Decremented(s), j)
        BY <1>1, <3>1, <3>2
      <3>4. /\ at = Len(path[s]) + 1
            /\ Len(new) = Len(path[j]) + 1
            /\ \A k \in 1..(at - 1) : new[k] = index[s][k]
            /\ new[at] = lastOf(s) - 1
            /\ \A k \in (at + 1)..(Len(path[j]) + 1) : new[k] = lastOf(PathTo(j)[k])
        <4>1. ASSUME NEW y \in Rows, path[j][at] = y, NEW z, z = Rebased(y, Decremented(y), j)
              PROVE  /\ at = Len(path[y]) + 1
                     /\ Len(z) = Len(path[j]) + 1
                     /\ \A k \in 1..(at - 1) : z[k] = index[y][k]
                     /\ z[at] = lastOf(y) - 1
                     /\ \A k \in (at + 1)..(Len(path[j]) + 1) : z[k] = lastOf(PathTo(j)[k])
          <5>1. at = Len(path[y]) + 1 /\ Len(z) = Len(path[j]) + 1
            BY <4>1, RebasedBranch
          <5>2. \A k \in 1..(at - 1) : z[k] = index[y][k]
            BY <4>1, RebasedBranch
          <5>3. z[at] = lastOf(y) - 1
            BY <4>1, RebasedBranch
          <5>4. \A k \in (at + 1)..(Len(path[j]) + 1) : z[k] = lastOf(PathTo(j)[k])
            BY <4>1, RebasedBranch
          <5>5. QED
            BY <5>1, <5>2, <5>3, <5>4
        <4>2. QED
          BY <3>3, <4>1
      <3>5. /\ PathTo(j)[Len(path[j]) + 1] = j
            /\ \A k \in 1..Len(path[j]) : PathTo(j)[k] = path[j][k]
        BY NodeIs
      <3>6. new[Len(path[j]) + 1] = lastOf(j)
        <4>1. Len(path[j]) + 1 \in (at + 1)..(Len(path[j]) + 1)
          BY <1>3
        <4>2. QED
          BY <3>4, <3>5, <4>1
      <3>7. ASSUME NEW k \in 1..Len(path[j])
            PROVE  /\ path[j][k] \in lower => new[k] = NumberOf(path[j][k]) - 1
                   /\ path[j][k] \notin lower => new[k] = NumberOf(path[j][k])
        <4>1. at = Len(path[i]) + 1 /\ at \in 2..Len(path[j])
          <5>1. path[j][at] \in lower
            BY <3>1
          <5>2. at = Len(path[i]) + 1
            BY <1>2, <5>1
          <5>3. Len(path[i]) \in Nat \ {0} /\ Len(path[j]) \in Nat
            BY <1>1, <1>3
          <5>4. QED
            BY <5>2, <5>3
        <4>2. CASE k = at
          <5>1. NumberOf(s) = lastOf(s)
            BY <3>3, RowIs DEF NumberOf
          <5>2. QED
            BY <3>1, <3>4, <4>2, <5>1
        <4>3. CASE k # at
          <5>1. path[j][k] \notin lower
            BY <1>2, <4>1, <4>3
          <5>2. new[k] = NumberOf(path[j][k])
            <6>1. CASE k < at
              <7>1. k \in 1..(at - 1) /\ k \in 1..Len(path[s])
                BY <1>3, <3>3, <3>4, <4>1, <6>1
              <7>2. path[s][k] = path[j][k]
                BY <3>3, <4>1, <7>1, AboveIs
              <7>3. QED
                BY <1>4, <3>3, <3>4, <7>1, <7>2
            <6>2. CASE k > at
              <7>1. /\ k \in (at + 1)..(Len(path[j]) + 1) /\ k \in 2..Len(path[j])
                BY <1>3, <4>1, <6>2
              <7>2. path[j][k] \in Rows /\ path[j][k] \notin Priorities
                BY <7>1, AboveIs, RowIs
              <7>3. QED
                BY <3>4, <3>5, <7>1, <7>2 DEF NumberOf
            <6>3. QED
              BY <4>1, <4>3, <6>1, <6>2
          <5>3. QED
            BY <5>1, <5>2
        <4>4. QED
          BY <4>2, <4>3
      <3>8. index'[j][Len(index'[j])] = lastOf(j)
        BY <3>2, <3>4, <3>6
      <3>9. QED
        BY <2>2, <3>2, <3>7, <3>8
    <2>3. CASE /\ j \notin lower /\ index'[j] = index[j]
               /\ \A k \in 1..Len(path[j]) : path[j][k] \notin lower
      BY <1>3, <1>4, <2>3
    <2>4. QED
      BY <1>0, <2>1, <2>2, <2>3, DestroyedItemIs
  <1>6. QED
    BY <1>0, <1>5

\* Taking one of the numbers 1, 2, ..., n away and closing up leaves 1, ..., n - 1.
LEMMA CloseUp ==
    ASSUME NEW n \in Nat, NEW m \in 1..n
    PROVE  {l - (IF l > m THEN 1 ELSE 0) : l \in (1..n) \ {m}} = 1..(n - 1)
  <1> DEFINE Left == {l - (IF l > m THEN 1 ELSE 0) : l \in (1..n) \ {m}}
  <1>1. \A v \in Left : v \in 1..(n - 1)
    OBVIOUS
  <1>2. ASSUME NEW v \in 1..(n - 1)
        PROVE  v \in Left
    <2>1. CASE v < m
      <3>1. v \in (1..n) \ {m} /\ v = v - (IF v > m THEN 1 ELSE 0)
        BY <2>1
      <3>2. QED
        BY <3>1
    <2>2. CASE v >= m
      <3>1. v + 1 \in (1..n) \ {m} /\ v = (v + 1) - (IF v + 1 > m THEN 1 ELSE 0)
        BY <2>2
      <3>2. QED
        BY <3>1
    <2>3. QED
      BY <2>1, <2>2
  <1> HIDE DEF Left
  <1>3. Left = 1..(n - 1)
    BY <1>1, <1>2
  <1>4. QED
    BY <1>3 DEF Left

\* A row goes with its branch, and the siblings after it close up.
LEMMA DestroyItemNumbers ==
    ASSUME TypesInv, IndexIsPath, ChildrenCounted, NEW i \in Items, DestroyItem(i)
    PROVE  IndexIsPath' /\ ChildrenCounted'
  <1> USE DEF TypesInv
  <1>1. PICK gone : gone = {i} \cup Below(i)
    OBVIOUS
  <1>2. PICK lower : lower = lower_priority_siblings(i)
    OBVIOUS
  <1>3. /\ i \in Rows /\ priority_level' = priority_level
        /\ path' = [j \in Items |-> IF j \in gone THEN <<>> ELSE path[j]]
    BY <1>1 DEF DestroyItem
  <1>4. /\ \A j \in Rows \ gone :
              /\ j \in lower => index'[j][Len(index'[j])] = lastOf(j) - 1
              /\ j \notin lower => index'[j][Len(index'[j])] = lastOf(j)
        /\ \A j \in Rows \ gone : \A k \in 1..Len(path[j]) :
              /\ path[j][k] \in lower => index'[j][k] = NumberOf(path[j][k]) - 1
              /\ path[j][k] \notin lower => index'[j][k] = NumberOf(path[j][k])
    <2>1. \A j \in Rows \ ({i} \cup Below(i)) :
             /\ j \in lower_priority_siblings(i) => index'[j][Len(index'[j])] = lastOf(j) - 1
             /\ j \notin lower_priority_siblings(i) => index'[j][Len(index'[j])] = lastOf(j)
             /\ \A k \in 1..Len(path[j]) :
                   /\ path[j][k] \in lower_priority_siblings(i) =>
                         index'[j][k] = NumberOf(path[j][k]) - 1
                   /\ path[j][k] \notin lower_priority_siblings(i) =>
                         index'[j][k] = NumberOf(path[j][k])
      BY DestroyItemLasts
    <2>2. QED
      BY <1>1, <1>2, <2>1
  <1>5. /\ Rows' = Rows \ gone
        /\ \A j \in Rows \ gone : j \in Items /\ path'[j] = path[j]
        /\ \A x : children(x)' = children(x) \ gone
    BY <1>3, ChildrenLeft
  <1>6. lower \subseteq siblings(i) \ {i}
    BY <1>2 DEF lower_priority_siblings
  <1>7. ASSUME NEW j \in Rows \ gone, NEW k \in 1..Len(path[j])
        PROVE  index'[j][k] = IF path[j][k] \in Priorities THEN priority_level'[path[j][k]]
                              ELSE index'[path[j][k]][Len(index'[path[j][k]])]
    <2>1. /\ path[j][k] \in lower => index'[j][k] = NumberOf(path[j][k]) - 1
          /\ path[j][k] \notin lower => index'[j][k] = NumberOf(path[j][k])
      BY <1>4
    <2>2. Len(path[j]) \in Nat /\ path[j][1] \in Priorities
      BY RowIs DEF Plan
    <2>3. CASE k = 1
      <3>1. \A s \in lower : s \notin Priorities
        BY <1>6, IdsAssumption DEF siblings, Rows
      <3>2. QED
        BY <1>3, <2>1, <2>2, <2>3, <3>1 DEF NumberOf
    <2>4. CASE k # 1
      <3>1. k \in 2..Len(path[j])
        BY <2>2, <2>4
      <3>2. path[j][k] \in Rows /\ path[j][k] \notin Priorities
        BY <3>1, AboveIs, RowIs
      <3>3. path[j][k] \notin gone
        BY <1>1, <3>1, BelowIs
      <3>4. QED
        BY <1>4, <2>1, <3>2, <3>3 DEF NumberOf
    <2>5. QED
      BY <2>3, <2>4
  <1>8. IndexIsPath'
    BY <1>5, <1>7 DEF IndexIsPath, NumberOf, lastOf
  <1>9. ASSUME NEW x \in Nodes
        PROVE  {lastOf(j)' : j \in children(x)'} = 1..Cardinality(children(x)')
    <2>1. {lastOf(j) : j \in children(x)} = 1..Cardinality(children(x))
      BY DEF ChildrenCounted
    <2>2. \A j \in children(x) \ gone :
             /\ j \in lower => lastOf(j)' = lastOf(j) - 1
             /\ j \notin lower => lastOf(j)' = lastOf(j)
      BY <1>4 DEF children, lastOf
    <2>3. children(x)' = children(x) \ gone
      BY <1>5
    <2>4. CASE x \in gone
      <3>1. children(x)' = {}
        BY <1>1, <2>3, <2>4, FamilyIs
      <3>2. Cardinality({}) = 0 /\ 1..0 = {}
        BY FS_EmptySet
      <3>3. QED
        BY <3>1, <3>2
    <2>5. CASE x \notin gone /\ x # parent(i)
      <3>1. children(x) \cap gone = {}
        <4>1. i \notin children(x)
          BY <2>5 DEF children
        <4>2. QED
          BY <1>1, <2>5, <4>1, FamilyIs
      <3>2. children(x) \cap lower = {}
        BY <1>6, <2>5 DEF children, siblings
      <3>3. \A j \in children(x) : lastOf(j) \in Int
        BY RowIs DEF children
      <3>4. \A j \in children(x) : lastOf(j)' = lastOf(j)
        BY <2>2, <3>1, <3>2, <3>3
      <3>5. {lastOf(j)' : j \in children(x)} = {lastOf(j) : j \in children(x)}
        BY <3>4
      <3>6. QED
        BY <2>1, <2>3, <3>1, <3>5
    <2>6. CASE x \notin gone /\ x = parent(i)
      <3>1. i \in children(x) /\ children(x)' = children(x) \ {i}
        <4>1. i \in children(x)
          BY <1>3, <2>6 DEF children
        <4>2. children(x) \cap Below(i) = {}
          BY <1>1, <2>6, FamilyIs
        <4>3. QED
          BY <1>1, <2>3, <4>1, <4>2
      <3>2. PICK n : n = Cardinality(children(x))
        OBVIOUS
      <3>3. PICK m : m = lastOf(i)
        OBVIOUS
      <3>4. /\ IsFiniteSet(children(x)) /\ n \in Nat
            /\ \A j \in children(x) : lastOf(j) \in 1..n
            /\ \A l \in 1..n : \E j \in children(x) : lastOf(j) = l
            /\ \A j, o \in children(x) : lastOf(j) = lastOf(o) => j = o
        BY <3>2, NumbersApart
      <3>5. Cardinality(children(x) \ {i}) = n - 1
        BY <3>1, <3>2, <3>4, FS_RemoveElement
      <3>6. m \in 1..n
        BY <3>1, <3>3, <3>4
      <3>7. \A j \in children(x) \ {i} :
               lastOf(j)' = lastOf(j) - (IF lastOf(j) > m THEN 1 ELSE 0)
        <4>1. \A j \in children(x) : j \in lower <=> lastOf(j) > m
          BY <1>2, <1>3, <2>6, <3>3, LowerIs
        <4>2. \A j \in children(x) \ {i} : lastOf(j) \in Int /\ j \in children(x) \ gone
          BY <2>3, <3>1, <3>4
        <4>3. QED
          BY <2>2, <3>4, <3>6, <4>1, <4>2
      <3>8. \A j \in children(x) \ {i} : lastOf(j) \in (1..n) \ {m}
        BY <3>1, <3>3, <3>4
      <3>9. \A l \in (1..n) \ {m} : \E j \in children(x) \ {i} : lastOf(j) = l
        BY <3>3, <3>4
      <3>10. {lastOf(j)' : j \in children(x) \ {i}}
               = {l - (IF l > m THEN 1 ELSE 0) : l \in (1..n) \ {m}}
        <4>1. {lastOf(j)' : j \in children(x) \ {i}}
                = {lastOf(j) - (IF lastOf(j) > m THEN 1 ELSE 0) : j \in children(x) \ {i}}
          BY <3>7
        <4>2. \A j \in children(x) \ {i} :
                 lastOf(j) - (IF lastOf(j) > m THEN 1 ELSE 0)
                   \in {l - (IF l > m THEN 1 ELSE 0) : l \in (1..n) \ {m}}
          BY <3>8
        <4>3. \A l \in (1..n) \ {m} :
                 l - (IF l > m THEN 1 ELSE 0)
                   \in {lastOf(j) - (IF lastOf(j) > m THEN 1 ELSE 0) : j \in children(x) \ {i}}
          <5> SUFFICES ASSUME NEW l \in (1..n) \ {m}
                       PROVE  l - (IF l > m THEN 1 ELSE 0)
                   \in {lastOf(j) - (IF lastOf(j) > m THEN 1 ELSE 0) : j \in children(x) \ {i}}
            OBVIOUS
          <5>1. PICK j \in children(x) \ {i} : lastOf(j) = l
            BY <3>9
          <5>2. QED
            BY <5>1
        <4>4. QED
          BY <4>1, <4>2, <4>3
      <3>11. {l - (IF l > m THEN 1 ELSE 0) : l \in (1..n) \ {m}} = 1..(n - 1)
        BY <3>4, <3>6, CloseUp
      <3>12. QED
        BY <3>1, <3>5, <3>10, <3>11
    <2>7. QED
      BY <2>4, <2>5, <2>6
  <1>10. ChildrenCounted'
    BY <1>9 DEF ChildrenCounted
  <1>11. QED
    BY <1>8, <1>10

TreeInv == TypesInv /\ NumberInv

LEMMA NextNumbers == TreeInv /\ [Next]_vars => TreeInv'
  <1> SUFFICES ASSUME TypesInv, NumberInv, [Next]_vars, ~relevelled'
               PROVE  IndexIsPath' /\ ChildrenCounted'
    BY NextTypes DEF TreeInv, NumberInv
  <1>1. ASSUME NEW p \in Priorities, NEW L \in 1..MaxLevel, CreatePriority(p, L)
        PROVE  IndexIsPath' /\ ChildrenCounted'
    <2>1. IndexIsPath /\ ChildrenCounted
      BY <1>1 DEF CreatePriority, NumberInv
    <2>2. QED
      BY <1>1, <2>1, CreatePriorityNumbers
  <1>2. ASSUME NEW p \in Priorities, NEW L \in 1..MaxLevel, UpdatePriority(p, L)
        PROVE  IndexIsPath' /\ ChildrenCounted'
    BY <1>2 DEF UpdatePriority
  <1>3. ASSUME NEW p \in Priorities, DestroyPriority(p)
        PROVE  IndexIsPath' /\ ChildrenCounted'
    <2>1. IndexIsPath /\ ChildrenCounted
      BY <1>3 DEF DestroyPriority, NumberInv
    <2>2. QED
      BY <1>3, <2>1, DestroyPriorityNumbers
  <1>4. ASSUME NEW i \in Items, NEW x \in Priorities \cup Items, CreateItem(i, x)
        PROVE  IndexIsPath' /\ ChildrenCounted'
    <2>1. IndexIsPath /\ ChildrenCounted
      BY <1>4 DEF CreateItem, NumberInv
    <2>2. QED
      BY <1>4, <2>1, CreateItemNumbers
  <1>5. ASSUME NEW i \in Items, DestroyItem(i)
        PROVE  IndexIsPath' /\ ChildrenCounted'
    <2>1. IndexIsPath /\ ChildrenCounted
      BY <1>5 DEF DestroyItem, NumberInv
    <2>2. QED
      BY <1>5, <2>1, DestroyItemNumbers
  <1>6. CASE UNCHANGED vars
    <2>1. IndexIsPath /\ ChildrenCounted
      BY <1>6 DEF vars, NumberInv
    <2>2. \A x : children(x)' = children(x)
      BY <1>6 DEF vars, children, Rows, parent
    <2>3. \A j : lastOf(j)' = lastOf(j)
      BY <1>6 DEF vars, lastOf
    <2>4. ChildrenCounted'
      BY <2>1, <2>2, <2>3 DEF ChildrenCounted
    <2>5. IndexIsPath'
      BY <1>6, <2>1 DEF vars, IndexIsPath, NumberOf, lastOf, Rows
    <2>6. QED
      BY <2>4, <2>5
  <1>7. QED
    BY <1>1, <1>2, <1>3, <1>4, <1>5, <1>6 DEF Next

LEMMA TreeInvariant == Spec => []TreeInv
  <1>1. Init => NumberInv
    <2> SUFFICES ASSUME Init PROVE NumberInv
      OBVIOUS
    <2>1. Rows = {} /\ \A x \in Nodes : children(x) = {}
      BY DEF Init, Rows, children
    <2>2. Cardinality({}) = 0 /\ 1..0 = {}
      BY FS_EmptySet
    <2>3. QED
      BY <2>1, <2>2 DEF NumberInv, IndexIsPath, ChildrenCounted
  <1>2. Init => TypesInv
    BY InitTypes
  <1>3. QED
    BY <1>1, <1>2, NextNumbers, PTL DEF Spec, TreeInv

\* For any number of priorities, rows and classes: while nobody has edited a
\* level, every row shows its parent's index and its place among its siblings.
THEOREM AlwaysNumbered == Spec => []Numbered
  <1>1. TreeInv => Numbered
    <2> SUFFICES ASSUME TypesInv, IndexIsPath, ChildrenCounted, NEW x \in Plan \cup Rows
                 PROVE  NumberedBelow(x)
      BY DEF TreeInv, NumberInv, Numbered
    <2>1. x \in Nodes
      BY DEF Nodes, Plan, Rows
    <2>2. \A i \in children(x) : Front(index[i]) = IndexOf(x)
      BY ChildNumbers DEF TypesInv
    <2>3. QED
      BY <2>1, <2>2 DEF NumberedBelow, ChildrenCounted
  <1>2. QED
    BY <1>1, TreeInvariant, PTL

\* Of two rows below one parent, the one with the greater number keeps it.
LEMMA LastsKeepOrder ==
    ASSUME TypesInv, NumberInv, [Next]_vars, ~relevelled',
           NEW i \in Rows, NEW j \in Rows, i \in Rows', j \in Rows',
           parent(i) = parent(j), lastOf(i) < lastOf(j)
    PROVE  path'[i] = path[i] /\ path'[j] = path[j] /\ lastOf(i)' < lastOf(j)'
  <1> USE DEF TypesInv
  <1>0. i \in Items /\ j \in Items /\ lastOf(i) \in Int /\ lastOf(j) \in Int
    BY RowIs
  <1>1. ASSUME NEW p \in Priorities, NEW L \in 1..MaxLevel, CreatePriority(p, L)
        PROVE  path'[i] = path[i] /\ path'[j] = path[j] /\ lastOf(i)' < lastOf(j)'
    <2>1. IndexIsPath /\ ChildrenCounted
      BY <1>1 DEF CreatePriority, NumberInv
    <2>2. \A k \in Rows : path'[k] = path[k] /\ lastOf(k)' = lastOf(k)
      BY <1>1, <2>1, CreatePriorityNumbers
    <2>3. QED
      BY <2>2
  <1>2. ASSUME NEW p \in Priorities, NEW L \in 1..MaxLevel, UpdatePriority(p, L)
        PROVE  path'[i] = path[i] /\ path'[j] = path[j] /\ lastOf(i)' < lastOf(j)'
    BY <1>2 DEF UpdatePriority
  <1>3. ASSUME NEW p \in Priorities, DestroyPriority(p)
        PROVE  path'[i] = path[i] /\ path'[j] = path[j] /\ lastOf(i)' < lastOf(j)'
    <2>1. IndexIsPath /\ ChildrenCounted
      BY <1>3 DEF DestroyPriority, NumberInv
    <2>2. \A k \in Rows : k \in Rows' => path'[k] = path[k] /\ lastOf(k)' = lastOf(k)
      BY <1>3, <2>1, DestroyPriorityNumbers
    <2>3. QED
      BY <2>2
  <1>4. ASSUME NEW k \in Items, NEW x \in Priorities \cup Items, CreateItem(k, x)
        PROVE  path'[i] = path[i] /\ path'[j] = path[j] /\ lastOf(i)' < lastOf(j)'
    <2>1. k \notin Rows /\ \A o \in Items : o # k => path'[o] = path[o] /\ index'[o] = index[o]
      BY <1>4, CreatedItemIs
    <2>2. /\ path'[i] = path[i] /\ path'[j] = path[j]
          /\ index'[i] = index[i] /\ index'[j] = index[j]
      BY <1>0, <2>1
    <2>3. lastOf(i)' = lastOf(i) /\ lastOf(j)' = lastOf(j)
      BY <2>2 DEF lastOf
    <2>4. QED
      BY <2>2, <2>3
  <1>5. ASSUME NEW d \in Items, DestroyItem(d)
        PROVE  path'[i] = path[i] /\ path'[j] = path[j] /\ lastOf(i)' < lastOf(j)'
    <2>1. IndexIsPath /\ ChildrenCounted /\ d \in Rows
      BY <1>5 DEF DestroyItem, NumberInv
    <2>2. PICK lower : lower = lower_priority_siblings(d)
      OBVIOUS
    <2>3. PICK gone : gone = {d} \cup Below(d)
      OBVIOUS
    <2>4. path' = [o \in Items |-> IF o \in gone THEN <<>> ELSE path[o]]
      BY <1>5, <2>3 DEF DestroyItem
    <2>5. /\ i \in Rows \ gone /\ j \in Rows \ gone
          /\ path'[i] = path[i] /\ path'[j] = path[j]
      BY <2>4, ChildrenLeft
    <2>6. \A o \in Rows \ ({d} \cup Below(d)) :
             /\ o \in lower_priority_siblings(d) => index'[o][Len(index'[o])] = lastOf(o) - 1
             /\ o \notin lower_priority_siblings(d) => index'[o][Len(index'[o])] = lastOf(o)
      BY <1>5, <2>1, DestroyItemLasts
    <2>7. \A o \in Rows \ gone : /\ o \in lower => lastOf(o)' = lastOf(o) - 1
                                 /\ o \notin lower => lastOf(o)' = lastOf(o)
      BY <2>2, <2>3, <2>6 DEF lastOf
    <2>8. /\ \A o \in siblings(d) : o \in lower <=> lastOf(o) > lastOf(d)
          /\ \A o, u \in siblings(d) : lastOf(o) = lastOf(u) => o = u
          /\ d \in siblings(d) /\ lastOf(d) \in Int
      <3>1. siblings(d) = children(parent(d)) /\ parent(d) \in Nodes
        BY <2>1, LowerIs DEF Nodes, Plan, Rows
      <3>2. QED
        BY <2>1, <2>2, <3>1, LowerIs, NumbersApart, RowIs
    <2>9. (i \in lower \/ j \in lower) => i \in siblings(d) /\ j \in siblings(d)
      BY <2>2 DEF lower_priority_siblings, siblings
    <2>10. i # d /\ j # d
      BY <2>3, <2>5
    <2>11. CASE i \in lower
      <3>1. j \in lower
        BY <1>0, <2>8, <2>9, <2>11
      <3>2. QED
        BY <1>0, <2>5, <2>7, <2>11, <3>1
    <2>12. CASE i \notin lower /\ j \in lower
      <3>1. lastOf(i) < lastOf(d) /\ lastOf(d) < lastOf(j)
        BY <1>0, <2>8, <2>9, <2>10, <2>12
      <3>2. lastOf(i)' = lastOf(i) /\ lastOf(j)' = lastOf(j) - 1
        BY <2>5, <2>7, <2>12
      <3>3. QED
        BY <1>0, <2>5, <2>8, <3>1, <3>2
    <2>13. CASE i \notin lower /\ j \notin lower
      BY <2>5, <2>7, <2>13
    <2>14. QED
      BY <2>11, <2>12, <2>13
  <1>6. CASE UNCHANGED vars
    BY <1>6 DEF vars, lastOf
  <1>7. QED
    BY <1>1, <1>2, <1>3, <1>4, <1>5, <1>6 DEF Next

\* For any number of priorities, rows and classes: while nobody has edited a
\* level, no request changes the order of two rows below one parent.
THEOREM SiblingOrderAlwaysKept == Spec => SiblingOrderKept
  <1> DEFINE Kept == ~relevelled' =>
                \A i, j \in Rows :
                   (i \in Rows' /\ j \in Rows' /\ parent(i) = parent(j)
                      /\ ~Geq(index[i], index[j]))
                       => ~Geq(index'[i], index'[j])
  <1>1. ASSUME TreeInv, TreeInv', [Next]_vars
        PROVE  [Kept]_vars
    <2> SUFFICES ASSUME ~relevelled', NEW i \in Rows, NEW j \in Rows, i \in Rows', j \in Rows',
                        parent(i) = parent(j), ~Geq(index[i], index[j])
                 PROVE  ~Geq(index'[i], index'[j])
      OBVIOUS
    <2> USE <1>1 DEF TreeInv, TypesInv
    <2>1. CASE relevelled
      <3>1. UNCHANGED relevelled
        BY <2>1 DEF Next, CreatePriority, UpdatePriority, DestroyPriority, CreateItem,
                    DestroyItem, vars
      <3>2. QED
        BY <2>1, <3>1
    <2>2. CASE ~relevelled
      <3>1. IndexIsPath /\ ChildrenCounted /\ IndexIsPath'
        BY <2>2 DEF NumberInv
      <3>2. /\ parent(i) \in Plan \cup Rows /\ path[i] = path[j]
            /\ i \in children(parent(i)) /\ j \in children(parent(i))
        BY ParentIs DEF children
      <3>3. lastOf(i) < lastOf(j)
        <4>1. Geq(index[i], index[j]) <=> lastOf(i) >= lastOf(j)
          BY <3>1, <3>2, ByLast
        <4>2. lastOf(i) \in Int /\ lastOf(j) \in Int
          BY RowIs
        <4>3. QED
          BY <4>1, <4>2
      <3>4. path'[i] = path[i] /\ path'[j] = path[j] /\ lastOf(i)' < lastOf(j)'
        BY <3>3, LastsKeepOrder
      <3>5. PICK a, b, n : /\ a = index'[i] /\ b = index'[j] /\ n = Len(path[i]) + 1
        OBVIOUS
      <3>6. /\ a \in Seq(Int) /\ Len(a) = n /\ b \in Seq(Int) /\ Len(b) = n
            /\ n \in Nat \ {0}
        <4>1. Len(path[i]) \in Nat
          BY RowIs
        <4>2. i \in Items /\ j \in Items
          BY RowIs
        <4>3. /\ index'[i] \in Seq(Int) /\ Len(index'[i]) = Len(path'[i]) + 1
              /\ index'[j] \in Seq(Int) /\ Len(index'[j]) = Len(path'[j]) + 1
          BY <4>2 DEF TypeOK
        <4>4. QED
          BY <3>2, <3>4, <3>5, <4>1, <4>3
      <3>7. a \in [1..n -> Int] /\ b \in [1..n -> Int]
        BY <3>6, LenProperties
      <3>8. \A k \in 1..(n - 1) : a[k] = b[k]
        <4>1. n - 1 = Len(path[i])
          BY <3>5, <3>6
        <4>2. \A k \in 1..Len(path[i]) : index'[i][k] = index'[j][k]
          BY <3>1, <3>2, <3>4 DEF IndexIsPath
        <4>3. QED
          BY <3>5, <4>1, <4>2
      <3>9. a[n] < b[n]
        BY <3>4, <3>5, <3>6 DEF lastOf
      <3>10. Geq(a, b) <=> a[n] >= b[n]
        BY <3>6, <3>7, <3>8, GeqByLast
      <3>11. a[n] \in Int /\ b[n] \in Int
        BY <3>6, <3>7
      <3>12. QED
        BY <3>5, <3>9, <3>10, <3>11
    <2>3. QED
      BY <2>1, <2>2 DEF TypeOK
  <1>2. QED
    BY <1>1, TreeInvariant, PTL DEF Spec, SiblingOrderKept

===============================================================================
