--------------------------- MODULE ListViewProofs ---------------------------
(***************************************************************************)
(* For any list: a copy that replays what the array's observer is told is  *)
(* the list whenever no call is under way.                                 *)
(*                                                                         *)
(* First, of arrays alone: whatever a splice is called with, the indexes   *)
(* getNewIndices works out tell the truth, and the report made of them,    *)
(* replayed on what there was, gives what there is (SpliceReplayed).  Any  *)
(* other change of the whole list is reported as everything gone and all   *)
(* there is inserted.  It deletes as many as were there when something was *)
(* last noted, so the invariant has to know that the copy, with what is    *)
(* pending replayed on it, is never longer than what was last noted, nor   *)
(* that than the list.                                                     *)
(*                                                                         *)
(* Then, of a call: what marks, bubbles, shuffles and notifies leaves the  *)
(* data and the observer's record alone (Carries), but for the one report  *)
(* that is noted, and the observer is queued when and only when there is   *)
(* one.  Then, of the flush: what is queued is called before the batch is  *)
(* over, so that nothing is pending when the page is at rest.              *)
(*                                                                         *)
(* Last, of the observers of list.0 and list.*: what each counts as told   *)
(* has been told, and what it cannot count it waits to be told, in a queue *)
(* of the batch that is flushed or of the one around it (TellInv).  For    *)
(* every call it is shown that the keys it speaks of are all that it       *)
(* changes: for an array method by what getNewIndices works out, for a     *)
(* merge by what merge works out (MergeTellsTruth), unless elements move   *)
(* among others that come or go.                                           *)
(***************************************************************************)
EXTENDS ListView, BoundedSets, SequenceTheorems, TLAPS

-------------------------------------------------------------------------------
\* Arrays and sequences.

\* An array is as long as its last index says, and as a sequence it has the
\* same elements, counted from 1.
LEMMA ArrayAsSeq ==
    ASSUME NEW S, NEW n \in Nat, NEW a \in [0 .. n - 1 -> S]
    PROVE  /\ Length(a) = n
           /\ AsSeq(a) \in Seq(S) /\ Len(AsSeq(a)) = n
           /\ \A i \in 1 .. n : AsSeq(a)[i] = a[i - 1]
  <1>1. Length(a) = n
    <2>1. Cardinality(0 .. n - 1) = n
      BY FS_Interval
    <2>2. QED
      BY <2>1 DEF Length
  <1>2. AsSeq(a) = [i \in 1 .. n |-> a[i - 1]]
    BY <1>1 DEF AsSeq
  <1>3. \A i \in 1 .. n : a[i - 1] \in S
    OBVIOUS
  <1>4. [i \in 1 .. n |-> a[i - 1]] \in [1 .. n -> S]
    BY <1>3
  <1>5. AsSeq(a) \in Seq(S)
    BY <1>2, <1>4, SeqDef
  <1>6. Len(AsSeq(a)) = n
    BY <1>2
  <1>7. QED
    BY <1>1, <1>2, <1>5, <1>6

\* And back.
LEMMA SeqAsArray ==
    ASSUME NEW S, NEW s \in Seq(S)
    PROVE  /\ AsArray(s) \in [0 .. Len(s) - 1 -> S]
           /\ Length(AsArray(s)) = Len(s) /\ AsSeq(AsArray(s)) = s
  <1>1. Len(s) \in Nat /\ \A i \in 1 .. Len(s) : s[i] \in S
    BY LenProperties, ElementOfSeq
  <1>2. AsArray(s) \in [0 .. Len(s) - 1 -> S]
    BY <1>1 DEF AsArray
  <1>3. /\ Length(AsArray(s)) = Len(s)
        /\ AsSeq(AsArray(s)) \in Seq(S) /\ Len(AsSeq(AsArray(s))) = Len(s)
        /\ \A i \in 1 .. Len(s) : AsSeq(AsArray(s))[i] = AsArray(s)[i - 1]
    BY <1>1, <1>2, ArrayAsSeq
  <1>4. \A i \in 1 .. Len(s) : AsArray(s)[i - 1] = s[i]
    BY <1>1 DEF AsArray
  <1>5. \A i \in 1 .. Len(s) : AsSeq(AsArray(s))[i] = s[i]
    BY <1>3, <1>4
  <1>6. AsSeq(AsArray(s)) = s
    BY <1>3, <1>5, SeqEqual
  <1>7. QED
    BY <1>2, <1>3, <1>6

\* What Array.prototype.splice makes of the elements as a sequence.
SplicedSeq(s, begin, drop, added) ==
    LET from == Least(begin, Len(s))
        to   == Least(from + Most(drop, 0), Len(s))
    IN SubSeq(s, 1, from) \o added \o SubSeq(s, to + 1, Len(s))

\* What splice does to an array it does to the sequence.
LEMMA SplicedAsSeq ==
    ASSUME NEW S, NEW n \in Nat, NEW a \in [0 .. n - 1 -> S], NEW begin, NEW drop, NEW added
    PROVE  Spliced(a, begin, drop, added) = AsArray(SplicedSeq(AsSeq(a), begin, drop, added))
  BY ArrayAsSeq DEF Spliced, SplicedSeq

\* Its length and its elements: from where to where elements are dropped.
DroppedBetween(S, s, added, r, from, to) ==
    /\ r \in Seq(S) /\ Len(r) = from + Len(added) + (Len(s) - to)
    /\ from <= to /\ to <= Len(s)
    /\ \A i \in 1 .. from : r[i] = s[i]
    /\ \A i \in 1 .. Len(added) : r[from + i] = added[i]
    /\ \A i \in to + 1 .. Len(s) : r[from + Len(added) + i - to] = s[i]

\* What a splice leaves: what was before, what is added, what was after.
LEMMA SplicedElements ==
    ASSUME NEW S, NEW s \in Seq(S), NEW added \in Seq(S), NEW begin \in Nat, NEW drop \in Int
    PROVE  \E from, to \in Nat :
             /\ from = Least(begin, Len(s)) /\ to = Least(from + Most(drop, 0), Len(s))
             /\ DroppedBetween(S, s, added, SplicedSeq(s, begin, drop, added), from, to)
  <1>0. PICK from \in Nat, to \in Nat :
          from = Least(begin, Len(s)) /\ to = Least(from + Most(drop, 0), Len(s))
    <2>1. Len(s) \in Nat /\ Most(drop, 0) \in Nat
      BY LenProperties DEF Most
    <2>2. Least(begin, Len(s)) \in Nat
      BY <2>1 DEF Least
    <2>3. Least(Least(begin, Len(s)) + Most(drop, 0), Len(s)) \in Nat
      BY <2>1, <2>2 DEF Least
    <2>4. QED
      BY <2>2, <2>3
  <1> DEFINE r == SplicedSeq(s, begin, drop, added)
             x == SubSeq(s, 1, from)
             z == SubSeq(s, to + 1, Len(s))
             xy == x \o added
  <1>1. Len(s) \in Nat /\ Len(added) \in Nat /\ \A i \in 1 .. Len(s) : s[i] \in S
    BY LenProperties, ElementOfSeq
  <1>2. from <= to /\ to <= Len(s)
    <2>1. Most(drop, 0) \in Nat
      BY DEF Most
    <2>2. from <= Len(s)
      BY <1>0, <1>1 DEF Least
    <2>3. to = IF from + Most(drop, 0) < Len(s) THEN from + Most(drop, 0) ELSE Len(s)
      BY <1>0 DEF Least
    <2>4. QED
      BY <1>1, <2>1, <2>2, <2>3
  <1>3. r = xy \o z
    BY <1>0 DEF SplicedSeq
  <1>4. x \in Seq(S) /\ Len(x) = from /\ \A i \in 1 .. from : x[i] = s[i]
    <2>1. /\ x \in Seq(S) /\ Len(x) = IF 1 <= from THEN from - 1 + 1 ELSE 0
          /\ \A i \in 1 .. from - 1 + 1 : x[i] = s[1 + i - 1]
      <3> HIDE DEF x
      <3>1. \A i \in 1 .. from : s[i] \in S
        BY <1>1, <1>2
      <3>2. QED
        BY <3>1, SubSeqProperties DEF x
    <2> HIDE DEF x
    <2>2. QED
      BY <2>1
  <1>5. /\ z \in Seq(S) /\ Len(z) = Len(s) - to
        /\ \A i \in 1 .. Len(s) - to : z[i] = s[to + i]
    <2>1. /\ z \in Seq(S) /\ Len(z) = IF to + 1 <= Len(s) THEN Len(s) - (to + 1) + 1 ELSE 0
          /\ \A i \in 1 .. Len(s) - (to + 1) + 1 : z[i] = s[to + 1 + i - 1]
      <3> HIDE DEF z
      <3>1. \A i \in to + 1 .. Len(s) : s[i] \in S
        BY <1>1, <1>2
      <3>2. to + 1 \in Int /\ Len(s) \in Int
        BY <1>1
      <3>3. QED
        BY <3>1, <3>2, SubSeqProperties DEF z
    <2> HIDE DEF z
    <2>2. QED
      BY <1>1, <1>2, <2>1
  <1> HIDE DEF x, z
  <1>6. /\ xy \in Seq(S) /\ Len(xy) = from + Len(added)
        /\ \A i \in 1 .. from + Len(added) :
             xy[i] = IF i <= from THEN x[i] ELSE added[i - from]
    BY <1>4, ConcatProperties
  <1> HIDE DEF xy, r
  <1>7. /\ r \in Seq(S) /\ Len(r) = Len(xy) + Len(z)
        /\ \A i \in 1 .. Len(xy) + Len(z) : r[i] = IF i <= Len(xy) THEN xy[i] ELSE z[i - Len(xy)]
    BY <1>3, <1>5, <1>6, ConcatProperties
  <1>8. PICK k \in Nat, m \in Nat : k = Len(added) /\ m = Len(s) - to
    <2>1. Len(s) - to \in Nat /\ Len(added) \in Nat
      BY <1>1, <1>2
    <2>2. QED
      BY <2>1
  <1>9. Len(xy) = from + k /\ Len(z) = m
    BY <1>5, <1>6, <1>8
  <1>10. /\ Len(r) = from + k + m
         /\ \A i \in 1 .. from + k : r[i] = xy[i]
         /\ \A j \in 1 .. m : r[from + k + j] = z[j]
    <2>1. /\ Len(r) = from + k + m
          /\ \A i \in 1 .. from + k + m :
               r[i] = IF i <= from + k THEN xy[i] ELSE z[i - (from + k)]
      BY <1>7, <1>9
    <2>2. ASSUME NEW i \in 1 .. from + k PROVE r[i] = xy[i]
      BY <2>1
    <2>3. ASSUME NEW j \in 1 .. m PROVE r[from + k + j] = z[j]
      <3>1. PICK n \in 1 .. from + k + m : n = from + k + j
        OBVIOUS
      <3>2. ~ (n <= from + k) /\ n - (from + k) = j
        BY <3>1
      <3>3. r[n] = z[j]
        BY <2>1, <3>2
      <3>4. QED
        BY <3>1, <3>3
    <2>4. QED
      BY <2>1, <2>2, <2>3
  <1>11. \A i \in 1 .. from : r[i] = s[i]
    <2> TAKE i \in 1 .. from
    <2>1. i \in 1 .. from + k /\ i \in 1 .. from + Len(added)
      BY <1>8
    <2>2. xy[i] = s[i]
      BY <1>4, <1>6, <2>1
    <2>3. QED
      BY <1>10, <2>1, <2>2
  <1>12. \A i \in 1 .. k : r[from + i] = added[i]
    <2> TAKE i \in 1 .. k
    <2>1. PICK n \in 1 .. from + k : n = from + i
      OBVIOUS
    <2>2. n \in 1 .. from + Len(added) /\ ~ (n <= from) /\ n - from = i
      BY <1>8, <2>1
    <2>3. xy[n] = added[i]
      BY <1>6, <2>2
    <2>4. r[n] = added[i]
      BY <1>10, <2>3
    <2>5. QED
      BY <2>1, <2>4
  <1>13. \A i \in to + 1 .. Len(s) : r[from + k + i - to] = s[i]
    <2> TAKE i \in to + 1 .. Len(s)
    <2>1. PICK j \in 1 .. m : i = to + j
      <3>1. i - to \in 1 .. m /\ i = to + (i - to)
        BY <1>1, <1>2, <1>8
      <3>2. QED
        BY <3>1
    <2>2. z[j] = s[i]
      BY <1>5, <1>8, <2>1
    <2>3. from + k + i - to = from + k + j
      BY <2>1
    <2>4. QED
      BY <1>10, <2>2, <2>3
  <1>14. /\ Len(r) = from + Len(added) + (Len(s) - to)
         /\ \A i \in 1 .. Len(added) : r[from + i] = added[i]
         /\ \A i \in to + 1 .. Len(s) : r[from + Len(added) + i - to] = s[i]
    BY <1>8, <1>10, <1>12, <1>13
  <1> WITNESS from \in Nat, to \in Nat
  <1>15. QED
    BY <1>0, <1>2, <1>7, <1>11, <1>14 DEF r, DroppedBetween

-------------------------------------------------------------------------------
\* The report of a change.

\* What ArrayShuffled notes, of the elements there are now and of where the
\* old ones went.
Kept(map) == {map[i] : i \in DOMAIN map}
Inserted(now, map) == {i \in 1 .. Len(now) : i - 1 \notin Kept(map)}
Deleted(map) == {i \in DOMAIN map : map[i] = Gone}
Report(now, map) ==
    LET kept  == {map[i] : i \in DOMAIN map}
        moved == {i \in DOMAIN map : map[i] # i}
    IN [ deleted  |-> Cardinality({i \in DOMAIN map : map[i] = Gone}),
         inserted |-> [n \in 1 .. Cardinality({i \in 1 .. Len(now) : i - 1 \notin kept}) |->
                         now[CHOOSE i \in 1 .. Len(now) :
                               /\ i - 1 \notin kept
                               /\ Cardinality({j \in 1 .. i : j - 1 \notin kept}) = n]],
         start    |-> IF moved = {} THEN Cardinality(DOMAIN map)
                      ELSE CHOOSE i \in moved : \A j \in moved : i <= j ]

\* The k-th of the places in a set of places.
LEMMA CountReached ==
    ASSUME NEW b \in Nat, NEW N \in SUBSET (1 .. b), NEW k \in 1 .. Cardinality(N)
    PROVE  \E i \in N : Cardinality({j \in 1 .. i : j \in N}) = k
  <1> DEFINE C(i) == {j \in 1 .. i : j \in N}
             A == {i \in 0 .. b : Cardinality(C(i)) >= k}
  <1>1. \A i \in 0 .. b : IsFiniteSet(C(i)) /\ Cardinality(C(i)) \in Nat
    <2> TAKE i \in 0 .. b
    <2>1. IsFiniteSet(1 .. i)
      BY FS_Interval
    <2>2. C(i) \in SUBSET (1 .. i)
      OBVIOUS
    <2> HIDE DEF C
    <2>3. IsFiniteSet(C(i))
      BY <2>1, <2>2, FS_Subset
    <2>4. QED
      BY <2>3, FS_CardinalityType
  <1>2. b \in A
    <2>1. C(b) = N
      OBVIOUS
    <2>2. Cardinality(C(b)) >= k
      <3> HIDE DEF C
      <3>1. Cardinality(N) \in Nat
        BY <1>1, <2>1
      <3>2. QED
        BY <2>1, <3>1
    <2> HIDE DEF C
    <2>3. QED
      BY <2>2
  <1>3. PICK m \in A : \A i \in A : m <= i
    <2>1. A # {} /\ A \in SUBSET (0 .. b)
      BY <1>2
    <2> HIDE DEF A
    <2>2. QED
      BY <2>1, LeastMember
  <1>4. m \in 1 .. b /\ Cardinality(C(m)) >= k
    <2>1. C(0) = {}
      OBVIOUS
    <2>2. Cardinality(C(0)) = 0
      BY <2>1, FS_EmptySet
    <2> HIDE DEF C
    <2>3. m \in 0 .. b /\ Cardinality(C(m)) >= k
      OBVIOUS
    <2>4. m # 0
      BY <2>2, <2>3
    <2>5. QED
      BY <2>3, <2>4
  <1>5. ~ (Cardinality(C(m - 1)) >= k)
    <2> HIDE DEF C
    <2>1. m - 1 \in 0 .. b /\ ~ (m <= m - 1)
      BY <1>4
    <2>2. m - 1 \notin A
      <3> HIDE DEF A
      <3>1. QED
        BY <1>3, <2>1
    <2>3. QED
      BY <2>1, <2>2
  <1>6. m \in N
    <2> SUFFICES ASSUME m \notin N PROVE FALSE
      OBVIOUS
    <2>1. C(m) = C(m - 1)
      <3>1. \A j \in 1 .. m : j \in N => j \in 1 .. m - 1
        OBVIOUS
      <3>2. \A j \in 1 .. m - 1 : j \in 1 .. m
        BY <1>4
      <3>3. QED
        BY <3>1, <3>2
    <2> HIDE DEF C, A
    <2>2. QED
      BY <1>4, <1>5, <2>1
  <1>7. Cardinality(C(m)) = Cardinality(C(m - 1)) + 1
    <2>1. C(m) = C(m - 1) \cup {m} /\ m \notin C(m - 1)
      <3>1. \A j \in 1 .. m : j \in 1 .. m - 1 \/ j = m
        OBVIOUS
      <3>2. \A j \in 1 .. m - 1 : j \in 1 .. m /\ j # m
        BY <1>4
      <3>3. m \in 1 .. m
        BY <1>4
      <3>4. QED
        BY <1>6, <3>1, <3>2, <3>3
    <2>2. m - 1 \in 0 .. b
      BY <1>4
    <2> HIDE DEF C, A
    <2>3. IsFiniteSet(C(m - 1))
      BY <1>1, <2>2
    <2>4. QED
      BY <2>1, <2>3, FS_AddElement
  <1>8. Cardinality(C(m)) = k
    <2>1. m - 1 \in 0 .. b /\ m \in 0 .. b
      BY <1>4
    <2> HIDE DEF C, A
    <2>2. Cardinality(C(m - 1)) \in Nat /\ Cardinality(C(m)) \in Nat
      BY <1>1, <2>1
    <2>3. QED
      BY <1>4, <1>5, <1>7, <2>2
  <1>9. QED
    BY <1>6, <1>8

\* Where the k-th inserted element is now.
PlaceOf(now, map, k) == CHOOSE i \in 1 .. Len(now) :
                          /\ i - 1 \notin Kept(map)
                          /\ Cardinality({j \in 1 .. i : j - 1 \notin Kept(map)}) = k

\* The three fields, each by itself.
LEMMA ReportFields ==
    ASSUME NEW now, NEW map
    PROVE  LET moved == {i \in DOMAIN map : map[i] # i} IN
           /\ Report(now, map).deleted = Cardinality(Deleted(map))
           /\ Report(now, map).inserted =
                [n \in 1 .. Cardinality(Inserted(now, map)) |-> now[PlaceOf(now, map, n)]]
           /\ moved = {} => Report(now, map).start = Cardinality(DOMAIN map)
           /\ moved # {} =>
                Report(now, map).start = CHOOSE i \in moved : \A j \in moved : i <= j
           /\ Report(now, map) = [ deleted  |-> Report(now, map).deleted,
                                   inserted |-> Report(now, map).inserted,
                                   start    |-> Report(now, map).start ]
  BY DEF Report, Kept, Inserted, Deleted, PlaceOf

\* It is a report, and does not delete beyond the end of what there was.
LEMMA ReportBounds ==
    ASSUME NEW S, NEW now \in Seq(S), NEW n \in Nat, NEW map \in [0 .. n - 1 -> Int]
    PROVE  LET r == Report(now, map) IN
           /\ r.deleted \in Nat /\ r.start \in Nat /\ r.start + r.deleted <= n
           /\ r.deleted = Cardinality(Deleted(map))
           /\ r.inserted \in Seq(S) /\ Len(r.inserted) = Cardinality(Inserted(now, map))
           /\ Cardinality(Inserted(now, map)) \in Nat
           /\ r \in [deleted : Nat, inserted : Seq(S), start : Nat]
  <1> DEFINE r == Report(now, map)
             moved == {i \in DOMAIN map : map[i] # i}
             D == Deleted(map)
             N == Inserted(now, map)
  <1>1. Len(now) \in Nat /\ \A i \in 1 .. Len(now) : now[i] \in S
    BY LenProperties, ElementOfSeq
  <1>2. /\ IsFiniteSet(0 .. n - 1) /\ Cardinality(0 .. n - 1) = n
        /\ IsFiniteSet(1 .. Len(now))
    BY <1>1, FS_Interval
  <1>3. D \in SUBSET (0 .. n - 1) /\ moved \in SUBSET (0 .. n - 1) /\ D \subseteq moved
    BY DEF Deleted, Gone
  <1>4. N \in SUBSET (1 .. Len(now))
    BY DEF Inserted
  <1> HIDE DEF D, N, moved
  <1>5. IsFiniteSet(D) /\ Cardinality(D) \in Nat
    BY <1>2, <1>3, FS_Subset, FS_CardinalityType
  <1>6. IsFiniteSet(N) /\ Cardinality(N) \in Nat
    BY <1>2, <1>4, FS_Subset, FS_CardinalityType
  <1>7. r.deleted = Cardinality(D)
    BY ReportFields DEF D
  <1>8. r.start \in Nat /\ r.start + Cardinality(D) <= n
    <2>1. CASE moved = {}
      <3>1. r.start = n
        <4>1. r.start = Cardinality(DOMAIN map)
          BY <2>1, ReportFields DEF moved
        <4>2. QED
          BY <1>2, <4>1
      <3>2. Cardinality(D) = 0
        BY <1>3, <2>1, FS_EmptySet
      <3> HIDE DEF r
      <3>3. QED
        BY <3>1, <3>2
    <2>2. CASE moved # {}
      <3>1. r.start = CHOOSE i \in moved : \A j \in moved : i <= j
        BY <2>2, ReportFields DEF moved
      <3> HIDE DEF r
      <3>2. PICK m \in moved : \A j \in moved : m <= j
        <4>1. moved \in SUBSET (0 .. n)
          BY <1>3
        <4>2. QED
          BY <2>2, <4>1, LeastMember
      <3>3. r.start \in moved /\ \A j \in moved : r.start <= j
        BY <3>1, <3>2
      <3>4. PICK a \in 0 .. n - 1 : a = r.start
        BY <1>3, <3>3
      <3>5. D \in SUBSET (a .. n - 1)
        BY <1>3, <3>3, <3>4
      <3>6. IsFiniteSet(a .. n - 1) /\ Cardinality(a .. n - 1) = n - a
        BY FS_Interval
      <3>7. Cardinality(D) <= Cardinality(a .. n - 1)
        BY <3>5, <3>6, FS_Subset
      <3>8. QED
        BY <1>5, <3>4, <3>6, <3>7
    <2>3. QED
      BY <2>1, <2>2
  <1>9. r.inserted \in Seq(S) /\ Len(r.inserted) = Cardinality(N)
    <2>1. r.inserted = [k \in 1 .. Cardinality(N) |-> now[PlaceOf(now, map, k)]]
      BY ReportFields DEF N
    <2> HIDE DEF r
    <2>2. \A k \in 1 .. Cardinality(N) : PlaceOf(now, map, k) \in 1 .. Len(now)
      <3> TAKE k \in 1 .. Cardinality(N)
      <3>1. PICK i \in N : Cardinality({j \in 1 .. i : j \in N}) = k
        BY <1>1, <1>4, CountReached
      <3>2. i \in 1 .. Len(now) /\ i - 1 \notin Kept(map)
        BY DEF N, Inserted
      <3>3. {j \in 1 .. i : j \in N} = {j \in 1 .. i : j - 1 \notin Kept(map)}
        <4>1. \A j \in 1 .. i : j \in 1 .. Len(now)
          BY <1>1, <3>2
        <4>2. QED
          BY <4>1 DEF N, Inserted
      <3>4. Cardinality({j \in 1 .. i : j - 1 \notin Kept(map)}) = k
        BY <3>1, <3>3
      <3>5. QED
        BY <3>2, <3>4 DEF PlaceOf
    <2>3. PICK c \in Nat : c = Cardinality(N)
      BY <1>6
    <2>4. r.inserted = [k \in 1 .. c |-> now[PlaceOf(now, map, k)]]
      BY <2>1, <2>3
    <2>5. r.inserted \in [1 .. c -> S]
      BY <1>1, <2>2, <2>3, <2>4
    <2>6. r.inserted \in Seq(S)
      BY <2>5, SeqDef
    <2>7. Len(r.inserted) = c
      BY <2>4
    <2>8. QED
      BY <2>3, <2>6, <2>7
  <1>10. r = [deleted |-> r.deleted, inserted |-> r.inserted, start |-> r.start]
    BY ReportFields
  <1> HIDE DEF r
  <1>11. r \in [deleted : Nat, inserted : Seq(S), start : Nat]
    BY <1>5, <1>7, <1>8, <1>9, <1>10
  <1>12. QED
    BY <1>5, <1>6, <1>7, <1>8, <1>9, <1>11 DEF r, D, N

\* What is inserted when the places of it are an interval.
Slice(now, lo, k) == [i \in 1 .. k |-> now[lo + i]]
LEMMA InsertedInterval ==
    ASSUME NEW S, NEW now \in Seq(S), NEW map, NEW lo \in Nat, NEW k \in Nat, lo + k <= Len(now),
           Inserted(now, map) = lo + 1 .. lo + k
    PROVE  Report(now, map).inserted = Slice(now, lo, k)
  <1>1. Len(now) \in Nat
    BY LenProperties
  <1>2. Cardinality(Inserted(now, map)) = k
    <2>1. lo + 1 \in Int /\ lo + k \in Int
      OBVIOUS
    <2>2. Cardinality(lo + 1 .. lo + k) = IF lo + 1 > lo + k THEN 0 ELSE lo + k - (lo + 1) + 1
      BY <2>1, FS_Interval
    <2>3. QED
      BY <2>2
  <1>3. \A i \in 1 .. Len(now) : i - 1 \notin Kept(map) <=> i \in lo + 1 .. lo + k
    BY DEF Inserted
  <1>4. \A i \in lo + 1 .. lo + k :
          Cardinality({j \in 1 .. i : j - 1 \notin Kept(map)}) = i - lo
    <2> TAKE i \in lo + 1 .. lo + k
    <2>1. {j \in 1 .. i : j - 1 \notin Kept(map)} = lo + 1 .. i
      <3>1. \A j \in 1 .. i : j \in 1 .. Len(now)
        BY <1>1
      <3>2. \A j \in 1 .. i : j - 1 \notin Kept(map) <=> j \in lo + 1 .. i
        <4> TAKE j \in 1 .. i
        <4>1. j - 1 \notin Kept(map) <=> j \in lo + 1 .. lo + k
          BY <1>3, <3>1
        <4>2. QED
          BY <4>1
      <3>3. \A j \in lo + 1 .. i : j \in 1 .. i
        OBVIOUS
      <3>4. QED
        BY <3>2, <3>3
    <2>2. lo + 1 \in Int /\ i \in Int /\ ~ (lo + 1 > i)
      OBVIOUS
    <2>3. Cardinality(lo + 1 .. i) = IF lo + 1 > i THEN 0 ELSE i - (lo + 1) + 1
      BY <2>2, FS_Interval
    <2>4. Cardinality(lo + 1 .. i) = i - lo
      BY <2>2, <2>3
    <2>5. QED
      BY <2>1, <2>4
  <1>5. \A n \in 1 .. k : PlaceOf(now, map, n) = lo + n
    <2> TAKE n \in 1 .. k
    <2>1. PICK m \in lo + 1 .. lo + k : m = lo + n
      OBVIOUS
    <2>2. /\ m \in 1 .. Len(now) /\ m - 1 \notin Kept(map)
          /\ Cardinality({j \in 1 .. m : j - 1 \notin Kept(map)}) = n
      <3>1. m \in 1 .. Len(now) /\ m - lo = n
        BY <1>1, <2>1
      <3>2. QED
        BY <1>3, <1>4, <3>1
    <2>3. PICK p : p = PlaceOf(now, map, n)
      OBVIOUS
    <2>4. /\ p \in 1 .. Len(now) /\ p - 1 \notin Kept(map)
          /\ Cardinality({j \in 1 .. p : j - 1 \notin Kept(map)}) = n
      BY <2>2, <2>3 DEF PlaceOf
    <2>5. p \in lo + 1 .. lo + k
      BY <1>3, <2>4
    <2>6. p - lo = n
      BY <1>4, <2>4, <2>5
    <2>7. QED
      BY <2>3, <2>5, <2>6
  <1>6. Report(now, map).inserted = [n \in 1 .. k |-> now[PlaceOf(now, map, n)]]
    BY <1>2, ReportFields
  <1>7. QED
    BY <1>5, <1>6 DEF Slice

\* Where everything has gone, the report replaces everything told.
GoneMap(n) == [i \in 0 .. n - 1 |-> Gone]
LEMMA AllGoneReplaces ==
    ASSUME NEW S, NEW now \in Seq(S), NEW n \in Nat, NEW told \in Seq(S), Len(told) <= n
    PROVE  LET r == Report(now, GoneMap(n)) IN
           /\ r \in [deleted : Nat, inserted : Seq(S), start : Nat]
           /\ SplicedSeq(told, r.start, r.deleted, r.inserted) = now
  <1> DEFINE map == GoneMap(n)
             r == Report(now, map)
  <1>1. Len(now) \in Nat /\ Len(told) \in Nat /\ \A i \in 1 .. Len(now) : now[i] \in S
    BY LenProperties, ElementOfSeq
  <1>2. map \in [0 .. n - 1 -> Int]
    BY DEF Gone, GoneMap
  <1>3. Deleted(map) = 0 .. n - 1
    BY DEF Deleted, GoneMap
  <1>4. Inserted(now, map) = 0 + 1 .. 0 + Len(now)
    <2>1. \A i \in 1 .. Len(now) : i - 1 \notin Kept(map)
      BY <1>1 DEF Kept, Gone, GoneMap
    <2>2. QED
      BY <1>1, <2>1 DEF Inserted
  <1> HIDE DEF map
  <1>5. /\ r.deleted \in Nat /\ r.start \in Nat /\ r.start + r.deleted <= n
        /\ r.deleted = Cardinality(Deleted(map))
        /\ r.inserted \in Seq(S)
        /\ r \in [deleted : Nat, inserted : Seq(S), start : Nat]
    BY <1>2, ReportBounds
  <1>6. r.inserted = Slice(now, 0, Len(now))
    <2>1. 0 + Len(now) <= Len(now)
      BY <1>1
    <2>2. QED
      BY <1>1, <1>4, <2>1, InsertedInterval
  <1> HIDE DEF r
  <1>7. r.inserted = now
    <2>1. now = [i \in 1 .. Len(now) |-> now[i]]
      BY LenProperties
    <2>2. [i \in 1 .. Len(now) |-> now[0 + i]] = [i \in 1 .. Len(now) |-> now[i]]
      OBVIOUS
    <2>3. QED
      BY <1>6, <2>1, <2>2 DEF Slice
  <1>8. r.deleted = n /\ r.start = 0
    <2>1. Cardinality(0 .. n - 1) = n
      BY FS_Interval
    <2>2. QED
      BY <1>3, <1>5, <2>1
  <1>9. SplicedSeq(told, 0, n, now) = now
    <2>1. Least(0, Len(told)) = 0 /\ Most(n, 0) = n /\ Least(n, Len(told)) = Len(told)
      BY <1>1 DEF Least, Most
    <2>2. SplicedSeq(told, 0, n, now) =
            SubSeq(told, 1, 0) \o now \o SubSeq(told, Len(told) + 1, Len(told))
      BY <2>1 DEF SplicedSeq
    <2>3. SubSeq(told, 1, 0) = <<>> /\ SubSeq(told, Len(told) + 1, Len(told)) = <<>>
      <3>1. Len(told) + 1 \in Int /\ Len(told) \in Int /\ Len(told) < Len(told) + 1
        BY <1>1
      <3>2. SubSeq(told, Len(told) + 1, Len(told)) = <<>>
        BY <3>1, SubSeqEmpty
      <3>3. SubSeq(told, 1, 0) = <<>>
        BY SubSeqEmpty
      <3>4. QED
        BY <3>2, <3>3
    <2>4. QED
      BY <2>2, <2>3, ConcatEmptySeq
  <1>10. QED
    BY <1>5, <1>7, <1>8, <1>9 DEF r, map

\* Every element of n has a place among m, or has gone, and no two have one place.
OneToOne(map, n, m) ==
    /\ map \in [0 .. n - 1 -> (0 .. m - 1) \cup {Gone}]
    /\ \A i, j \in 0 .. n - 1 : map[i] = map[j] /\ map[i] # Gone => i = j

\* As many places are kept as elements are.
LEMMA KeptCount ==
    ASSUME NEW S, NEW now \in Seq(S), NEW n \in Nat, NEW map, OneToOne(map, n, Len(now))
    PROVE  /\ Cardinality(Inserted(now, map)) \in Nat /\ Cardinality(Deleted(map)) \in Nat
           /\ n - Cardinality(Deleted(map)) + Cardinality(Inserted(now, map)) <= Len(now)
  <1> DEFINE D == Deleted(map)
             N == Inserted(now, map)
             A == (0 .. n - 1) \ D
             K == (1 .. Len(now)) \ N
  <1>1. /\ Len(now) \in Nat /\ map \in [0 .. n - 1 -> (0 .. Len(now) - 1) \cup {Gone}]
        /\ \A i, j \in 0 .. n - 1 : map[i] = map[j] /\ map[i] # Gone => i = j
    BY LenProperties DEF OneToOne
  <1>2. /\ IsFiniteSet(0 .. n - 1) /\ Cardinality(0 .. n - 1) = n
        /\ IsFiniteSet(1 .. Len(now)) /\ Cardinality(1 .. Len(now)) = Len(now)
    <2>1. IsFiniteSet(0 .. n - 1) /\ Cardinality(0 .. n - 1) = n
      <3>1. 0 \in Int /\ n - 1 \in Int
        OBVIOUS
      <3>2. IsFiniteSet(0 .. n - 1)
            /\ Cardinality(0 .. n - 1) = IF 0 > n - 1 THEN 0 ELSE n - 1 - 0 + 1
        BY <3>1, FS_Interval
      <3>3. QED
        BY <3>2
    <2>2. IsFiniteSet(1 .. Len(now)) /\ Cardinality(1 .. Len(now)) = Len(now)
      <3>1. Len(now) \in Int
        BY <1>1
      <3>2. IsFiniteSet(1 .. Len(now))
            /\ Cardinality(1 .. Len(now)) = IF 1 > Len(now) THEN 0 ELSE Len(now) - 1 + 1
        BY <3>1, FS_Interval
      <3>3. QED
        BY <1>1, <3>2
    <2>3. QED
      BY <2>1, <2>2
  <1>3. D \in SUBSET (0 .. n - 1) /\ \A i \in 0 .. n - 1 : i \in D <=> map[i] = Gone
    BY <1>1 DEF Deleted
  <1>4. N \in SUBSET (1 .. Len(now)) /\ \A i \in 1 .. Len(now) : i \in N <=> i - 1 \notin Kept(map)
    BY DEF Inserted
  <1> HIDE DEF D, N
  <1>5. /\ IsFiniteSet(D) /\ Cardinality(D) \in Nat
        /\ IsFiniteSet(N) /\ Cardinality(N) \in Nat
    BY <1>2, <1>3, <1>4, FS_Subset, FS_CardinalityType
  <1>6. IsFiniteSet(A) /\ Cardinality(A) = n - Cardinality(D)
    <2>1. (0 .. n - 1) \cap D = D
      BY <1>3
    <2>2. /\ IsFiniteSet((0 .. n - 1) \ D)
          /\ Cardinality((0 .. n - 1) \ D) =
               Cardinality(0 .. n - 1) - Cardinality((0 .. n - 1) \cap D)
      BY <1>2, FS_Difference
    <2>3. QED
      BY <1>2, <2>1, <2>2
  <1>7. IsFiniteSet(K) /\ Cardinality(K) = Len(now) - Cardinality(N)
    <2>1. (1 .. Len(now)) \cap N = N
      BY <1>4
    <2>2. /\ IsFiniteSet((1 .. Len(now)) \ N)
          /\ Cardinality((1 .. Len(now)) \ N) =
               Cardinality(1 .. Len(now)) - Cardinality((1 .. Len(now)) \cap N)
      BY <1>2, FS_Difference
    <2>3. QED
      BY <1>2, <2>1, <2>2
  <1>8. Cardinality(A) <= Cardinality(K)
    <2> DEFINE f == [i \in A |-> map[i] + 1]
    <2>1. \A i \in A : map[i] + 1 \in K
      <3> TAKE i \in A
      <3>1. i \in 0 .. n - 1 /\ map[i] # Gone
        BY <1>3
      <3>2. map[i] \in 0 .. Len(now) - 1
        BY <1>1, <3>1
      <3>3. map[i] \in Kept(map)
        BY <1>1, <3>1 DEF Kept
      <3>4. PICK j \in 1 .. Len(now) : j = map[i] + 1
        BY <1>1, <3>2
      <3>5. j - 1 = map[i]
        BY <3>2, <3>4
      <3>6. j \notin N
        BY <1>4, <3>3, <3>5
      <3>7. QED
        BY <3>4, <3>6
    <2>2. \A i, j \in A : map[i] + 1 = map[j] + 1 => i = j
      <3> TAKE i, j \in A
      <3>1. i \in 0 .. n - 1 /\ map[i] # Gone /\ j \in 0 .. n - 1 /\ map[j] # Gone
        BY <1>3
      <3>2. map[i] \in Int /\ map[j] \in Int
        BY <1>1, <3>1
      <3>3. map[i] + 1 = map[j] + 1 => map[i] = map[j]
        BY <3>2
      <3>4. QED
        BY <1>1, <3>1, <3>3
    <2> HIDE DEF A, K
    <2>3. f \in Injection(A, K)
      BY <2>1, <2>2 DEF Injection, IsInjective
    <2> HIDE DEF f
    <2>4. QED
      BY <1>7, <2>3, FS_Injection
  <1> HIDE DEF A, K
  <1>9. QED
    BY <1>1, <1>5, <1>6, <1>7, <1>8 DEF D, N

\* A shorter copy stays the shorter one.
LEMMA ReportLength ==
    ASSUME NEW S, NEW now \in Seq(S), NEW n \in Nat, NEW map, OneToOne(map, n, Len(now)),
           NEW told \in Seq(S), Len(told) <= n
    PROVE  LET r == Report(now, map)
               heard == SplicedSeq(told, r.start, r.deleted, r.inserted)
           IN /\ r \in [deleted : Nat, inserted : Seq(S), start : Nat]
              /\ heard \in Seq(S) /\ Len(heard) <= Len(now)
  <1> DEFINE r == Report(now, map)
             heard == SplicedSeq(told, r.start, r.deleted, r.inserted)
  <1>1. map \in [0 .. n - 1 -> Int]
    BY DEF OneToOne, Gone
  <1>2. /\ r.deleted \in Nat /\ r.start \in Nat /\ r.start + r.deleted <= n
        /\ r.deleted = Cardinality(Deleted(map))
        /\ r.inserted \in Seq(S) /\ Len(r.inserted) = Cardinality(Inserted(now, map))
        /\ r \in [deleted : Nat, inserted : Seq(S), start : Nat]
    BY <1>1, ReportBounds
  <1> HIDE DEF r
  <1>3. /\ Len(told) \in Nat /\ Len(now) \in Nat /\ Len(r.inserted) \in Nat
        /\ n - r.deleted + Len(r.inserted) <= Len(now)
    BY <1>2, LenProperties, KeptCount
  <1>4. PICK from \in Nat, to \in Nat :
          /\ from = Least(r.start, Len(told)) /\ to = Least(from + Most(r.deleted, 0), Len(told))
          /\ heard \in Seq(S) /\ Len(heard) = from + Len(r.inserted) + (Len(told) - to)
    <2>1. PICK b \in Nat, d \in Int, k \in Seq(S) :
            b = r.start /\ d = r.deleted /\ k = r.inserted
      BY <1>2
    <2>2. \E from, to \in Nat :
            /\ from = Least(b, Len(told)) /\ to = Least(from + Most(d, 0), Len(told))
            /\ DroppedBetween(S, told, k, SplicedSeq(told, b, d, k), from, to)
      BY SplicedElements
    <2>3. QED
      BY <2>1, <2>2 DEF DroppedBetween
  <1>5. /\ from = (IF r.start < Len(told) THEN r.start ELSE Len(told))
        /\ to = (IF from + r.deleted < Len(told) THEN from + r.deleted ELSE Len(told))
    <2>1. Most(r.deleted, 0) = r.deleted
      BY <1>2 DEF Most
    <2>2. QED
      BY <1>4, <2>1 DEF Least
  <1> HIDE DEF heard
  <1>6. Len(heard) <= Len(now)
    <2>1. PICK t \in Nat, d \in Nat, b \in Nat, k \in Nat, w \in Nat :
            t = Len(told) /\ d = r.deleted /\ b = r.start /\ k = Len(r.inserted) /\ w = Len(now)
      BY <1>2, <1>3
    <2>2. /\ from = (IF b < t THEN b ELSE t) /\ to = (IF from + d < t THEN from + d ELSE t)
          /\ t <= n /\ b + d <= n /\ n - d + k <= w
      BY <1>2, <1>3, <1>5, <2>1
    <2>3. from + k + (t - to) <= w
      BY <2>2
    <2>4. QED
      BY <1>4, <2>1, <2>3
  <1>7. QED
    BY <1>2, <1>4, <1>6 DEF r, heard

\* Whatever an array method is called with, its splice starts in the array or
\* beyond its end, and drops what is there: nothing, when it starts beyond.
SpliceOf(S, n) == {sp \in [start : Nat, drop : Int, added : Seq(S)] :
                     \/ (sp.start <= n /\ 0 <= sp.drop /\ sp.start + sp.drop <= n)
                     \/ (sp.start > n /\ sp.drop <= 0)}
Methods == {"splice", "pop", "push", "shift", "unshift"}

\* Every method called with anything is such a splice.
LEMMA SpliceEquivalent ==
    ASSUME NEW S, NEW n \in Nat, NEW method \in Methods, NEW begin \in Int, NEW drop \in Nat,
           NEW added \in Seq(S)
    PROVE  /\ getSpliceEquivalent(n, method, begin, drop, added) \in SpliceOf(S, n)
           /\ getSpliceEquivalent(n, method, begin, drop, added).added \in {<<>>, added}
  <1>1. <<>> \in Seq(S)
    BY EmptySeq
  <1>2. CASE method = "splice"
    <2>1. PICK from \in Nat : from = IF begin < 0 THEN n + Most(begin, -n) ELSE begin
      BY DEF Most
    <2>2. PICK d \in Int : d = Least(drop, n - from)
      <3>1. n - from \in Int /\ Least(drop, n - from) \in Int
        BY DEF Least
      <3>2. QED
        BY <3>1
    <2>3. /\ from <= n => 0 <= d /\ from + d <= n
          /\ from > n => d <= 0
      BY <2>2 DEF Least
    <2>4. getSpliceEquivalent(n, method, begin, drop, added) =
            [start |-> from, drop |-> d, added |-> added]
      BY <1>2, <2>1, <2>2 DEF getSpliceEquivalent
    <2>5. QED
      BY <2>3, <2>4 DEF SpliceOf
  <1>3. CASE method = "pop"
    <2>1. PICK d \in Int, b \in Nat :
            /\ d = Least(n, 1) /\ b = IF n = 0 THEN 0 ELSE n - 1
            /\ b <= n /\ 0 <= d /\ b + d <= n
      BY DEF Least
    <2>2. getSpliceEquivalent(n, method, begin, drop, added) =
            [start |-> b, drop |-> d, added |-> <<>>]
      BY <1>3, <2>1 DEF getSpliceEquivalent
    <2>3. QED
      BY <1>1, <2>1, <2>2 DEF SpliceOf
  <1>4. CASE method = "push"
    <2>1. getSpliceEquivalent(n, method, begin, drop, added) =
            [start |-> n, drop |-> 0, added |-> added]
      BY <1>4 DEF getSpliceEquivalent
    <2>2. QED
      BY <2>1 DEF SpliceOf
  <1>5. CASE method = "shift"
    <2>1. PICK d \in Int : d = Least(n, 1) /\ 0 <= d /\ d <= n
      BY DEF Least
    <2>2. getSpliceEquivalent(n, method, begin, drop, added) =
            [start |-> 0, drop |-> d, added |-> <<>>]
      BY <1>5, <2>1 DEF getSpliceEquivalent
    <2>3. QED
      BY <1>1, <2>1, <2>2 DEF SpliceOf
  <1>6. CASE method = "unshift"
    <2>1. getSpliceEquivalent(n, method, begin, drop, added) =
            [start |-> 0, drop |-> 0, added |-> added]
      BY <1>6 DEF getSpliceEquivalent
    <2>2. QED
      BY <2>1 DEF SpliceOf
  <1>7. QED
    BY <1>2, <1>3, <1>4, <1>5, <1>6 DEF Methods

\* The map of a splice in plain terms: before what is dropped nothing moves,
\* what is dropped is gone, and the rest moves by as much as the length changes.
SpliceMap(map, n, f, d, k) ==
    /\ DOMAIN map = 0 .. n - 1
    /\ \A i \in 0 .. n - 1 : i < f => map[i] = i
    /\ \A i \in 0 .. n - 1 : f <= i /\ i < f + d => map[i] = Gone
    /\ \A i \in 0 .. n - 1 : f + d <= i => map[i] = i + k - d

\* What getNewIndices says of one: before it nothing moves, within it all goes,
\* after it all moves by as much.
LEMMA NewIndices ==
    ASSUME NEW S, NEW n \in Nat, NEW sp \in SpliceOf(S, n)
    PROVE  \E f, d \in Nat :
             /\ f = Least(sp.start, n) /\ d = Most(sp.drop, 0) /\ f + d <= n
             /\ Least(f + d, n) = f + d
             /\ SpliceMap(getNewIndices(n, sp).map, n, f, d, Len(sp.added))
  <1>1. /\ sp.start \in Nat /\ sp.drop \in Int /\ sp.added \in Seq(S)
        /\ \/ (sp.start <= n /\ 0 <= sp.drop /\ sp.start + sp.drop <= n)
           \/ (sp.start > n /\ sp.drop <= 0)
    BY DEF SpliceOf
  <1>2. PICK b \in Nat, e \in Int, k \in Nat :
          b = sp.start /\ e = sp.drop /\ k = Len(sp.added)
    BY <1>1, LenProperties
  <1>3. (b <= n /\ 0 <= e /\ b + e <= n) \/ (b > n /\ e <= 0)
    BY <1>1, <1>2
  <1>4. PICK f \in Nat, d \in Nat :
          /\ f = Least(b, n) /\ d = Most(e, 0) /\ f + d <= n /\ Least(f + d, n) = f + d
          /\ Least(n, b) = f /\ ((f = n /\ d = 0) \/ d = e)
    BY <1>3 DEF Least, Most
  <1> DEFINE map == getNewIndices(n, sp).map
  <1>5. map = [i \in 0 .. n - 1 |-> CASE i < f -> i
                                      [] i \in f .. f + e - 1 -> Gone
                                      [] OTHER -> i + (k - e)]
    BY <1>2, <1>4 DEF getNewIndices
  <1> HIDE DEF map
  <1>6. DOMAIN map = 0 .. n - 1
    BY <1>5
  <1>7. ASSUME NEW i \in 0 .. n - 1
        PROVE  /\ i < f => map[i] = i
               /\ f <= i /\ i < f + d => map[i] = Gone
               /\ f + d <= i => map[i] = i + k - d
    <2>1. map[i] = CASE i < f -> i
                     [] i \in f .. f + e - 1 -> Gone
                     [] OTHER -> i + (k - e)
      BY <1>5
    <2>2. CASE i < f
      <3>1. map[i] = i
        BY <2>1, <2>2
      <3>2. QED
        BY <2>2, <3>1
    <2>3. CASE f <= i /\ i < f + d
      <3>1. d = e /\ i \in f .. f + e - 1 /\ ~ (i < f)
        BY <1>4, <2>3
      <3>2. map[i] = Gone
        BY <2>1, <3>1
      <3>3. QED
        BY <2>3, <3>2
    <2>4. CASE f + d <= i
      <3>1. d = e /\ i \notin f .. f + e - 1 /\ ~ (i < f)
        BY <1>4, <2>4
      <3>2. map[i] = i + (k - e)
        BY <2>1, <3>1
      <3>3. QED
        BY <2>4, <3>1, <3>2
    <2>5. QED
      BY <2>2, <2>3, <2>4
  <1> WITNESS f \in Nat, d \in Nat
  <1>8. QED
    BY <1>2, <1>4, <1>6, <1>7 DEF map, SpliceMap

\* getNewIndices tells the truth: an element that goes somewhere is there after
\* the splice, no two go to one place, and the report, replayed on what there
\* was, gives what there is.
THEOREM SpliceReplayed ==
    ASSUME NEW S, NEW s \in Seq(S), NEW sp \in SpliceOf(S, Len(s))
    PROVE  LET map == getNewIndices(Len(s), sp).map
               now == SplicedSeq(s, sp.start, sp.drop, sp.added)
               r   == Report(now, map)
           IN /\ now \in Seq(S) /\ OneToOne(map, Len(s), Len(now))
              /\ \A i \in 0 .. Len(s) - 1 : map[i] # Gone => now[map[i] + 1] = s[i + 1]
              /\ SplicedSeq(s, r.start, r.deleted, r.inserted) = now
  <1> DEFINE map == getNewIndices(Len(s), sp).map
             now == SplicedSeq(s, sp.start, sp.drop, sp.added)
             r   == Report(now, map)
  <1>1. PICK n \in Nat, k \in Nat : n = Len(s) /\ k = Len(sp.added)
    BY LenProperties DEF SpliceOf
  <1>2. sp.start \in Nat /\ sp.drop \in Int /\ sp.added \in Seq(S)
    BY DEF SpliceOf
  <1>3. PICK f \in Nat, d \in Nat :
          /\ f = Least(sp.start, n) /\ d = Most(sp.drop, 0) /\ f + d <= n
          /\ Least(f + d, n) = f + d
          /\ DOMAIN map = 0 .. n - 1
          /\ \A i \in 0 .. n - 1 : i < f => map[i] = i
          /\ \A i \in 0 .. n - 1 : f <= i /\ i < f + d => map[i] = Gone
          /\ \A i \in 0 .. n - 1 : f + d <= i => map[i] = i + k - d
    <2>1. sp \in SpliceOf(S, n) /\ map = getNewIndices(n, sp).map
      BY <1>1
    <2> HIDE DEF map
    <2>2. \E f, d \in Nat :
            /\ f = Least(sp.start, n) /\ d = Most(sp.drop, 0) /\ f + d <= n
            /\ Least(f + d, n) = f + d
            /\ SpliceMap(map, n, f, d, k)
      BY <1>1, <2>1, NewIndices
    <2>3. QED
      BY <2>2 DEF SpliceMap
  <1>4. DroppedBetween(S, s, sp.added, now, f, f + d)
    <2>1. \E from, to \in Nat :
            /\ from = Least(sp.start, Len(s)) /\ to = Least(from + Most(sp.drop, 0), Len(s))
            /\ DroppedBetween(S, s, sp.added, now, from, to)
      BY <1>2, SplicedElements
    <2> HIDE DEF now
    <2>2. QED
      BY <1>1, <1>3, <2>1
  <1> HIDE DEF map, now
  <1>5. /\ now \in Seq(S) /\ Len(now) = f + k + (n - (f + d))
        /\ \A i \in 1 .. f : now[i] = s[i]
        /\ \A i \in 1 .. k : now[f + i] = sp.added[i]
        /\ \A i \in f + d + 1 .. n : now[f + k + i - (f + d)] = s[i]
    BY <1>1, <1>4 DEF DroppedBetween
  <1>6. PICK m \in Nat : m = Len(now) /\ m = n + k - d
    BY <1>3, <1>5
  <1>a. f + d <= n /\ m = n + k - d
    BY <1>3, <1>6
  <1>7. \A i \in 0 .. n - 1 : map[i] \in (0 .. m - 1) \cup {Gone}
    <2> TAKE i \in 0 .. n - 1
    <2>1. CASE i < f
      <3>1. map[i] = i
        BY <1>3, <2>1
      <3>2. i \in 0 .. m - 1
        BY <1>a, <2>1
      <3>3. QED
        BY <3>1, <3>2
    <2>2. CASE f <= i /\ i < f + d
      BY <1>3, <2>2
    <2>3. CASE f + d <= i
      <3>1. map[i] = i + k - d
        BY <1>3, <2>3
      <3>2. i + k - d \in 0 .. m - 1
        BY <1>a, <2>3
      <3>3. QED
        BY <3>1, <3>2
    <2>4. QED
      BY <2>1, <2>2, <2>3
  <1>8. \A i \in 0 .. n - 1 : map[i] # Gone => i < f \/ f + d <= i
    <2> SUFFICES ASSUME NEW i \in 0 .. n - 1, ~ (i < f), ~ (f + d <= i)
                 PROVE  map[i] = Gone
      OBVIOUS
    <2>1. f <= i /\ i < f + d
      OBVIOUS
    <2>2. QED
      BY <1>3, <2>1
  <1>9. map \in [0 .. n - 1 -> (0 .. m - 1) \cup {Gone}]
    <2>1. map = [i \in 0 .. n - 1 |-> map[i]]
      <3>1. map = [i \in DOMAIN map |-> map[i]]
        BY DEF map, getNewIndices
      <3>2. QED
        BY <1>3, <3>1
    <2>2. QED
      BY <1>7, <2>1
  <1>10. OneToOne(map, n, m)
    <2> SUFFICES ASSUME NEW i \in 0 .. n - 1, NEW j \in 0 .. n - 1, map[i] = map[j], map[i] # Gone
                 PROVE  i = j
      BY <1>9 DEF OneToOne
    <2>1. (i < f \/ f + d <= i) /\ (j < f \/ f + d <= j)
      BY <1>8
    <2>2. CASE i < f /\ j < f
      BY <1>3, <2>2
    <2>3. CASE f + d <= i /\ f + d <= j
      BY <1>3, <2>3
    <2>4. CASE i < f /\ f + d <= j
      BY <1>3, <2>4
    <2>5. CASE f + d <= i /\ j < f
      BY <1>3, <2>5
    <2>6. QED
      BY <2>1, <2>2, <2>3, <2>4, <2>5
  <1>11. \A i \in 0 .. n - 1 : map[i] # Gone => now[map[i] + 1] = s[i + 1]
    <2> SUFFICES ASSUME NEW i \in 0 .. n - 1, map[i] # Gone
                 PROVE  now[map[i] + 1] = s[i + 1]
      OBVIOUS
    <2>1. CASE i < f
      <3>1. map[i] = i
        BY <1>3, <2>1
      <3>2. PICK j \in 1 .. f : j = i + 1
        BY <2>1
      <3>3. now[j] = s[j]
        BY <1>5
      <3>4. QED
        BY <3>1, <3>2, <3>3
    <2>2. CASE f + d <= i
      <3>1. map[i] = i + k - d
        BY <1>3, <2>2
      <3>2. PICK j \in f + d + 1 .. n : j = i + 1
        BY <2>2
      <3>3. now[f + k + j - (f + d)] = s[j]
        BY <1>5
      <3>4. f + k + j - (f + d) = map[i] + 1
        BY <3>1, <3>2
      <3>5. QED
        BY <3>2, <3>3, <3>4
    <2>3. QED
      BY <1>8, <2>1, <2>2
  <1>12. Inserted(now, map) = f + 1 .. f + k
    <2>1. \A p \in 1 .. m : p - 1 \in Kept(map) <=> p \notin f + 1 .. f + k
      <3> TAKE p \in 1 .. m
      <3>1. ASSUME p - 1 \in Kept(map) PROVE p \notin f + 1 .. f + k
        <4>1. PICK i \in 0 .. n - 1 : map[i] = p - 1
          BY <1>3, <3>1 DEF Kept
        <4>2. map[i] # Gone
          BY <4>1 DEF Gone
        <4>3. CASE i < f
          BY <1>3, <4>1, <4>3
        <4>4. CASE f + d <= i
          <5>1. map[i] = i + k - d
            BY <1>3, <4>4
          <5>2. QED
            BY <4>1, <4>4, <5>1
        <4>5. QED
          BY <1>8, <4>2, <4>3, <4>4
      <3>2. ASSUME p \notin f + 1 .. f + k PROVE p - 1 \in Kept(map)
        <4>1. CASE p <= f
          <5>1. PICK i \in 0 .. n - 1 : i = p - 1 /\ i < f
            BY <1>3, <4>1
          <5>2. map[i] = p - 1
            BY <1>3, <5>1
          <5>3. QED
            BY <1>3, <5>2 DEF Kept
        <4>2. CASE f + k < p
          <5>1. PICK i \in 0 .. n - 1 : i = p - 1 - k + d /\ f + d <= i
            <6>1. p - 1 - k + d \in 0 .. n - 1 /\ f + d <= p - 1 - k + d
              BY <1>a, <4>2
            <6>2. QED
              BY <6>1
          <5>2. map[i] = i + k - d
            BY <1>3, <5>1
          <5>3. map[i] = p - 1
            BY <5>1, <5>2
          <5>4. QED
            BY <1>3, <5>3 DEF Kept
        <4>3. QED
          BY <3>2, <4>1, <4>2
      <3>3. QED
        BY <3>1, <3>2
    <2>2. \A p \in f + 1 .. f + k : p \in 1 .. m
      BY <1>a
    <2>3. QED
      BY <1>6, <2>1, <2>2 DEF Inserted
  <1>13. r.inserted = sp.added
    <2>1. f + k <= Len(now)
      BY <1>a, <1>6
    <2>2. r.inserted = Slice(now, f, k)
      <3>1. now \in Seq(S)
        BY <1>5
      <3>2. QED
        BY <1>12, <2>1, <3>1, InsertedInterval
    <2> HIDE DEF r
    <2>3. sp.added = [i \in 1 .. k |-> sp.added[i]]
      BY <1>1, <1>2, LenProperties
    <2>4. [i \in 1 .. k |-> now[f + i]] = [i \in 1 .. k |-> sp.added[i]]
      BY <1>5
    <2>5. QED
      BY <2>2, <2>3, <2>4 DEF Slice
  <1>14. r.deleted = d
    <2>1. Deleted(map) = f .. f + d - 1
      <3>1. \A i \in 0 .. n - 1 : map[i] = Gone => f <= i /\ i < f + d
        <4> TAKE i \in 0 .. n - 1
        <4>1. i < f => map[i] = i
          BY <1>3
        <4>2. f + d <= i => map[i] = i + k - d
          BY <1>3
        <4>3. QED
          BY <4>1, <4>2 DEF Gone
      <3>2. \A i \in f .. f + d - 1 : i \in 0 .. n - 1 /\ map[i] = Gone
        BY <1>3
      <3>3. QED
        BY <1>3, <3>1, <3>2 DEF Deleted
    <2>2. f \in Int /\ f + d - 1 \in Int
      OBVIOUS
    <2>3. Cardinality(f .. f + d - 1) = IF f > f + d - 1 THEN 0 ELSE f + d - 1 - f + 1
      BY <2>2, FS_Interval
    <2>4. Cardinality(f .. f + d - 1) = d
      BY <2>3
    <2>5. QED
      BY <2>1, <2>4, ReportFields
  <1>15. r.start = f \/ (d = 0 /\ k = 0 /\ r.start = n)
    <2> DEFINE moved == {i \in DOMAIN map : map[i] # i}
    <2>1. \A i \in moved : i \in 0 .. n - 1 /\ f <= i
      BY <1>3
    <2>2. CASE moved = {}
      <3>1. r.start = n
        <4>1. r.start = Cardinality(0 .. n - 1)
          BY <1>3, <2>2, ReportFields
        <4>2. Cardinality(0 .. n - 1) = n
          BY FS_Interval
        <4>3. QED
          BY <4>1, <4>2
      <3> HIDE DEF r
      <3>2. CASE f = n
        BY <3>1, <3>2
      <3>3. CASE f # n
        <4>1. f \in 0 .. n - 1
          BY <1>3, <3>3
        <4>2. map[f] = f
          BY <1>3, <2>2, <4>1
        <4>3. d = 0
          <5> SUFFICES ASSUME d # 0 PROVE FALSE
            OBVIOUS
          <5>1. map[f] = Gone
            BY <1>3, <4>1
          <5>2. QED
            BY <4>2, <5>1 DEF Gone
        <4>4. k = 0
          BY <1>3, <4>1, <4>2, <4>3
        <4>5. QED
          BY <3>1, <4>3, <4>4
      <3>4. QED
        BY <3>2, <3>3
    <2>3. CASE moved # {}
      <3>1. r.start = CHOOSE i \in moved : \A j \in moved : i <= j
        BY <2>3, ReportFields
      <3> HIDE DEF r
      <3>2. CASE f \in moved
        <4>1. \A i \in moved : (\A j \in moved : i <= j) => i = f
          BY <2>1, <3>2
        <4>2. \A j \in moved : f <= j
          BY <2>1
        <4> HIDE DEF moved
        <4>3. QED
          BY <3>1, <3>2, <4>1, <4>2
      <3>3. CASE f \notin moved
        <4>1. PICK i \in 0 .. n - 1 : map[i] # i /\ f <= i
          BY <2>1, <2>3
        <4>2. f \in 0 .. n - 1
          BY <4>1
        <4>3. map[f] = f
          BY <1>3, <3>3, <4>2
        <4>4. d = 0
          <5> SUFFICES ASSUME d # 0 PROVE FALSE
            OBVIOUS
          <5>1. map[f] = Gone
            BY <1>3, <4>2
          <5>2. QED
            BY <4>3, <5>1 DEF Gone
        <4>5. k = 0
          BY <1>3, <4>2, <4>3, <4>4
        <4>6. map[i] = i
          <5>1. map[i] = i + k - d
            BY <1>3, <4>1, <4>4
          <5>2. QED
            BY <4>4, <4>5, <5>1
        <4>7. QED
          BY <4>1, <4>6
      <3>4. QED
        BY <3>2, <3>3
    <2>4. QED
      BY <2>2, <2>3
  <1> HIDE DEF r
  <1>16. SplicedSeq(s, r.start, r.deleted, r.inserted) = now
    <2>1. PICK b \in Nat : b = r.start /\ (b = f \/ (d = 0 /\ k = 0 /\ b = n))
      BY <1>15
    <2>2. SplicedSeq(s, b, d, sp.added) = now
      <3>1. CASE b = f
        <4>1. Least(f, n) = f /\ Most(d, 0) = d
          BY <1>3 DEF Least, Most
        <4>2. QED
          BY <1>1, <1>3, <2>1, <3>1, <4>1 DEF SplicedSeq, now
      <3>2. CASE d = 0 /\ k = 0 /\ b = n
        <4>1. sp.added = <<>>
          BY <1>1, <1>2, <3>2, EmptySeq
        <4>2. SplicedSeq(s, n, 0, <<>>) = s
          <5>1. Least(n, n) = n /\ Most(0, 0) = 0 /\ Least(n + 0, n) = n
            BY DEF Least, Most
          <5>2. SplicedSeq(s, n, 0, <<>>) = SubSeq(s, 1, n) \o <<>> \o SubSeq(s, n + 1, n)
            BY <1>1, <5>1 DEF SplicedSeq
          <5>3. SubSeq(s, 1, n) = s
            BY <1>1, SubSeqFull
          <5>4. SubSeq(s, n + 1, n) = <<>>
            BY SubSeqEmpty
          <5>5. QED
            BY <5>2, <5>3, <5>4, ConcatEmptySeq
        <4>3. now = s
          <5>1. Len(now) = n
            BY <1>6, <3>2
          <5>2. \A i \in 1 .. n : now[i] = s[i]
            <6> TAKE i \in 1 .. n
            <6>1. CASE i <= f
              <7>1. i \in 1 .. f
                BY <6>1
              <7>2. QED
                BY <1>5, <7>1
            <6>2. CASE f < i
              <7>1. i \in f + d + 1 .. n /\ f + k + i - (f + d) = i
                BY <3>2, <6>2
              <7>2. now[f + k + i - (f + d)] = s[i]
                BY <1>5, <7>1
              <7>3. QED
                BY <7>1, <7>2
            <6>3. QED
              BY <6>1, <6>2
          <5>3. QED
            BY <1>1, <1>5, <5>1, <5>2, SeqEqual
        <4>4. QED
          BY <3>2, <4>1, <4>2, <4>3
      <3>3. QED
        BY <2>1, <3>1, <3>2
    <2>3. QED
      BY <1>13, <1>14, <2>1, <2>2
  <1>17. QED
    BY <1>1, <1>5, <1>6, <1>10, <1>11, <1>16 DEF r, map, now

-------------------------------------------------------------------------------
\* What a merge says of its elements.

Recursion(f, N, base, F) == f[0] = base /\ \A n \in 1 .. N : f[n] = F[<<f[n - 1], n>>]

\* A recursion on the naturals up to a bound has a function: were it not so up to
\* some bound, one more step could be added below the least such bound.
LEMMA RecursionExists ==
    ASSUME NEW N \in Nat, NEW X, NEW base \in X, NEW F \in [X \X (1 .. N) -> X]
    PROVE  \E f \in [0 .. N -> X] : Recursion(f, N, base, F)
  <1> USE DEF Recursion
  <1> DEFINE Goes(f, n) == f[0] = base /\ \A i \in 1 .. n : f[i] = F[<<f[i - 1], i>>]
             Bad == {n \in 0 .. N : \A f \in [0 .. n -> X] : ~ Goes(f, n)}
  <1>1. ASSUME Bad # {}
        PROVE  FALSE
    <2>1. Bad \in SUBSET (0 .. N)
      OBVIOUS
    <2> HIDE DEF Bad
    <2>2. PICK m \in Bad : \A n \in Bad : m <= n
      BY <1>1, <2>1, LeastMember
    <2>3. m \in 0 .. N /\ \A f \in [0 .. m -> X] : ~ Goes(f, m)
      BY DEF Bad
    <2>4. m # 0
      <3> SUFFICES ASSUME m = 0
                   PROVE  FALSE
        OBVIOUS
      <3> DEFINE f == [i \in 0 .. 0 |-> base]
      <3>1. f \in [0 .. 0 -> X] /\ Goes(f, 0)
        OBVIOUS
      <3> HIDE DEF f, Goes
      <3>2. QED
        BY <2>3, <3>1
    <2>5. m - 1 \in 0 .. N /\ m - 1 \notin Bad /\ m \in 1 .. N
      BY <2>1, <2>2, <2>3, <2>4
    <2>6. PICK f \in [0 .. m - 1 -> X] : Goes(f, m - 1)
      <3> HIDE DEF Goes
      <3>1. QED
        BY <2>5 DEF Bad
    <2>7. F[<<f[m - 1], m>>] \in X
      <3>1. m - 1 \in 0 .. m - 1
        BY <2>5
      <3>2. f[m - 1] \in X
        BY <3>1
      <3>3. QED
        BY <2>5, <3>2
    <2> DEFINE g == [i \in 0 .. m |-> IF i = m THEN F[<<f[m - 1], m>>] ELSE f[i]]
    <2>8. g \in [0 .. m -> X]
      BY <2>5, <2>7
    <2>9. Goes(g, m)
      <3>1. g[0] = base
        BY <2>5, <2>6
      <3>2. ASSUME NEW i \in 1 .. m
            PROVE  g[i] = F[<<g[i - 1], i>>]
        <4>1. i \in 0 .. m /\ i - 1 \in 0 .. m /\ i - 1 # m
          BY <2>5
        <4>2. CASE i = m
          BY <4>1, <4>2
        <4>3. CASE i # m
          <5>1. i \in 1 .. m - 1
            BY <2>5, <4>3
          <5>2. f[i] = F[<<f[i - 1], i>>]
            BY <5>1, <2>6
          <5>3. QED
            BY <4>1, <4>3, <5>2
        <4>4. QED
          BY <4>2, <4>3
      <3> HIDE DEF g
      <3>3. QED
        BY <3>1, <3>2
    <2> HIDE DEF g, Goes
    <2>10. QED
      BY <2>3, <2>8, <2>9
  <1>2. N \notin Bad /\ N \in 0 .. N
    BY <1>1
  <1>3. QED
    BY <1>2

IsPlace(i, item, m, new) == i = Gone \/ (i \in 0 .. m - 1 /\ new[i] = item)

\* What the search for an element finds is that element.
LEMMA PlaceFinds ==
    ASSUME NEW m \in Nat, NEW S, NEW new \in [0 .. m - 1 -> S], NEW item, NEW used,
           NEW firstUnused, NEW length
    PROVE  IsPlace(Place(new, item, used, firstUnused, length), item, m, new)
  <1> USE DEF IsPlace
  <1> DEFINE places  == {i \in DOMAIN new : i >= firstUnused /\ new[i] = item}
             ends    == {i \in places : i \notin used \/ i + 1 >= length}
  <1>1. Place(new, item, used, firstUnused, length) =
          IF ends = {} THEN Gone ELSE CHOOSE i \in ends : \A j \in ends : i <= j
    BY DEF Place
  <1>2. \A i \in ends : i \in 0 .. m - 1 /\ new[i] = item
    OBVIOUS
  <1> HIDE DEF ends
  <1>3. CASE ends = {}
    BY <1>1, <1>3
  <1>4. CASE ends # {}
    <2>1. ends \in SUBSET (0 .. m)
      BY <1>2
    <2>2. \E i \in ends : \A j \in ends : i <= j
      BY <1>4, <2>1, LeastMember
    <2>3. Place(new, item, used, firstUnused, length) \in ends
      BY <1>1, <1>4, <2>2
    <2>4. QED
      BY <1>2, <2>3
  <1>5. QED
    BY <1>3, <1>4

\* The merge has been through: what it has found after each element.
Finding == [map : Seq(Int), used : SUBSET Int, firstUnused : Int]
NothingFound == [map |-> <<>>, used |-> {}, firstUnused |-> 0]

OneMore(now, before, item, m, new) ==
    \E i : IsPlace(i, item, m, new) /\ now.map = Append(before.map, i)

\* One element more.
LEMMA TakingFinds ==
    ASSUME NEW m \in Nat, NEW S, NEW new \in [0 .. m - 1 -> S], NEW item,
           NEW found \in Finding, NEW length
    PROVE  /\ Taking(new, item, found, length) \in Finding
           /\ OneMore(Taking(new, item, found, length), found, item, m, new)
  <1> USE DEF OneMore
  <1>1. PICK i : i = Place(new, item, found.used, found.firstUnused, length)
    OBVIOUS
  <1>2. IsPlace(i, item, m, new)
    BY <1>1, PlaceFinds
  <1>3. i \in Int
    BY <1>2 DEF IsPlace, Gone
  <1>4. Taking(new, item, found, length) =
          [ map         |-> Append(found.map, i),
            used        |-> IF i = Gone THEN found.used ELSE found.used \cup {i},
            firstUnused |-> IF i = found.firstUnused THEN found.firstUnused + 1
                                                     ELSE found.firstUnused ]
    BY <1>1 DEF Taking
  <1>5. /\ Append(found.map, i) \in Seq(Int)
        /\ found.used \cup {i} \in SUBSET Int /\ found.used \in SUBSET Int
        /\ found.firstUnused \in Int /\ found.firstUnused + 1 \in Int
    BY <1>3 DEF Finding
  <1>6. QED
    BY <1>2, <1>4, <1>5 DEF Finding

MergeGoes(found, N, old, new) ==
    /\ found[0] = NothingFound
    /\ \A n \in 1 .. N : found[n] = Taking(new, old[n - 1], found[n - 1], N)

\* The recursion of the merge does what its equation says.
LEMMA MergingGoes ==
    ASSUME NEW N \in Nat, NEW m \in Nat, NEW S, NEW old \in [0 .. N - 1 -> S],
           NEW new \in [0 .. m - 1 -> S], Length(old) = N
    PROVE  MergeGoes(Merging(old, new), N, old, new)
  <1> DEFINE F == [p \in Finding \X (1 .. N) |-> Taking(new, old[p[2] - 1], p[1], N)]
             Goes(f) == f = [n \in 0 .. N |->
                               IF n = 0 THEN NothingFound
                                        ELSE Taking(new, old[n - 1], f[n - 1], N)]
  <1>1. NothingFound \in Finding
    BY EmptySeq DEF NothingFound, Finding
  <1>2. F \in [Finding \X (1 .. N) -> Finding]
    <2>1. ASSUME NEW found \in Finding, NEW item
          PROVE  Taking(new, item, found, N) \in Finding
      BY TakingFinds
    <2>2. QED
      BY <2>1
  <1>3. PICK f \in [0 .. N -> Finding] : Recursion(f, N, NothingFound, F)
    <2> HIDE DEF F
    <2>1. QED
      BY <1>1, <1>2, RecursionExists
  <1>4. Goes(f)
    <2>1. ASSUME NEW n \in 1 .. N
          PROVE  f[n] = Taking(new, old[n - 1], f[n - 1], N)
      <3>1. n - 1 \in 0 .. N
        OBVIOUS
      <3>2. <<f[n - 1], n>> \in Finding \X (1 .. N)
        BY <3>1
      <3>3. F[<<f[n - 1], n>>] = Taking(new, old[n - 1], f[n - 1], N)
        BY <3>2
      <3> HIDE DEF F
      <3>4. QED
        BY <1>3, <3>3 DEF Recursion
    <2>2. \A n \in 0 .. N : f[n] = IF n = 0 THEN NothingFound
                                        ELSE Taking(new, old[n - 1], f[n - 1], N)
      BY <1>3, <2>1 DEF Recursion
    <2>3. QED
      BY <1>3, <2>2
  <1>5. Merging(old, new) = CHOOSE g : Goes(g)
    BY DEF Merging, NothingFound
  <1>6. Goes(Merging(old, new))
    <2> HIDE DEF Goes
    <2>1. QED
      BY <1>4, <1>5
  <1>7. QED
    <2>1. PICK g : g = Merging(old, new)
      OBVIOUS
    <2>2. Goes(g)
      <3> HIDE DEF Goes
      <3>1. QED
        BY <1>6, <2>1
    <2>3. MergeGoes(g, N, old, new)
      BY <2>2 DEF MergeGoes
    <2>4. QED
      BY <2>1, <2>3

\* What has been found after n elements is true of them.
Tells(found, n, m, old, new) ==
    /\ found \in Finding /\ Len(found.map) = n
    /\ \A i \in 1 .. n : \/ found.map[i] = Gone
                         \/ found.map[i] \in 0 .. m - 1 /\ new[found.map[i]] = old[i - 1]

\* What is said of old elements is where they are, or that they have gone.
Truthful(map, N, m, old, new) ==
    /\ map \in [0 .. N - 1 -> (0 .. m - 1) \cup {Gone}]
    /\ \A i \in 0 .. N - 1 : map[i] # Gone => new[map[i]] = old[i]

\* A merge (Model.prototype.merge) says of every old element where it now is, or
\* that it has gone; where it says an element is, that element is.
THEOREM MergeTellsTruth ==
    ASSUME NEW N \in Nat, NEW m \in Nat, NEW S, NEW old \in [0 .. N - 1 -> S],
           NEW new \in [0 .. m - 1 -> S], Length(old) = N
    PROVE  Truthful(merge(old, new).map, N, m, old, new)
  <1>1. PICK found : found = Merging(old, new)
    OBVIOUS
  <1>2. /\ found[0] = NothingFound
        /\ \A n \in 1 .. N : found[n] = Taking(new, old[n - 1], found[n - 1], N)
    <2>1. MergeGoes(found, N, old, new)
      BY <1>1, MergingGoes
    <2>2. QED
      BY <2>1 DEF MergeGoes
  <1> DEFINE Bad == {n \in 0 .. N : ~ Tells(found[n], n, m, old, new)}
  <1>3. ASSUME Bad # {}
        PROVE  FALSE
    <2>1. Bad \in SUBSET (0 .. N)
      OBVIOUS
    <2> HIDE DEF Bad
    <2>2. PICK k \in Bad : \A n \in Bad : k <= n
      BY <1>3, <2>1, LeastMember
    <2>3. k \in 0 .. N /\ ~ Tells(found[k], k, m, old, new)
      BY DEF Bad
    <2>4. k # 0
      <3> SUFFICES Tells(NothingFound, 0, m, old, new)
        BY <1>2, <2>3
      <3>1. NothingFound \in Finding /\ NothingFound.map = <<>>
        BY EmptySeq DEF NothingFound, Finding
      <3>2. QED
        BY <3>1 DEF Tells
    <2>5. k - 1 \in 0 .. N /\ k \in 1 .. N /\ k - 1 \notin Bad
      BY <2>2, <2>3, <2>4, <2>1
    <2>6. PICK before : before = found[k - 1]
      OBVIOUS
    <2>7. Tells(before, k - 1, m, old, new)
      BY <2>5, <2>6 DEF Bad
    <2>8. PICK item : item = old[k - 1]
      OBVIOUS
    <2>9. found[k] = Taking(new, item, before, N)
      BY <1>2, <2>5, <2>6, <2>8
    <2>10. PICK now : now = Taking(new, item, before, N)
      OBVIOUS
    <2>11. PICK j : IsPlace(j, item, m, new) /\ now \in Finding /\ now.map = Append(before.map, j)
      <3>1. before \in Finding
        BY <2>7 DEF Tells
      <3>2. m \in Nat /\ new \in [0 .. m - 1 -> S]
        OBVIOUS
      <3>3. now \in Finding /\ OneMore(now, before, item, m, new)
        BY <2>10, <3>1, <3>2, TakingFinds
      <3>4. QED
        BY <3>3 DEF OneMore
    <2>12. before.map \in Seq(Int) /\ Len(before.map) = k - 1 /\ j \in Int /\ k \in Nat
      BY <2>5, <2>7, <2>11 DEF Tells, Finding, Gone, IsPlace
    <2>13. /\ Len(now.map) = k /\ now.map[k] = j
           /\ \A i \in 1 .. k - 1 : now.map[i] = before.map[i]
      BY <2>11, <2>12
    <2>14. Tells(now, k, m, old, new)
      <3>1. ASSUME NEW i \in 1 .. k
            PROVE  \/ now.map[i] = Gone
                   \/ now.map[i] \in 0 .. m - 1 /\ new[now.map[i]] = old[i - 1]
        <4>1. CASE i = k
          BY <4>1, <2>8, <2>11, <2>13 DEF IsPlace
        <4>2. CASE i # k
          <5>1. i \in 1 .. k - 1
            BY <4>2, <2>12
          <5>2. QED
            BY <5>1, <2>7, <2>13 DEF Tells
        <4>3. QED
          BY <4>1, <4>2
      <3>2. QED
        BY <2>11, <2>13, <3>1 DEF Tells
    <2>15. QED
      BY <2>3, <2>9, <2>10, <2>14
  <1>4. N \notin Bad /\ N \in 0 .. N
    BY <1>3
  <1>5. PICK seq : seq = found[N].map
    OBVIOUS
  <1>6. /\ seq \in Seq(Int) /\ Len(seq) = N
        /\ \A i \in 1 .. N : \/ seq[i] = Gone
                             \/ seq[i] \in 0 .. m - 1 /\ new[seq[i]] = old[i - 1]
    BY <1>4, <1>5 DEF Tells, Finding
  <1>7. merge(old, new).map = AsArray(seq)
    BY <1>1, <1>5 DEF merge
  <1>8. AsArray(seq) = [i \in 0 .. N - 1 |-> seq[i + 1]]
    BY <1>6 DEF AsArray
  <1>9. PICK map : map = AsArray(seq)
    OBVIOUS
  <1>10. ASSUME NEW i \in 0 .. N - 1
         PROVE  map[i] = Gone \/ (map[i] \in 0 .. m - 1 /\ new[map[i]] = old[i])
    <2>1. i + 1 \in 1 .. N /\ (i + 1) - 1 = i
      OBVIOUS
    <2>2. map[i] = seq[i + 1]
      BY <1>8, <1>9
    <2>3. PICK n \in 1 .. N : n = i + 1
      BY <2>1
    <2>4. QED
      BY <1>6, <2>1, <2>2, <2>3
  <1>11. DOMAIN map = 0 .. N - 1 /\ map = [i \in 0 .. N - 1 |-> map[i]]
    BY <1>8, <1>9
  <1>12. map \in [0 .. N - 1 -> (0 .. m - 1) \cup {Gone}]
    BY <1>10, <1>11
  <1>13. QED
    BY <1>7, <1>9, <1>10, <1>12 DEF Truthful

\* If the old array holds no element twice, no two elements go to one place.
LEMMA MergedOneToOne ==
    ASSUME NEW N \in Nat, NEW m \in Nat, NEW S, NEW old \in [0 .. N - 1 -> S],
           NEW new \in [0 .. m - 1 -> S], Length(old) = N,
           \A i, j \in 0 .. N - 1 : old[i] = old[j] => i = j
    PROVE  OneToOne(merge(old, new).map, N, m)
  <1>1. PICK map : map = merge(old, new).map
    OBVIOUS
  <1>2. /\ map \in [0 .. N - 1 -> (0 .. m - 1) \cup {Gone}]
        /\ \A i \in 0 .. N - 1 : map[i] # Gone => new[map[i]] = old[i]
    <2>1. Truthful(merge(old, new).map, N, m, old, new)
      BY MergeTellsTruth
    <2>2. QED
      BY <1>1, <2>1 DEF Truthful
  <1>3. ASSUME NEW i \in 0 .. N - 1, NEW j \in 0 .. N - 1, map[i] = map[j], map[i] # Gone
        PROVE  i = j
    BY <1>2, <1>3
  <1>4. QED
    BY <1>1, <1>2, <1>3 DEF OneToOne

-------------------------------------------------------------------------------
\* A call under way: it queues in a batch of its own, the innermost, inside the
\* batch whose observer is calling if there is one.

IsView(v) == DOMAIN v = {"list", "child", "texts", "indexes", "section", "fragments", "nodes",
                         "batches", "first", "pattern", "mirror"}
Stack(outer, b) == IF outer = <<>> THEN <<b>> ELSE <<outer[1], b>>
CallBatch(q, d) == [immediate : {q}, deferred : {d}, fragments : BOOLEAN, which : {<<>>},
                    deferring : {FALSE}, calling : {None}]
Calling(v, outer, q, d) ==
    IsView(v) /\ \E b \in CallBatch(q, d) : v.batches = Stack(outer, b)
SameData(v, w) == /\ w.list = v.list /\ w.child = v.child
                  /\ w.first = v.first /\ w.pattern = v.pattern /\ w.mirror = v.mirror

\* The batch of the call is the innermost.
LEMMA TopCalling ==
    ASSUME NEW v, NEW outer, NEW q, NEW d, Calling(v, outer, q, d)
    PROVE  Top(v) \in CallBatch(q, d)
  <1>1. PICK b \in CallBatch(q, d) : v.batches = Stack(outer, b)
    BY DEF Calling
  <1>2. v.batches[Len(v.batches)] = b
    BY <1>1 DEF Stack
  <1>3. QED
    BY <1>2 DEF Top

\* It can be replaced.
LEMMA SetTopCalling ==
    ASSUME NEW v, NEW outer, NEW q, NEW d, Calling(v, outer, q, d),
           NEW p, NEW e, NEW c \in CallBatch(p, e)
    PROVE  Calling(SetTop(v, c), outer, p, e) /\ SameData(v, SetTop(v, c))
  <1>1. PICK b \in CallBatch(q, d) : IsView(v) /\ v.batches = Stack(outer, b)
    BY DEF Calling
  <1>2. [v.batches EXCEPT ![Len(v.batches)] = c] = Stack(outer, c)
    BY <1>1 DEF Stack
  <1>3. PICK w : w = SetTop(v, c)
    OBVIOUS
  <1>4. /\ DOMAIN w = DOMAIN v /\ w.batches = Stack(outer, c)
        /\ w.list = v.list /\ w.child = v.child /\ w.first = v.first
        /\ w.pattern = v.pattern /\ w.mirror = v.mirror
    BY <1>1, <1>2, <1>3 DEF SetTop, IsView
  <1>5. QED
    BY <1>1, <1>3, <1>4 DEF Calling, SameData, IsView

\* What leaves the batches alone leaves the call where it is.
LEMMA SameCalling ==
    ASSUME NEW v, NEW outer, NEW q, NEW d, Calling(v, outer, q, d), NEW w,
           DOMAIN w = DOMAIN v, w.batches = v.batches
    PROVE  Calling(w, outer, q, d)
  BY DEF Calling, IsView

\* Queueing an observer that is called at once.
LEMMA QueuedAtOnce ==
    ASSUME NEW v, NEW outer, NEW q, NEW d, Calling(v, outer, q, d), NEW o \in {"first", "pattern"}
    PROVE  /\ Calling(addObserver(v, o), outer, addToArray(q, o), d)
           /\ SameData(v, addObserver(v, o))
  <1>1. Top(v) \in CallBatch(q, d)
    BY TopCalling
  <1>2. PICK c : c = [Top(v) EXCEPT !.immediate = addToArray(@, o)]
    OBVIOUS
  <1>3. PICK p : p = addToArray(q, o)
    OBVIOUS
  <1>4. c \in CallBatch(p, d)
    BY <1>1, <1>2, <1>3 DEF CallBatch
  <1>5. addObserver(v, o) = SetTop(v, c)
    BY <1>2 DEF addObserver, defer
  <1>6. Calling(SetTop(v, c), outer, p, d) /\ SameData(v, SetTop(v, c))
    BY <1>4, SetTopCalling
  <1>7. QED
    BY <1>3, <1>5, <1>6

\* Queueing the array's observer, which asks to be called later.
LEMMA QueuedForLater ==
    ASSUME NEW v, NEW outer, NEW q, NEW d, Calling(v, outer, q, d)
    PROVE  /\ Calling(addObserver(v, "array"), outer, q, addToArray(d, "array"))
           /\ SameData(v, addObserver(v, "array"))
  <1>1. Top(v) \in CallBatch(q, d)
    BY TopCalling
  <1>2. PICK c : c = [Top(v) EXCEPT !.deferred = addToArray(@, "array")]
    OBVIOUS
  <1>3. PICK e : e = addToArray(d, "array")
    OBVIOUS
  <1>4. c \in CallBatch(q, e)
    BY <1>1, <1>2, <1>3 DEF CallBatch
  <1>5. addObserver(v, "array") = SetTop(v, c)
    BY <1>2 DEF addObserver, defer
  <1>6. Calling(SetTop(v, c), outer, q, e) /\ SameData(v, SetTop(v, c))
    BY <1>4, SetTopCalling
  <1>7. QED
    BY <1>3, <1>5, <1>6

\* What is dirty on the page is no matter of the data or the observers.
LEMMA BubbleSectionCalls ==
    ASSUME NEW v, NEW outer, NEW q, NEW d, Calling(v, outer, q, d)
    PROVE  Calling(BubbleSection(v), outer, q, d) /\ SameData(v, BubbleSection(v))
  <1>1. CASE v.section.dirty
    BY <1>1 DEF BubbleSection, SameData
  <1>2. CASE ~ v.section.dirty
    <2>1. PICK u : u = [v EXCEPT !.section.dirty = TRUE]
      OBVIOUS
    <2>2. IsView(v)
      BY DEF Calling
    <2>3. DOMAIN u = DOMAIN v /\ u.batches = v.batches /\ SameData(v, u)
      BY <2>1, <2>2 DEF IsView, SameData
    <2>4. Calling(u, outer, q, d)
      BY <2>3, SameCalling
    <2>5. PICK c : c = [Top(v) EXCEPT !.fragments = TRUE]
      OBVIOUS
    <2>6. c \in CallBatch(q, d)
      <3>1. Top(v) \in CallBatch(q, d)
        BY TopCalling
      <3>2. QED
        BY <2>5, <3>1 DEF CallBatch
    <2>7. BubbleSection(v) = SetTop(u, c)
      BY <1>2, <2>1, <2>5 DEF BubbleSection
    <2>8. Calling(SetTop(u, c), outer, q, d) /\ SameData(u, SetTop(u, c))
      BY <2>4, <2>6, SetTopCalling
    <2>9. QED
      BY <2>3, <2>7, <2>8 DEF SameData
  <1>3. QED
    BY <1>1, <1>2

\* Nor is what is dirty below a place in the list.
LEMMA BubbleListCalls ==
    ASSUME NEW v, NEW outer, NEW q, NEW d, Calling(v, outer, q, d), NEW index
    PROVE  Calling(BubbleList(v, index), outer, q, d) /\ SameData(v, BubbleList(v, index))
  <1>1. PICK u : u = [v EXCEPT !.section.bubbled = @ \cup {index}]
    OBVIOUS
  <1>2. IsView(v)
    BY DEF Calling
  <1>3. DOMAIN u = DOMAIN v /\ u.batches = v.batches /\ SameData(v, u)
    BY <1>1, <1>2 DEF IsView, SameData
  <1>4. BubbleList(v, index) = BubbleSection(u)
    BY <1>1 DEF BubbleList
  <1>5. Calling(BubbleSection(u), outer, q, d) /\ SameData(u, BubbleSection(u))
    <2>1. Calling(u, outer, q, d)
      BY <1>3, SameCalling
    <2>2. QED
      BY <2>1, BubbleSectionCalls
  <1>6. QED
    BY <1>3, <1>4, <1>5 DEF SameData

\* Nor below a model's dependants.
LEMMA BubbleAllCalls ==
    ASSUME NEW v, NEW outer, NEW q, NEW d, Calling(v, outer, q, d), NEW set, NEW part
    PROVE  Calling(BubbleAll(v, set, part), outer, q, d) /\ SameData(v, BubbleAll(v, set, part))
  <1> DEFINE fresh == {f \in set : ~ v.fragments[f].dirty}
             g == [f \in Fragments |->
                     IF f \in set
                     THEN [v.fragments[f] EXCEPT !.parts = @ \cup {part}, !.dirty = TRUE]
                                  ELSE v.fragments[f]]
             b == {v.fragments[f].index : f \in fresh}
             e == [v EXCEPT !.fragments = g]
  <1>1. BubbleAll(v, set, part) = IF fresh = {} THEN e
                                  ELSE BubbleSection([e EXCEPT !.section.bubbled = @ \cup b])
    BY DEF BubbleAll
  <1> HIDE DEF fresh, g, b
  <1>2. IsView(v)
    BY DEF Calling
  <1>3. DOMAIN e = DOMAIN v /\ e.batches = v.batches /\ SameData(v, e)
    BY <1>2 DEF IsView, SameData
  <1> HIDE DEF e
  <1>4. PICK u : u = [e EXCEPT !.section.bubbled = @ \cup b]
    OBVIOUS
  <1>5. DOMAIN u = DOMAIN v /\ u.batches = v.batches /\ SameData(v, u)
    BY <1>2, <1>3, <1>4 DEF IsView, SameData
  <1>6. Calling(e, outer, q, d) /\ Calling(u, outer, q, d)
    BY <1>3, <1>5, SameCalling
  <1>7. Calling(BubbleSection(u), outer, q, d) /\ SameData(u, BubbleSection(u))
    BY <1>6, BubbleSectionCalls
  <1>8. QED
    BY <1>1, <1>3, <1>4, <1>5, <1>6, <1>7 DEF SameData

\* Moving the registrations of the list, and its fragments.
LEMMA RebindCalls ==
    ASSUME NEW v, NEW outer, NEW q, NEW d, Calling(v, outer, q, d), NEW map, NEW unsafe
    PROVE  Calling(Rebind(v, map, unsafe), outer, q, d) /\ SameData(v, Rebind(v, map, unsafe))
  <1>1. PICK t, i, f, s1, s2 :
          Rebind(v, map, unsafe) =
            LET rebound == [v EXCEPT !.texts = t, !.indexes = i, !.fragments = f]
                indexed == BubbleAll(rebound, s1, "index")
            IN IF unsafe THEN BubbleAll(indexed, s2, "text") ELSE indexed
    BY Zenon DEF Rebind
  <1>2. PICK u : u = [v EXCEPT !.texts = t, !.indexes = i, !.fragments = f]
    OBVIOUS
  <1>3. PICK w : w = BubbleAll(u, s1, "index")
    OBVIOUS
  <1>4. PICK z : z = BubbleAll(w, s2, "text")
    OBVIOUS
  <1>5. Rebind(v, map, unsafe) \in {w, z}
    BY <1>1, <1>2, <1>3, <1>4
  <1>6. IsView(v)
    BY DEF Calling
  <1>7. DOMAIN u = DOMAIN v /\ u.batches = v.batches /\ SameData(v, u)
    BY <1>2, <1>6 DEF IsView, SameData
  <1>8. Calling(u, outer, q, d)
    BY <1>7, SameCalling
  <1>9. Calling(w, outer, q, d) /\ SameData(u, w)
    BY <1>3, <1>8, BubbleAllCalls
  <1>10. Calling(z, outer, q, d) /\ SameData(w, z)
    BY <1>4, <1>9, BubbleAllCalls
  <1>11. SameData(v, w) /\ SameData(v, z)
    BY <1>7, <1>9, <1>10 DEF SameData
  <1>12. QED
    BY <1>5, <1>9, <1>10, <1>11

\* The section notes the shuffle and moves its iterations.
LEMMA ShuffleListCalls ==
    ASSUME NEW v, NEW outer, NEW q, NEW d, Calling(v, outer, q, d), NEW new
    PROVE  Calling(ShuffleList(v, new), outer, q, d) /\ SameData(v, ShuffleList(v, new))
  <1>1. PICK p, r, i, f :
          ShuffleList(v, new) =
            BubbleList([v EXCEPT !.section.previous = p, !.section.pending = r,
                                 !.section.iterations = i, !.fragments = f], None)
    BY Zenon DEF ShuffleList
  <1>2. PICK u : u = [v EXCEPT !.section.previous = p, !.section.pending = r,
                               !.section.iterations = i, !.fragments = f]
    OBVIOUS
  <1>3. IsView(v)
    BY DEF Calling
  <1>4. DOMAIN u = DOMAIN v /\ u.batches = v.batches /\ SameData(v, u)
    BY <1>2, <1>3 DEF IsView, SameData
  <1>5. Calling(u, outer, q, d)
    BY <1>4, SameCalling
  <1>6. Calling(BubbleList(u, None), outer, q, d) /\ SameData(u, BubbleList(u, None))
    BY <1>5, BubbleListCalls
  <1>7. QED
    BY <1>1, <1>2, <1>4, <1>6 DEF SameData

-------------------------------------------------------------------------------
\* What a call leaves alone: most of a call changes neither the data nor what
\* the array's observer keeps, and queues no more than the pattern observer.

OpenBatch == [immediate : Seq({"pattern"}), deferred : {<<>>, <<"array">>}, fragments : BOOLEAN,
              which : {<<>>}, deferring : {FALSE}, calling : {None}]
Open(v) == IsView(v) /\ \E b \in OpenBatch : v.batches = <<b>>
Carries(v, w) == /\ Open(w) /\ w.list = v.list /\ w.mirror = v.mirror
                 /\ Top(w).deferred = Top(v).deferred

\* One step that carries after another carries.
LEMMA CarriesTransitive ==
    ASSUME NEW u, NEW v, NEW w, Carries(u, v), Carries(v, w)
    PROVE  Carries(u, w)
  BY DEF Carries

\* What changes none of the three carries.
LEMMA SameCarries ==
    ASSUME NEW v, Open(v), NEW w, DOMAIN w = DOMAIN v, w.list = v.list, w.mirror = v.mirror,
           w.batches = v.batches
    PROVE  Carries(v, w)
  BY DEF Carries, Open, IsView, Top

\* An open call is in one batch.
LEMMA TopOpen ==
    ASSUME NEW v, Open(v)
    PROVE  Top(v) \in OpenBatch /\ v.batches = <<Top(v)>> /\ Len(v.batches) = 1 /\ IsView(v)
  BY DEF Open, Top

\* It is a call under way, inside no other.
LEMMA OpenCalls ==
    ASSUME NEW v, Open(v)
    PROVE  /\ Top(v).deferred \in {<<>>, <<"array">>}
           /\ \E q \in Seq({"pattern"}) : Calling(v, <<>>, q, Top(v).deferred)
  <1>1. PICK b : b = Top(v)
    OBVIOUS
  <1>2. b \in OpenBatch /\ v.batches = <<b>> /\ IsView(v)
    BY <1>1, TopOpen
  <1>3. b \in CallBatch(b.immediate, b.deferred)
    BY <1>2 DEF OpenBatch, CallBatch
  <1>4. Calling(v, <<>>, b.immediate, b.deferred)
    BY <1>2, <1>3 DEF Calling, Stack
  <1>5. QED
    BY <1>1, <1>2, <1>4 DEF OpenBatch

\* And one that queues no more than the pattern observer is open.
LEMMA CallsOpen ==
    ASSUME NEW v, NEW q \in Seq({"pattern"}), NEW d \in {<<>>, <<"array">>}, Calling(v, <<>>, q, d)
    PROVE  Open(v) /\ Top(v).deferred = d
  <1>1. PICK b \in CallBatch(q, d) : IsView(v) /\ v.batches = <<b>>
    BY DEF Calling, Stack
  <1>2. b \in OpenBatch /\ b.deferred = d
    BY DEF CallBatch, OpenBatch
  <1>3. QED
    BY <1>1, <1>2 DEF Open, Top

\* Queueing the pattern observer, which is called at once, queues nothing deferred.
LEMMA PatternQueued ==
    ASSUME NEW v, Open(v)
    PROVE  Carries(v, addObserver(v, "pattern"))
  <1>1. PICK q \in Seq({"pattern"}) : Calling(v, <<>>, q, Top(v).deferred)
    BY OpenCalls
  <1>2. PICK w, d : w = addObserver(v, "pattern") /\ d = Top(v).deferred
    OBVIOUS
  <1>3. d \in {<<>>, <<"array">>}
    BY <1>2, OpenCalls
  <1>4. addToArray(q, "pattern") \in Seq({"pattern"})
    BY DEF addToArray
  <1>5. Calling(w, <<>>, addToArray(q, "pattern"), d) /\ SameData(v, w)
    BY <1>1, <1>2, QueuedAtOnce
  <1>6. Open(w) /\ Top(w).deferred = d
    BY <1>3, <1>4, <1>5, CallsOpen
  <1>7. QED
    BY <1>2, <1>5, <1>6 DEF Carries, SameData

\* Queueing the array's observer, which asks to be called later.
LEMMA ArrayQueued ==
    ASSUME NEW v, Open(v)
    PROVE  LET w == addObserver(v, "array") IN
           Open(w) /\ w.list = v.list /\ w.mirror = v.mirror /\ Top(w).deferred = <<"array">>
  <1>1. PICK q \in Seq({"pattern"}) : Calling(v, <<>>, q, Top(v).deferred)
    BY OpenCalls
  <1>2. PICK w, d : w = addObserver(v, "array") /\ d = Top(v).deferred
    OBVIOUS
  <1>3. addToArray(d, "array") = <<"array">>
    <2>1. CASE d = <<>>
      BY <2>1 DEF addToArray, Contains
    <2>2. CASE d = <<"array">>
      BY <2>2 DEF addToArray, Contains
    <2>3. QED
      BY <1>2, <2>1, <2>2, OpenCalls
  <1>4. Calling(w, <<>>, q, <<"array">>) /\ SameData(v, w)
    <2>1. Calling(w, <<>>, q, addToArray(d, "array")) /\ SameData(v, w)
      BY <1>1, <1>2, QueuedForLater
    <2>2. QED
      BY <1>3, <2>1
  <1>5. Open(w) /\ Top(w).deferred = <<"array">>
    BY <1>4, CallsOpen
  <1>6. QED
    BY <1>2, <1>4, <1>5 DEF SameData

\* What a call under way does to the page carries.
LEMMA CallsCarry ==
    ASSUME NEW v, Open(v), NEW w, SameData(v, w),
           \A q : Calling(v, <<>>, q, Top(v).deferred) => Calling(w, <<>>, q, Top(v).deferred)
    PROVE  Carries(v, w)
  <1>1. PICK q \in Seq({"pattern"}) : Calling(v, <<>>, q, Top(v).deferred)
    BY OpenCalls
  <1>2. PICK d \in {<<>>, <<"array">>} : d = Top(v).deferred
    BY OpenCalls
  <1>3. Calling(w, <<>>, q, d)
    BY <1>1, <1>2
  <1>4. Open(w) /\ Top(w).deferred = d
    BY <1>3, CallsOpen
  <1>5. QED
    BY <1>2, <1>4 DEF Carries, SameData

\* Such are the notes of what is dirty in the section.
LEMMA BubbleSectionCarries ==
    ASSUME NEW v, Open(v)
    PROVE  Carries(v, BubbleSection(v))
  <1>1. PICK w : w = BubbleSection(v)
    OBVIOUS
  <1>2. \A q, d : Calling(v, <<>>, q, d) => Calling(w, <<>>, q, d) /\ SameData(v, w)
    BY <1>1, BubbleSectionCalls
  <1>3. QED
    BY <1>1, <1>2, OpenCalls, CallsCarry

\* Nor what is dirty below a model's dependants.
LEMMA BubbleAllCarries ==
    ASSUME NEW v, Open(v), NEW set, NEW part
    PROVE  Carries(v, BubbleAll(v, set, part))
  <1>1. PICK w : w = BubbleAll(v, set, part)
    OBVIOUS
  <1>2. \A q, d : Calling(v, <<>>, q, d) => Calling(w, <<>>, q, d) /\ SameData(v, w)
    BY <1>1, BubbleAllCalls
  <1>3. QED
    BY <1>1, <1>2, OpenCalls, CallsCarry

\* Moving registrations.
LEMMA RebindCarries ==
    ASSUME NEW v, Open(v), NEW map, NEW unsafe
    PROVE  Carries(v, Rebind(v, map, unsafe))
  <1>1. PICK w : w = Rebind(v, map, unsafe)
    OBVIOUS
  <1>2. \A q, d : Calling(v, <<>>, q, d) => Calling(w, <<>>, q, d) /\ SameData(v, w)
    BY <1>1, RebindCalls
  <1>3. QED
    BY <1>1, <1>2, OpenCalls, CallsCarry

\* And moving fragments.
LEMMA ShuffleListCarries ==
    ASSUME NEW v, Open(v), NEW new
    PROVE  Carries(v, ShuffleList(v, new))
  <1>1. PICK w : w = ShuffleList(v, new)
    OBVIOUS
  <1>2. \A q, d : Calling(v, <<>>, q, d) => Calling(w, <<>>, q, d) /\ SameData(v, w)
    BY <1>1, ShuffleListCalls
  <1>3. QED
    BY <1>1, <1>2, OpenCalls, CallsCarry

\* The pattern observer: what it is told, and when it is queued.
LEMMA PatternNotifiedCarries ==
    ASSUME NEW v, Open(v), NEW keys
    PROVE  Carries(v, PatternNotified(v, keys))
  <1> DEFINE u == [v EXCEPT !.pattern.changed = @ \cup keys]
  <1>1. IsView(v)
    BY TopOpen
  <1>2. DOMAIN u = DOMAIN v /\ u.list = v.list /\ u.mirror = v.mirror /\ u.batches = v.batches
    BY <1>1 DEF IsView
  <1>3. PatternNotified(v, keys) = IF "pattern" \in watching THEN u ELSE v
    BY DEF PatternNotified
  <1> HIDE DEF u
  <1>4. Carries(v, u) /\ Carries(v, v)
    BY <1>2, SameCarries
  <1>5. QED
    BY <1>3, <1>4

\* The pattern observer looks at what it was notified of.
LEMMA PatternChangedCarries ==
    ASSUME NEW v, Open(v)
    PROVE  Carries(v, PatternChanged(v))
  <1>1. PICK skip, dirty :
          PatternChanged(v) = IF skip THEN v
                              ELSE addObserver([v EXCEPT !.pattern = dirty], "pattern")
    BY Zenon DEF PatternChanged
  <1> DEFINE u == [v EXCEPT !.pattern = dirty]
  <1>2. IsView(v)
    BY TopOpen
  <1>3. DOMAIN u = DOMAIN v /\ u.list = v.list /\ u.mirror = v.mirror /\ u.batches = v.batches
    BY <1>2 DEF IsView
  <1> HIDE DEF u
  <1>4. Carries(v, u) /\ Carries(v, v)
    BY <1>3, SameCarries
  <1>5. Carries(v, addObserver(u, "pattern"))
    <2>1. Open(u)
      BY <1>4 DEF Carries
    <2>2. QED
      BY <1>4, <2>1, PatternQueued, CarriesTransitive
  <1>6. QED
    BY <1>1, <1>4, <1>5 DEF u

-------------------------------------------------------------------------------
\* The array's observer.

Content(value) == IF value = Absent THEN <<>> ELSE AsSeq(value)
AllGone(m) == GoneMap(Len(m.sliced))
Noted(m, value, map) ==
    [m EXCEPT !.sliced = Content(value), !.pending = Report(Content(value), map)]

\* The array's observer notes what is there and the report of the shuffle.
LEMMA ArrayShuffledNotes ==
    ASSUME NEW v, Open(v), NEW map, "array" \in watching
    PROVE  LET w == ArrayShuffled(v, map) IN
           /\ Open(w) /\ w.list = v.list /\ Top(w).deferred = Top(v).deferred
           /\ w.mirror = Noted(v.mirror, v.list, map)
  <1> DEFINE r == Report(Content(v.list), map)
             u == [v EXCEPT !.mirror.sliced = Content(v.list), !.mirror.pending = r]
  <1>1. ArrayShuffled(v, map) = u
    BY DEF ArrayShuffled, Content, Report
  <1>2. u.mirror = Noted(v.mirror, v.list, map)
    <2>1. IsView(v)
      BY TopOpen
    <2> HIDE DEF r
    <2>2. u.mirror = [v.mirror EXCEPT !.sliced = Content(v.list), !.pending = r]
      BY <2>1 DEF IsView
    <2>3. QED
      BY <2>2 DEF Noted, r
  <1>3. IsView(u) /\ u.list = v.list /\ u.batches = v.batches
    <2> HIDE DEF r
    <2>1. IsView(v)
      BY TopOpen
    <2>2. QED
      BY <2>1 DEF IsView
  <1> HIDE DEF u
  <1>4. Open(u) /\ Top(u).deferred = Top(v).deferred
    BY <1>3 DEF Open, Top
  <1>5. QED
    BY <1>1, <1>2, <1>3, <1>4

\* After the array has been marked there is something to tell: what a shuffle
\* has noted, or that everything has gone.
LEMMA ArrayChangedNotes ==
    ASSUME NEW v, Open(v), "array" \in watching, NEW path
    PROVE  LET w == ArrayChanged(v, path) IN
           /\ Open(w) /\ w.list = v.list
           /\ v.mirror.pending # None => w.mirror = v.mirror /\ Top(w).deferred = <<"array">>
           /\ v.mirror.pending = None /\ path # None => w = v
           /\ v.mirror.pending = None /\ path = None =>
                /\ w.mirror = Noted(v.mirror, v.list, AllGone(v.mirror))
                /\ Top(w).deferred = <<"array">>
  <1> DEFINE all == ArrayShuffled(v, AllGone(v.mirror))
             w == ArrayChanged(v, path)
  <1>1. CASE v.mirror.pending # None
    <2>1. w = addObserver(v, "array")
      BY <1>1 DEF ArrayChanged
    <2> HIDE DEF w
    <2>2. QED
      BY <1>1, <2>1, ArrayQueued DEF w
  <1>2. CASE v.mirror.pending = None /\ path # None
    <2>1. w = v
      BY <1>2 DEF ArrayChanged
    <2>2. QED
      BY <1>2, <2>1
  <1>3. CASE v.mirror.pending = None /\ path = None
    <2>1. w = addObserver(all, "array")
      BY <1>3 DEF ArrayChanged, AllGone, GoneMap
    <2>2. Open(all) /\ all.list = v.list /\ all.mirror = Noted(v.mirror, v.list, AllGone(v.mirror))
      BY ArrayShuffledNotes
    <2> HIDE DEF w, all
    <2>3. QED
      BY <1>3, <2>1, <2>2, ArrayQueued DEF w
  <1>4. QED
    BY <1>1, <1>2, <1>3

-------------------------------------------------------------------------------
\* What a call makes of the data and of the array's observer.

\* Marking the array queues its observer, which notes that all has gone when it
\* has nothing else to tell.
LEMMA MarkNotes ==
    ASSUME NEW v, Open(v), "array" \in watching, "first" \notin watching
    PROVE  LET w == mark(v) IN
           /\ Open(w) /\ w.list = v.list /\ Top(w).deferred = <<"array">>
           /\ v.mirror.pending # None => w.mirror = v.mirror
           /\ v.mirror.pending = None => w.mirror = Noted(v.mirror, v.list, AllGone(v.mirror))
  <1> DEFINE now == [k \in Keys |-> retrieve(v, k)]
             changed == {k \in Keys : now[k] # v.child[k]}
             set == UNION {v.texts[k] : k \in changed}
             u == [v EXCEPT !.child = now]
             marked == BubbleAll(u, set, "text")
             bubbled == BubbleSection(marked)
             patterned == PatternChanged(bubbled)
  <1>1. mark(v) = ArrayChanged(patterned, None)
    BY DEF mark, FirstChanged
  <1> HIDE DEF now, changed, set
  <1>2. Carries(v, u)
    <2>1. IsView(v)
      BY TopOpen
    <2>2. DOMAIN u = DOMAIN v /\ u.list = v.list /\ u.mirror = v.mirror /\ u.batches = v.batches
      BY <2>1 DEF IsView
    <2> HIDE DEF u
    <2>3. QED
      BY <2>2, SameCarries
  <1> HIDE DEF u
  <1>3. Carries(v, marked)
    <2>1. Open(u)
      BY <1>2 DEF Carries
    <2>2. QED
      BY <1>2, <2>1, BubbleAllCarries, CarriesTransitive
  <1> HIDE DEF marked
  <1>4. Carries(v, bubbled)
    <2>1. Open(marked)
      BY <1>3 DEF Carries
    <2>2. QED
      BY <1>3, <2>1, BubbleSectionCarries, CarriesTransitive
  <1> HIDE DEF bubbled
  <1>5. Carries(v, patterned)
    <2>1. Open(bubbled)
      BY <1>4 DEF Carries
    <2>2. QED
      BY <1>4, <2>1, PatternChangedCarries, CarriesTransitive
  <1> HIDE DEF patterned
  <1>6. Open(patterned) /\ patterned.list = v.list /\ patterned.mirror = v.mirror
    BY <1>5 DEF Carries
  <1> DEFINE w == ArrayChanged(patterned, None)
  <1>7. /\ Open(w) /\ w.list = patterned.list
        /\ patterned.mirror.pending # None =>
             w.mirror = patterned.mirror /\ Top(w).deferred = <<"array">>
        /\ patterned.mirror.pending = None =>
             /\ w.mirror = Noted(patterned.mirror, patterned.list, AllGone(patterned.mirror))
             /\ Top(w).deferred = <<"array">>
    BY <1>6, ArrayChangedNotes
  <1> HIDE DEF w
  <1>8. QED
    BY <1>1, <1>6, <1>7 DEF w

\* A shuffle leaves its own report to tell, not the one that marking would make.
LEMMA ShuffleNotes ==
    ASSUME NEW v, Open(v), "array" \in watching, "first" \notin watching, NEW new, NEW unsafe,
           Report(Content(v.list), new.map) # None, "pending" \in DOMAIN v.mirror
    PROVE  LET w == shuffle(v, new, unsafe) IN
           /\ Open(w) /\ w.list = v.list /\ Top(w).deferred = <<"array">>
           /\ w.mirror = Noted(v.mirror, v.list, new.map)
  <1> DEFINE rebound  == Rebind(v, new.map, unsafe)
             listed   == ShuffleList(rebound, new)
             told     == PatternShuffled(listed, new)
             shuffled == ArrayShuffled(told, new.map)
             marked   == mark(shuffled)
  <1>1. PICK t, i : shuffle(v, new, unsafe) = [marked EXCEPT !.texts = t, !.indexes = i]
    BY Zenon DEF shuffle
  <1>2. Carries(v, rebound)
    BY RebindCarries
  <1> HIDE DEF rebound
  <1>3. Carries(v, listed)
    <2>1. Open(rebound)
      BY <1>2 DEF Carries
    <2>2. QED
      BY <1>2, <2>1, ShuffleListCarries, CarriesTransitive
  <1> HIDE DEF listed
  <1>4. Carries(v, told)
    <2>1. Open(listed)
      BY <1>3 DEF Carries
    <2>2. PICK keys : told = PatternNotified(listed, keys)
      BY DEF PatternShuffled
    <2> HIDE DEF told
    <2>3. QED
      BY <1>3, <2>1, <2>2, PatternNotifiedCarries, CarriesTransitive
  <1> HIDE DEF told
  <1>5. Open(told) /\ told.list = v.list /\ told.mirror = v.mirror
    BY <1>4 DEF Carries
  <1>6. /\ Open(shuffled) /\ shuffled.list = v.list
        /\ shuffled.mirror = Noted(v.mirror, v.list, new.map)
    BY <1>5, ArrayShuffledNotes
  <1> HIDE DEF shuffled
  <1>7. shuffled.mirror.pending # None
    BY <1>6 DEF Noted
  <1>8. Open(marked) /\ marked.list = v.list /\ Top(marked).deferred = <<"array">>
        /\ marked.mirror = Noted(v.mirror, v.list, new.map)
    BY <1>6, <1>7, MarkNotes
  <1> HIDE DEF marked
  <1> DEFINE w == [marked EXCEPT !.texts = t, !.indexes = i]
  <1>9. /\ DOMAIN w = DOMAIN marked /\ w.list = marked.list /\ w.mirror = marked.mirror
        /\ w.batches = marked.batches
    <2>1. IsView(marked)
      BY <1>8, TopOpen
    <2>2. QED
      BY <2>1 DEF IsView
  <1> HIDE DEF w
  <1>10. Carries(marked, w)
    BY <1>8, <1>9, SameCarries
  <1>11. QED
    BY <1>1, <1>8, <1>10 DEF w, Carries

\* The observer's copy, with what is pending replayed on it.
Mirrors == [pending : Reports \cup {None}, sliced : Seq(Items), told : Seq(Items)]
Heard(m) == IF m.pending = None THEN m.told
            ELSE SplicedSeq(m.told, m.pending.start, m.pending.deleted, m.pending.inserted)
Follows(m, value) ==
    /\ m \in Mirrors /\ Heard(m) \in Seq(Items)
    /\ Len(Heard(m)) <= Len(m.sliced) /\ Len(m.sliced) <= Len(Content(value))

\* A list as a sequence.
LEMMA ContentType ==
    ASSUME NEW value \in Lists
    PROVE  /\ Content(value) \in Seq(Items) /\ Len(Content(value)) \in 0 .. MaxLength
           /\ value # Absent => /\ value \in [0 .. Len(Content(value)) - 1 -> Items]
                                /\ value \in Arrays
                                /\ Length(value) = Len(Content(value))
                                /\ DOMAIN value = 0 .. Len(Content(value)) - 1
  <1>1. MaxLength \in Nat
    BY BoundAssumption
  <1>2. CASE value = Absent
    <2>1. <<>> \in Seq(Items) /\ Len(<<>>) = 0
      BY EmptySeq
    <2>2. QED
      BY <1>1, <1>2, <2>1 DEF Content
  <1>3. CASE value # Absent
    <2>1. PICK n \in 0 .. MaxLength : value \in [0 .. n - 1 -> Items]
      BY <1>3 DEF Lists, Arrays
    <2>2. n \in Nat
      BY <1>1
    <2>3. AsSeq(value) \in Seq(Items) /\ Len(AsSeq(value)) = n /\ Length(value) = n
      BY <2>1, <2>2, ArrayAsSeq
    <2>4. QED
      BY <1>3, <2>1, <2>3 DEF Content, Lists
  <1>4. QED
    BY <1>2, <1>3

\* A report is not undefined.
LEMMA ReportsType == [deleted : Nat, inserted : Seq(Items), start : Nat] = Reports
                     /\ None \notin Reports
  BY DistinctAssumption DEF Reports

\* Everything replaced, the copy is what there is.
LEMMA AllGoneFollows ==
    ASSUME NEW m, NEW old, Follows(m, old), m.pending = None, NEW value \in Lists
    PROVE  LET w == Noted(m, value, AllGone(m)) IN
           Follows(w, value) /\ w.pending # None /\ Heard(w) = Content(value)
  <1> DEFINE w == Noted(m, value, AllGone(m))
             now == Content(value)
             r == Report(now, AllGone(m))
  <1>1. m \in Mirrors /\ m.told \in Seq(Items) /\ m.sliced \in Seq(Items)
        /\ Len(m.told) <= Len(m.sliced)
    BY DEF Follows, Mirrors, Heard
  <1>2. now \in Seq(Items) /\ Len(now) \in Nat /\ Len(m.sliced) \in Nat
    BY <1>1, ContentType, LenProperties
  <1>3. r \in Reports /\ SplicedSeq(m.told, r.start, r.deleted, r.inserted) = now
    <2> HIDE DEF now
    <2>1. /\ r \in [deleted : Nat, inserted : Seq(Items), start : Nat]
          /\ SplicedSeq(m.told, r.start, r.deleted, r.inserted) = now
      <3>1. PICK n \in Nat : n = Len(m.sliced) /\ Len(m.told) <= n
        BY <1>1, <1>2
      <3>2. AllGone(m) = GoneMap(n)
        BY <3>1 DEF AllGone
      <3>3. now \in Seq(Items) /\ m.told \in Seq(Items)
        BY <1>1, <1>2
      <3>4. LET q == Report(now, GoneMap(n)) IN
            /\ q \in [deleted : Nat, inserted : Seq(Items), start : Nat]
            /\ SplicedSeq(m.told, q.start, q.deleted, q.inserted) = now
        BY <3>1, <3>3, AllGoneReplaces
      <3>5. QED
        BY <3>2, <3>4
    <2>2. QED
      BY <2>1 DEF Reports
  <1> HIDE DEF r
  <1>4. w = [m EXCEPT !.sliced = now, !.pending = r]
    BY DEF Noted, r
  <1> HIDE DEF w, now
  <1>5. w \in Mirrors /\ w.sliced = now /\ w.pending = r /\ w.told = m.told
    BY <1>1, <1>2, <1>3, <1>4 DEF Mirrors
  <1>6. r # None
    BY <1>3, ReportsType
  <1>7. Heard(w) = now
    BY <1>3, <1>5, <1>6 DEF Heard
  <1>8. QED
    BY <1>2, <1>5, <1>6, <1>7 DEF Follows, w, now

\* Told where the elements went, the copy stays no longer than what there is.
LEMMA OneToOneFollows ==
    ASSUME NEW m, NEW old, Follows(m, old), m.pending = None, NEW value \in Lists, NEW map,
           Len(Content(old)) \in Nat,
           OneToOne(map, Len(Content(old)), Len(Content(value)))
    PROVE  LET w == Noted(m, value, map) IN
           /\ Follows(w, value) /\ w.pending # None /\ w.pending = Report(Content(value), map)
           /\ w.told = m.told
  <1> DEFINE w == Noted(m, value, map)
             now == Content(value)
             r == Report(now, map)
             heard == SplicedSeq(m.told, r.start, r.deleted, r.inserted)
  <1>1. m \in Mirrors /\ m.told \in Seq(Items) /\ m.sliced \in Seq(Items)
        /\ Len(m.told) <= Len(m.sliced) /\ Len(m.sliced) <= Len(Content(old))
    BY DEF Follows, Mirrors, Heard
  <1>2. now \in Seq(Items) /\ Len(now) \in Nat /\ Len(m.told) \in Nat /\ Len(m.sliced) \in Nat
    BY <1>1, ContentType, LenProperties
  <1>3. r \in Reports /\ heard \in Seq(Items) /\ Len(heard) <= Len(now)
    <2>1. Len(m.told) <= Len(Content(old))
      BY <1>1, <1>2
    <2> HIDE DEF now
    <2>2. /\ r \in [deleted : Nat, inserted : Seq(Items), start : Nat]
          /\ heard \in Seq(Items) /\ Len(heard) <= Len(now)
      BY <1>1, <1>2, <2>1, ReportLength DEF now
    <2>3. QED
      BY <2>2 DEF Reports
  <1> HIDE DEF r
  <1>4. w = [m EXCEPT !.sliced = now, !.pending = r]
    BY DEF Noted, r
  <1> HIDE DEF w, now
  <1>5. w \in Mirrors /\ w.sliced = now /\ w.pending = r /\ w.told = m.told
    BY <1>1, <1>2, <1>3, <1>4 DEF Mirrors
  <1>6. r # None
    BY <1>3, ReportsType
  <1>7. Heard(w) = heard
    BY <1>5, <1>6 DEF Heard
  <1> HIDE DEF heard
  <1>8. QED
    BY <1>2, <1>3, <1>5, <1>6, <1>7 DEF Follows, w, now, r

\* A call begins with nothing to tell, and leaves a copy that follows the data:
\* the same, unless elements have been set one by one.
Ready(v) == /\ Open(v) /\ v.list \in Lists /\ v.mirror.pending = None
            /\ Top(v).deferred = <<>> /\ Follows(v.mirror, v.list)
Called(w, set) ==
    /\ Open(w) /\ w.list \in Lists /\ Follows(w.mirror, w.list)
    /\ w.mirror.pending # None <=> Top(w).deferred = <<"array">>
    /\ ~ set => Heard(w.mirror) = Content(w.list)

\* Setting the data is no matter of the observers.
LEMMA ListSet ==
    ASSUME NEW v, Open(v), NEW value
    PROVE  LET u == [v EXCEPT !.list = value] IN
           Open(u) /\ u.list = value /\ u.mirror = v.mirror /\ Top(u).deferred = Top(v).deferred
  <1> DEFINE u == [v EXCEPT !.list = value]
  <1>1. IsView(v) /\ v.batches = <<Top(v)>> /\ Top(v) \in OpenBatch
    BY TopOpen
  <1>2. /\ DOMAIN u = DOMAIN v /\ u.list = value /\ u.mirror = v.mirror
        /\ u.batches = v.batches
    BY <1>1 DEF IsView
  <1> HIDE DEF u
  <1>3. QED
    BY <1>1, <1>2 DEF Open, Top, IsView, u

\* The list set as a whole.
LEMMA ValueCalled ==
    ASSUME NEW v, Ready(v), NEW value \in Lists, "array" \in watching, "first" \notin watching
    PROVE  /\ Called(applyValue(v, value), FALSE) /\ applyValue(v, value).list = value
           /\ value # Absent => applyValue(v, value).mirror.pending # None
  <1>1. CASE value = Absent /\ v.list = Absent
    <2>1. applyValue(v, value) = v
      BY <1>1 DEF applyValue
    <2>2. Heard(v.mirror) = <<>>
      <3>1. /\ Heard(v.mirror) \in Seq(Items) /\ Len(Heard(v.mirror)) <= Len(v.mirror.sliced)
            /\ Len(v.mirror.sliced) <= Len(Content(v.list)) /\ v.mirror.sliced \in Seq(Items)
        BY DEF Ready, Follows, Mirrors
      <3>2. Len(Content(v.list)) = 0
        BY <1>1, EmptySeq DEF Content
      <3>3. Len(Heard(v.mirror)) \in Nat /\ Len(v.mirror.sliced) \in Nat
        BY <3>1, LenProperties
      <3>4. Len(Heard(v.mirror)) = 0
        BY <3>1, <3>2, <3>3
      <3>5. QED
        BY <3>1, <3>4, EmptySeq
    <2>3. QED
      BY <1>1, <2>1, <2>2 DEF Ready, Called, Content
  <1>2. CASE ~ (value = Absent /\ v.list = Absent)
    <2> DEFINE u == [v EXCEPT !.list = value]
               w == mark(u)
    <2>1. applyValue(v, value) = w
      BY <1>2 DEF applyValue
    <2>2. Open(u) /\ u.list = value /\ u.mirror = v.mirror
      BY ListSet DEF Ready
    <2> HIDE DEF u
    <2>3. /\ Open(w) /\ w.list = value /\ Top(w).deferred = <<"array">>
          /\ w.mirror = Noted(v.mirror, value, AllGone(v.mirror))
      BY <2>2, MarkNotes DEF Ready
    <2> HIDE DEF w
    <2>4. Follows(w.mirror, value) /\ w.mirror.pending # None /\ Heard(w.mirror) = Content(value)
      <3>1. Follows(v.mirror, v.list) /\ v.mirror.pending = None
        BY DEF Ready
      <3>2. LET m == Noted(v.mirror, value, AllGone(v.mirror)) IN
            Follows(m, value) /\ m.pending # None /\ Heard(m) = Content(value)
        BY <3>1, AllGoneFollows
      <3>3. QED
        BY <2>3, <3>2
    <2>5. QED
      BY <2>1, <2>3, <2>4 DEF Called
  <1>3. QED
    BY <1>1, <1>2

\* The list changed in place, and shuffled.
WithList(v, value) == [v EXCEPT !.list = value]
Shuffled(w, v, value, map) ==
    LET r == Report(Content(value), map) IN
    /\ Called(w, TRUE) /\ w.list = value
    /\ Heard(w.mirror) = SplicedSeq(v.mirror.told, r.start, r.deleted, r.inserted)

\* A list that is shuffled into another.
LEMMA ShuffleCalled ==
    ASSUME NEW v, Ready(v), NEW value \in Lists, value # Absent, NEW new, NEW unsafe,
           "array" \in watching, "first" \notin watching,
           OneToOne(new.map, Len(Content(v.list)), Len(Content(value)))
    PROVE  Shuffled(shuffle(WithList(v, value), new, unsafe), v, value, new.map)
  <1> DEFINE u == WithList(v, value)
             w == shuffle(u, new, unsafe)
             r == Report(Content(value), new.map)
             m == Noted(v.mirror, value, new.map)
  <1>1. Open(u) /\ u.list = value /\ u.mirror = v.mirror
    BY ListSet DEF Ready, WithList
  <1>2. /\ v.list \in Lists /\ Follows(v.mirror, v.list) /\ v.mirror.pending = None
        /\ "pending" \in DOMAIN v.mirror
    BY DEF Ready, Follows, Mirrors
  <1>3. Len(Content(v.list)) \in Nat
    BY <1>2, ContentType, LenProperties
  <1>4. Follows(m, value) /\ m.pending # None /\ m.pending = r /\ m.told = v.mirror.told
    BY <1>2, <1>3, OneToOneFollows
  <1> HIDE DEF u, m
  <1>5. Open(w) /\ w.list = value /\ Top(w).deferred = <<"array">> /\ w.mirror = m
    <2>1. Report(Content(u.list), new.map) # None /\ "pending" \in DOMAIN u.mirror
      BY <1>1, <1>2, <1>4
    <2>2. Open(w) /\ w.list = u.list /\ Top(w).deferred = <<"array">>
          /\ w.mirror = Noted(u.mirror, u.list, new.map)
      BY <1>1, <2>1, ShuffleNotes
    <2>3. QED
      BY <1>1, <2>2 DEF m
  <1> HIDE DEF w, r
  <1>6. Called(w, TRUE)
    BY <1>4, <1>5 DEF Called
  <1>7. Heard(m) = SplicedSeq(v.mirror.told, r.start, r.deleted, r.inserted)
    BY <1>4 DEF Heard
  <1>8. QED
    BY <1>5, <1>6, <1>7 DEF w, r, u, Shuffled

\* An element set: the array's observer has nothing to say, unless the array
\* has come to be with it.
LEMMA ChildCalled ==
    ASSUME NEW v, Ready(v), NEW k \in Keys, NEW x \in Items, k <= Len(Content(v.list)),
           "array" \in watching, "first" \notin watching
    PROVE  Called(applyChildValue(v, k, x), TRUE)
  <1> DEFINE there == IF v.list = Absent THEN applyValue(v, Nothing) ELSE v
             l == [i \in DOMAIN there.list \cup {k} |-> IF i = k THEN x ELSE there.list[i]]
             set == [there EXCEPT !.list = l, !.child[k] = x]
             deps == BubbleAll(set, set.texts[k], "text")
             told == PatternNotified(deps, {k})
             bubbled == BubbleSection(told)
             patterned == PatternChanged(bubbled)
             w == ArrayChanged(patterned, k)
  <1>1. Nothing \in Lists /\ Content(Nothing) = <<>>
    <2>1. Nothing \in [0 .. 0 - 1 -> Items]
      BY DEF Nothing
    <2>2. 0 \in 0 .. MaxLength
      BY BoundAssumption
    <2>3. Nothing \in Arrays
      BY <2>1, <2>2 DEF Arrays
    <2>4. Nothing # Absent
      BY <2>3, DistinctAssumption
    <2>5. AsSeq(Nothing) = <<>>
      <3>1. AsSeq(Nothing) \in Seq(Items) /\ Len(AsSeq(Nothing)) = 0
        BY <2>1, ArrayAsSeq
      <3>2. QED
        BY <3>1, EmptySeq
    <2>6. QED
      BY <2>3, <2>4, <2>5 DEF Lists, Content
  <1>2. /\ Called(there, TRUE) /\ there.list # Absent /\ there.list \in Lists
        /\ k <= Len(Content(there.list))
    <2>1. CASE v.list = Absent
      <3>1. Called(applyValue(v, Nothing), FALSE) /\ applyValue(v, Nothing).list = Nothing
        BY <1>1, ValueCalled
      <3>2. there = applyValue(v, Nothing)
        BY <2>1
      <3>3. Nothing # Absent
        <4>1. Nothing \in Arrays
          BY BoundAssumption DEF Nothing, Arrays
        <4>2. QED
          BY <4>1, DistinctAssumption
      <3>4. Content(v.list) = <<>>
        BY <2>1 DEF Content
      <3> HIDE DEF there
      <3>5. QED
        BY <1>1, <3>1, <3>2, <3>3, <3>4 DEF Called
    <2>2. CASE v.list # Absent
      <3>1. there = v
        BY <2>2
      <3>2. Called(v, TRUE) /\ v.list \in Lists
        BY DEF Ready, Called
      <3> HIDE DEF there
      <3>3. QED
        BY <2>2, <3>1, <3>2
    <2>3. QED
      BY <2>1, <2>2
  <1>3. applyChildValue(v, k, x) \in {v, w}
    BY DEF applyChildValue, FirstChanged
  <1> HIDE DEF there
  <1>4. l \in Lists /\ l # Absent /\ Len(Content(there.list)) <= Len(Content(l))
    <2>1. PICK n \in Nat :
            /\ n = Len(Content(there.list)) /\ n <= MaxLength
            /\ there.list \in [0 .. n - 1 -> Items]
      BY <1>2, ContentType, BoundAssumption
    <2>2. k \in Nat /\ k <= n /\ k <= MaxLength - 1
      BY <1>2, <2>1, BoundAssumption DEF Keys
    <2>3. PICK p \in Nat : p = Most(n, k + 1) /\ n <= p /\ p <= MaxLength
                           /\ (0 .. n - 1) \cup {k} = 0 .. p - 1
      BY <2>1, <2>2, BoundAssumption DEF Most
    <2>4. l \in [0 .. p - 1 -> Items]
      <3>1. l = [i \in (0 .. n - 1) \cup {k} |-> IF i = k THEN x ELSE there.list[i]]
        BY <2>1
      <3>2. QED
        BY <2>1, <2>3, <3>1
    <2> HIDE DEF l
    <2>5. l \in Arrays
      <3>1. p \in 0 .. MaxLength
        BY <2>3, BoundAssumption
      <3>2. QED
        BY <2>4, <3>1 DEF Arrays
    <2>6. l # Absent
      BY <2>5, DistinctAssumption
    <2>7. Len(AsSeq(l)) = p
      BY <2>4, ArrayAsSeq
    <2>8. QED
      BY <2>1, <2>3, <2>5, <2>6, <2>7 DEF Lists, Content
  <1> HIDE DEF l
  <1>5. Open(there)
    BY <1>2 DEF Called
  <1>6. /\ Open(set) /\ set.list = l /\ set.mirror = there.mirror
        /\ Top(set).deferred = Top(there).deferred
    <2>1. IsView(there) /\ there.batches = <<Top(there)>> /\ Top(there) \in OpenBatch
      BY <1>5, TopOpen
    <2>2. /\ DOMAIN set = DOMAIN there /\ set.list = l /\ set.mirror = there.mirror
          /\ set.batches = there.batches
      BY <2>1 DEF IsView
    <2> HIDE DEF set
    <2>3. QED
      BY <2>1, <2>2 DEF Open, Top, IsView
  <1> HIDE DEF set
  <1>7. Carries(set, deps)
    BY <1>6, BubbleAllCarries
  <1> HIDE DEF deps
  <1>8. Carries(set, told)
    <2>1. Open(deps)
      BY <1>7 DEF Carries
    <2>2. QED
      BY <1>7, <2>1, PatternNotifiedCarries, CarriesTransitive
  <1> HIDE DEF told
  <1>9. Carries(set, bubbled)
    <2>1. Open(told)
      BY <1>8 DEF Carries
    <2>2. QED
      BY <1>8, <2>1, BubbleSectionCarries, CarriesTransitive
  <1> HIDE DEF bubbled
  <1>10. Carries(set, patterned)
    <2>1. Open(bubbled)
      BY <1>9 DEF Carries
    <2>2. QED
      BY <1>9, <2>1, PatternChangedCarries, CarriesTransitive
  <1> HIDE DEF patterned
  <1>11. /\ Open(patterned) /\ patterned.list = l /\ patterned.mirror = there.mirror
         /\ Top(patterned).deferred = Top(there).deferred
    BY <1>6, <1>10 DEF Carries
  <1>12. k # None
    BY DistinctAssumption, BoundAssumption DEF Keys
  <1>13. /\ Open(w) /\ w.list = l /\ w.mirror = there.mirror
         /\ w.mirror.pending # None <=> Top(w).deferred = <<"array">>
    <2>1. /\ Open(w) /\ w.list = patterned.list
          /\ patterned.mirror.pending # None =>
               w.mirror = patterned.mirror /\ Top(w).deferred = <<"array">>
          /\ patterned.mirror.pending = None /\ k # None => w = patterned
      BY <1>11, ArrayChangedNotes
    <2> HIDE DEF w
    <2>2. CASE patterned.mirror.pending # None
      BY <1>11, <2>1, <2>2
    <2>3. CASE patterned.mirror.pending = None
      <3>1. w = patterned
        BY <1>12, <2>1, <2>3
      <3>2. there.mirror.pending # None <=> Top(there).deferred = <<"array">>
        BY <1>2 DEF Called
      <3>3. QED
        BY <1>11, <3>1, <3>2
    <2>4. QED
      BY <2>2, <2>3
  <1> HIDE DEF w
  <1>14. Follows(there.mirror, l)
    <2>1. Follows(there.mirror, there.list)
      BY <1>2 DEF Called
    <2>2. /\ Len(there.mirror.sliced) \in Nat /\ Len(Content(there.list)) \in Nat
          /\ Len(Content(l)) \in Nat
      <3>1. there.mirror.sliced \in Seq(Items)
        BY <2>1 DEF Follows, Mirrors
      <3>2. Content(l) \in Seq(Items) /\ Content(there.list) \in Seq(Items)
        BY <1>2, <1>4, ContentType
      <3>3. QED
        BY <3>1, <3>2, LenProperties
    <2>3. QED
      BY <1>4, <2>1, <2>2 DEF Follows
  <1>15. Called(w, TRUE)
    BY <1>4, <1>13, <1>14 DEF Called
  <1>16. Called(v, TRUE)
    BY DEF Ready, Called
  <1>17. QED
    BY <1>3, <1>15, <1>16 DEF w

\* What an array method makes of a list of n elements: the splice it comes to,
\* and the array that results.
Makes(value, method, begin, drop, added, n, array, splice, result) ==
    /\ n = Len(Content(value)) /\ array = IF value = Absent THEN Nothing ELSE value
    /\ array \in [0 .. n - 1 -> Items] /\ AsSeq(array) = Content(value) /\ Length(array) = n
    /\ splice = getSpliceEquivalent(n, method, begin, drop, added)
    /\ splice \in SpliceOf(Items, n) /\ splice.added \in {<<>>, added}
    /\ result = Spliced(array, splice.start, splice.drop, splice.added)
    /\ result \in Lists /\ result # Absent
    /\ Content(result) = SplicedSeq(Content(value), splice.start, splice.drop, splice.added)

\* It does, if there is room.
LEMMA MethodMakes ==
    ASSUME NEW value \in Lists, NEW method \in Methods, NEW begin \in Int, NEW drop \in Nat,
           NEW added \in Seq(Items), Len(Content(value)) + Len(added) <= MaxLength
    PROVE  \E n \in Nat : \E array, splice, result :
             Makes(value, method, begin, drop, added, n, array, splice, result)
  <1> DEFINE array == IF value = Absent THEN Nothing ELSE value
             s == Content(value)
  <1>1. PICK n \in Nat : n = Len(s) /\ s \in Seq(Items)
    BY ContentType, BoundAssumption
  <1>2. array \in [0 .. n - 1 -> Items] /\ AsSeq(array) = s /\ Length(array) = n
    <2>1. CASE value = Absent
      <3>1. s = <<>> /\ n = 0
        BY <1>1, <2>1, EmptySeq DEF Content
      <3>2. array \in [0 .. n - 1 -> Items]
        BY <2>1, <3>1 DEF Nothing
      <3> HIDE DEF array, s
      <3>3. Length(array) = n /\ AsSeq(array) \in Seq(Items) /\ Len(AsSeq(array)) = n
        BY <3>2, ArrayAsSeq
      <3>4. QED
        BY <3>1, <3>2, <3>3, EmptySeq
    <2>2. CASE value # Absent
      BY <1>1, <2>2, ContentType DEF Content
    <2>3. QED
      BY <2>1, <2>2
  <1> HIDE DEF array, s
  <1>3. PICK splice :
          /\ splice = getSpliceEquivalent(n, method, begin, drop, added)
          /\ splice \in SpliceOf(Items, n) /\ splice.added \in {<<>>, added}
    BY SpliceEquivalent
  <1>4. PICK now, result :
          /\ now = SplicedSeq(s, splice.start, splice.drop, splice.added)
          /\ result = Spliced(array, splice.start, splice.drop, splice.added)
    OBVIOUS
  <1>5. result = AsArray(now)
    <2>1. Spliced(array, splice.start, splice.drop, splice.added) =
            AsArray(SplicedSeq(AsSeq(array), splice.start, splice.drop, splice.added))
      BY <1>2, SplicedAsSeq
    <2>2. QED
      BY <1>2, <1>4, <2>1
  <1>6. now \in Seq(Items) /\ Len(now) <= MaxLength
    <2>1. splice.start \in Nat /\ splice.drop \in Int /\ splice.added \in Seq(Items)
      BY <1>3 DEF SpliceOf
    <2>2. PICK from \in Nat, to \in Nat : DroppedBetween(Items, s, splice.added, now, from, to)
      <3>1. \E from, to \in Nat :
              /\ from = Least(splice.start, Len(s))
              /\ to = Least(from + Most(splice.drop, 0), Len(s))
              /\ DroppedBetween(Items, s, splice.added,
                                SplicedSeq(s, splice.start, splice.drop, splice.added), from, to)
        BY <1>1, <2>1, SplicedElements
      <3>2. QED
        BY <1>4, <3>1
    <2>3. PICK k \in Nat : k = Len(splice.added) /\ k <= Len(added)
      <3>1. Len(added) \in Nat /\ Len(<<>>) = 0
        BY LenProperties, EmptySeq
      <3>2. QED
        BY <1>3, <3>1
    <2>4. n + Len(added) <= MaxLength /\ Len(added) \in Nat /\ MaxLength \in Nat
      BY <1>1, BoundAssumption, LenProperties DEF s
    <2>5. /\ now \in Seq(Items) /\ Len(now) = from + k + (n - to) /\ from <= to /\ to <= n
      BY <1>1, <2>2, <2>3 DEF DroppedBetween
    <2>6. QED
      BY <2>3, <2>4, <2>5
  <1>7. result \in Lists /\ result # Absent /\ Content(result) = now
    <2>1. PICK m \in 0 .. MaxLength : m = Len(now)
      BY <1>6, LenProperties
    <2>2. result \in [0 .. m - 1 -> Items] /\ AsSeq(result) = now
      BY <1>5, <1>6, <2>1, SeqAsArray
    <2>3. result \in Arrays
      BY <2>1, <2>2 DEF Arrays
    <2>4. result # Absent
      BY <2>3, DistinctAssumption
    <2>5. QED
      BY <2>2, <2>3, <2>4 DEF Lists, Content
  <1>8. Makes(value, method, begin, drop, added, n, array, splice, result)
    BY <1>1, <1>2, <1>3, <1>4, <1>7 DEF Makes, array, s
  <1>9. QED
    BY <1>8

\* An array method.
LEMMA MethodCalled ==
    ASSUME NEW v, Ready(v), NEW method \in Methods, NEW begin \in Int, NEW drop \in Nat,
           NEW added \in Seq(Items), Len(Content(v.list)) + Len(added) <= MaxLength,
           "array" \in watching, "first" \notin watching,
           NEW set \in BOOLEAN, ~ set => v.mirror.told = Content(v.list)
    PROVE  Called(arrayMethod(v, method, begin, drop, added), set)
  <1>1. PICK value \in Lists : value = v.list
    BY DEF Ready
  <1>2. PICK n, array, splice, result :
          n \in Nat /\ Makes(value, method, begin, drop, added, n, array, splice, result)
    BY <1>1, MethodMakes
  <1> DEFINE s == Content(value)
             new == getNewIndices(n, splice)
             now == SplicedSeq(s, splice.start, splice.drop, splice.added)
  <1>3. arrayMethod(v, method, begin, drop, added) =
          IF v.list = Absent THEN applyValue(v, result)
          ELSE shuffle(WithList(v, result), new, FALSE)
    <2>1. /\ array = (IF v.list = Absent THEN Nothing ELSE v.list) /\ Length(array) = n
          /\ splice = getSpliceEquivalent(n, method, begin, drop, added)
          /\ result = Spliced(array, splice.start, splice.drop, splice.added)
      BY <1>1, <1>2 DEF Makes
    <2>2. QED
      BY <2>1 DEF arrayMethod, WithList
  <1>4. /\ result \in Lists /\ result # Absent /\ Content(result) = now
        /\ splice \in SpliceOf(Items, n) /\ n = Len(s) /\ s \in Seq(Items)
    BY <1>2, ContentType DEF Makes
  <1>5. /\ OneToOne(new.map, n, Len(now))
        /\ LET r == Report(now, new.map) IN
           SplicedSeq(s, r.start, r.deleted, r.inserted) = now
    <2>1. splice \in SpliceOf(Items, Len(s)) /\ s \in Seq(Items)
      BY <1>4
    <2> HIDE DEF s
    <2>2. LET map == getNewIndices(Len(s), splice).map
              r   == Report(now, map)
          IN /\ now \in Seq(Items) /\ OneToOne(map, Len(s), Len(now))
             /\ SplicedSeq(s, r.start, r.deleted, r.inserted) = now
      BY <2>1, SpliceReplayed
    <2> HIDE DEF now
    <2>3. QED
      BY <1>4, <2>2
  <1> HIDE DEF s, new, now
  <1>6. CASE v.list = Absent
    <2>1. Called(applyValue(v, result), FALSE)
      BY <1>4, ValueCalled
    <2>2. QED
      BY <1>3, <1>6, <2>1 DEF Called
  <1>7. CASE v.list # Absent
    <2> DEFINE w == shuffle(WithList(v, result), new, FALSE)
    <2>1. OneToOne(new.map, Len(Content(v.list)), Len(Content(result)))
      BY <1>1, <1>4, <1>5 DEF s
    <2>2. Shuffled(w, v, result, new.map)
      BY <1>4, <1>7, <2>1, ShuffleCalled
    <2> HIDE DEF w
    <2>3. ~ set => Heard(w.mirror) = now
      BY <1>1, <1>4, <1>5, <2>2 DEF s, Shuffled
    <2>4. Called(w, set)
      BY <1>4, <2>2, <2>3 DEF Called, Shuffled
    <2>5. QED
      BY <1>3, <1>7, <2>4 DEF w
  <1>8. QED
    BY <1>6, <1>7

-------------------------------------------------------------------------------
\* The flush.

Batch == [immediate : Seq({"pattern"}), deferred : {<<>>, <<"array">>}, fragments : BOOLEAN,
          which : Seq({"pattern"}) \cup {<<"array">>}, deferring : BOOLEAN, calling : {None}]

\* There is something to tell exactly while the array's observer is queued, to
\* be called once the page is drawn or as one of those being called now.
Queued(b, pending) ==
    IF b.deferring
    THEN /\ b.deferred = <<>> /\ b.which \in {<<>>, <<"array">>}
         /\ pending # None <=> b.which = <<"array">>
    ELSE /\ b.which \in Seq({"pattern"})
         /\ pending # None <=> b.deferred = <<"array">>

FlushInv == \/ batches = <<>> /\ mirror.pending = None
            \/ \E b \in Batch : batches = <<b>> /\ Queued(b, mirror.pending)

MirrorInv == /\ Follows(mirror, list)
             /\ ~ patched => Heard(mirror) = Content(list)

\* With the array's observer on the page and not that of list.0, whose callback
\* may call: the copy follows the data, and no report is forgotten.
ReplayInv == /\ watching \in Watching
             /\ "array" \in watching =>
                  list \in Lists /\ patched \in BOOLEAN /\ FlushInv /\ MirrorInv

\* A call begins at rest, with the copy as it is.
LEMMA CallBegins ==
    ASSUME ReplayInv, Idle, "array" \in watching
    PROVE  LET v == start(View) IN
           /\ Ready(v) /\ v.list = list /\ v.mirror = mirror
           /\ ~ patched => v.mirror.told = Content(v.list)
  <1> DEFINE v == start(View)
  <1>1. mirror.pending = None /\ Follows(mirror, list) /\ list \in Lists
        /\ (~ patched => Heard(mirror) = Content(list))
    BY DEF ReplayInv, Idle, FlushInv, MirrorInv
  <1>2. IsView(v) /\ v.list = list /\ v.mirror = mirror /\ v.batches = <<NewBatch>>
    BY DEF start, View, IsView, Idle
  <1> HIDE DEF v
  <1>3. NewBatch \in OpenBatch /\ NewBatch.deferred = <<>>
    <2>1. <<>> \in Seq({"pattern"})
      BY EmptySeq
    <2>2. QED
      BY <2>1 DEF NewBatch, OpenBatch
  <1>4. Open(v) /\ Top(v).deferred = <<>>
    BY <1>2, <1>3 DEF Open, Top
  <1>5. QED
    BY <1>1, <1>2, <1>4 DEF Ready, Heard, v

\* A call ends by beginning to flush.
LEMMA FlushBegins ==
    ASSUME NEW w, Called(w, patched'), Becomes(flushChanges(w)), patched' \in BOOLEAN,
           watching' = watching, watching \in Watching
    PROVE  ReplayInv'
  <1> DEFINE c == [Top(w) EXCEPT !.which = Top(w).immediate, !.immediate = <<>>]
             f == SetTop(w, c)
  <1>1. flushChanges(w) = f
    BY DEF flushChanges
  <1>2. IsView(w) /\ w.batches = <<Top(w)>> /\ Len(w.batches) = 1 /\ Top(w) \in OpenBatch
    BY TopOpen DEF Called
  <1>3. <<>> \in Seq({"pattern"})
    BY EmptySeq
  <1>4. c \in Batch /\ ~ c.deferring /\ c.which \in Seq({"pattern"}) /\ c.deferred = Top(w).deferred
    BY <1>2, <1>3 DEF OpenBatch, Batch
  <1> HIDE DEF c
  <1>5. f.list = w.list /\ f.mirror = w.mirror /\ f.batches = <<c>>
    BY <1>2 DEF SetTop, IsView
  <1> HIDE DEF f
  <1>6. list' = w.list /\ mirror' = w.mirror /\ batches' = <<c>>
    BY <1>1, <1>5 DEF Becomes
  <1>7. Queued(c, w.mirror.pending)
    BY <1>4 DEF Called, Queued
  <1>8. FlushInv'
    BY <1>4, <1>6, <1>7 DEF FlushInv
  <1>9. MirrorInv'
    BY <1>6 DEF Called, MirrorInv
  <1>10. QED
    BY <1>6, <1>8, <1>9 DEF ReplayInv, Called

\* Before there is a list its copy is empty.
LEMMA ReplayInit == Init => ReplayInv
  <1> SUFFICES ASSUME Init PROVE ReplayInv
    OBVIOUS
  <1>1. list = Absent /\ batches = <<>> /\ watching \in Watching /\ patched = FALSE
        /\ mirror = [pending |-> None, sliced |-> <<>>, told |-> <<>>]
    BY DEF Init
  <1>2. list \in Lists
    BY <1>1 DEF Lists
  <1>3. <<>> \in Seq(Items) /\ Len(<<>>) = 0
    BY EmptySeq
  <1>4. mirror \in Mirrors /\ Heard(mirror) = <<>> /\ mirror.sliced = <<>> /\ mirror.pending = None
    BY <1>1, <1>3 DEF Mirrors, Heard
  <1>5. Content(list) = <<>>
    BY <1>1 DEF Content
  <1>6. MirrorInv
    BY <1>3, <1>4, <1>5 DEF MirrorInv, Follows
  <1>7. FlushInv
    BY <1>1, <1>4 DEF FlushInv
  <1>8. QED
    BY <1>1, <1>2, <1>6, <1>7 DEF ReplayInv

\* How long the list is, and that there is room in it.
LEMMA RoomIs ==
    ASSUME list \in Lists, NEW n \in Nat, Room(n)
    PROVE  Len(Content(list)) + n <= MaxLength
  <1>1. CASE list = Absent
    BY <1>1, EmptySeq DEF Room, Content
  <1>2. CASE list # Absent
    BY <1>2, ContentType DEF Room
  <1>3. QED
    BY <1>1, <1>2

\* A call of an array method, and what it does.
MethodStep(method, begin, drop, added) ==
    /\ Call(arrayMethod(start(View), method, begin, drop, added))
    /\ patched' = patched

\* It keeps the invariant.
LEMMA MethodKeeps ==
    ASSUME ReplayInv, Apart, "array" \in watching, NEW method \in Methods, NEW begin \in Int,
           NEW drop \in Nat, NEW added \in Seq(Items),
           Len(Content(list)) + Len(added) <= MaxLength,
           MethodStep(method, begin, drop, added), watching' = watching
    PROVE  ReplayInv'
  <1> DEFINE v == start(View)
             w == arrayMethod(v, method, begin, drop, added)
  <1>1. Idle /\ Becomes(flushChanges(w)) /\ patched' = patched
    BY DEF Call, MethodStep
  <1>2. /\ watching \in Watching /\ "first" \notin watching /\ list \in Lists
        /\ patched \in BOOLEAN
    BY DEF ReplayInv, Apart
  <1>3. /\ Ready(v) /\ v.list = list /\ v.mirror = mirror
        /\ ~ patched => v.mirror.told = Content(v.list)
    BY <1>1, CallBegins
  <1> HIDE DEF v
  <1>4. Called(w, patched)
    BY <1>2, <1>3, MethodCalled
  <1> HIDE DEF w
  <1>5. Called(w, patched') /\ patched' \in BOOLEAN
    BY <1>1, <1>2, <1>4
  <1>6. QED
    BY <1>1, <1>2, <1>5, FlushBegins

\* A call that sets the list as a whole.
LEMMA ValueKeeps ==
    ASSUME ReplayInv, Apart, "array" \in watching, NEW value \in Lists,
           Call(applyValue(start(View), value)), patched' = FALSE, watching' = watching
    PROVE  ReplayInv'
  <1> DEFINE v == start(View)
             w == applyValue(v, value)
  <1>1. Idle /\ Becomes(flushChanges(w))
    BY DEF Call
  <1>2. watching \in Watching /\ "first" \notin watching
    BY DEF ReplayInv, Apart
  <1>3. Ready(v)
    BY <1>1, CallBegins
  <1> HIDE DEF v
  <1>4. Called(w, FALSE)
    BY <1>2, <1>3, ValueCalled
  <1> HIDE DEF w
  <1>5. Called(w, patched') /\ patched' \in BOOLEAN
    BY <1>4
  <1>6. QED
    BY <1>1, <1>2, <1>5, FlushBegins

\* One that sets an element.
LEMMA ElementKeeps ==
    ASSUME ReplayInv, Apart, "array" \in watching, NEW k \in Keys, NEW x \in Items, SetElement(k, x)
    PROVE  ReplayInv'
  <1> DEFINE v == start(View)
             w == applyChildValue(v, k, x)
  <1>1. Idle /\ Becomes(flushChanges(w)) /\ patched' = TRUE /\ watching' = watching
    BY DEF Call, SetElement, Stays
  <1>2. watching \in Watching /\ "first" \notin watching /\ list \in Lists
    BY DEF ReplayInv, Apart
  <1>3. Ready(v) /\ v.list = list
    BY <1>1, CallBegins
  <1>4. k <= Len(Content(list))
    <2>1. CASE list = Absent
      BY <2>1, EmptySeq DEF SetElement, Content
    <2>2. CASE list # Absent
      BY <1>2, <2>2, ContentType DEF SetElement
    <2>3. QED
      BY <2>1, <2>2
  <1> HIDE DEF v
  <1>5. Called(w, TRUE)
    BY <1>2, <1>3, <1>4, ChildCalled
  <1> HIDE DEF w
  <1>6. Called(w, patched') /\ patched' \in BOOLEAN
    BY <1>1, <1>5
  <1>7. QED
    BY <1>1, <1>2, <1>6, FlushBegins

\* And a merge.
LEMMA MergeKeeps ==
    ASSUME ReplayInv, Apart, Unrepeated, "array" \in watching, NEW value \in Arrays,
           Merge(value)
    PROVE  ReplayInv'
  <1> DEFINE v == start(View)
             new == merge(list, value)
             w == shuffle(WithList(v, value), new, TRUE)
  <1>1. Idle /\ Becomes(flushChanges(w)) /\ patched' = TRUE /\ watching' = watching
    BY DEF Call, Merge, WithList
  <1>2. /\ watching \in Watching /\ "first" \notin watching /\ list \in Lists /\ list # Absent
        /\ Mergeable(list, value)
    BY DEF ReplayInv, Apart, Merge
  <1>3. Ready(v) /\ v.list = list
    BY <1>1, CallBegins
  <1>4. value \in Lists /\ value # Absent
    BY DistinctAssumption DEF Lists
  <1>5. OneToOne(new.map, Len(Content(v.list)), Len(Content(value)))
    <2>1. list \in Arrays
      BY <1>2 DEF Lists
    <2>2. PICK n \in Nat, m \in Nat : n = Len(Content(list)) /\ m = Len(Content(value))
      BY <1>2, <1>4, ContentType, BoundAssumption
    <2>3. list \in [0 .. n - 1 -> Items] /\ value \in [0 .. m - 1 -> Items] /\ Length(list) = n
      BY <1>2, <1>4, <2>2, ContentType
    <2>4. \A i, j \in 0 .. n - 1 : list[i] = list[j] => i = j
      <3>1. DOMAIN list = 0 .. n - 1
        BY <2>3
      <3>2. QED
        BY <1>2, <2>1, <3>1 DEF Unrepeated
    <2>5. OneToOne(merge(list, value).map, n, m)
      BY <2>3, <2>4, MergedOneToOne
    <2>6. QED
      BY <1>3, <2>2, <2>5
  <1> HIDE DEF v, new
  <1>6. Called(w, TRUE)
    <2>1. Shuffled(w, v, value, new.map)
      BY <1>2, <1>3, <1>4, <1>5, ShuffleCalled
    <2>2. QED
      BY <2>1 DEF Shuffled
  <1> HIDE DEF w
  <1>7. Called(w, patched') /\ patched' \in BOOLEAN
    BY <1>1, <1>6
  <1>8. QED
    BY <1>1, <1>2, <1>7, FlushBegins

\* A step of the flush that only takes from the queues.
LEMMA QueueKeeps ==
    ASSUME ReplayInv, "array" \in watching, NEW c \in Batch,
           list' = list, patched' = patched, watching' = watching, mirror' = mirror,
           batches' = <<c>>, Queued(c, mirror.pending)
    PROVE  ReplayInv'
  <1>1. FlushInv'
    BY DEF FlushInv
  <1>2. MirrorInv'
    BY DEF ReplayInv, MirrorInv
  <1>3. QED
    BY <1>1, <1>2 DEF ReplayInv

\* The state as a view.
LEMMA ViewIs ==
    /\ IsView(View) /\ View.list = list /\ View.mirror = mirror /\ View.batches = batches
    /\ \A b : batches = <<b>> => Top(View) = b
  BY DEF View, IsView, Top

\* The step that leaves the innermost batch as `c` and does the rest of `u`.
LEMMA SetTopBecomes ==
    ASSUME NEW u, IsView(u), NEW b, u.batches = <<b>>, NEW c, Becomes(SetTop(u, c))
    PROVE  list' = u.list /\ mirror' = u.mirror /\ batches' = <<c>>
  <1> DEFINE w == SetTop(u, c)
  <1>1. w.list = u.list /\ w.mirror = u.mirror /\ w.batches = <<c>>
    BY DEF SetTop, IsView
  <1> HIDE DEF w
  <1>2. list' = w.list /\ mirror' = w.mirror /\ batches' = w.batches
    BY DEF Becomes, w
  <1>3. QED
    BY <1>1, <1>2

\* Each step of the flush.
LEMMA WorkKeeps ==
    ASSUME ReplayInv, Apart, "array" \in watching, Work
    PROVE  ReplayInv'
  <1>1. PICK b \in Batch : batches = <<b>> /\ Queued(b, mirror.pending) /\ Top(View) = b
    <2>1. batches # <<>>
      BY DEF Work, DispatchFirst, Returned, DispatchPattern, DispatchArray,
             UpdateFragmentsOfBatch, EndFlush, Dispatching, Quiet
    <2>2. QED
      BY <2>1, ViewIs DEF ReplayInv, FlushInv
  <1>2. \A i \in Seq({"pattern"}) : i # <<>> => Head(i) = "pattern" /\ Tail(i) \in Seq({"pattern"})
    BY HeadTailProperties
  <1>3. b.which # <<>> =>
          \/ ~ b.deferring /\ Head(b.which) = "pattern" /\ Tail(b.which) \in Seq({"pattern"})
          \/ /\ b.deferring /\ b.which = <<"array">> /\ Head(b.which) = "array"
             /\ Tail(b.which) = <<>>
    <2>1. Head(<<"array">>) = "array" /\ Tail(<<"array">>) = <<>>
      OBVIOUS
    <2>2. CASE b.deferring
      BY <1>1, <2>1, <2>2 DEF Queued
    <2>3. CASE ~ b.deferring
      BY <1>1, <1>2, <2>3 DEF Queued
    <2>4. QED
      BY <2>2, <2>3
  <1>5. <<>> \in Seq({"pattern"})
    BY EmptySeq
  <1>6. CASE DispatchFirst
    BY <1>1, <1>3, <1>6 DEF DispatchFirst, Dispatching
  <1>7. CASE Returned
    <2> DEFINE c == [b EXCEPT !.calling = None]
    <2>1. c \in Batch /\ Queued(c, mirror.pending)
      BY <1>1 DEF Batch, Queued
    <2>2. list' = list /\ mirror' = mirror /\ batches' = <<c>>
      <3> DEFINE u == [View EXCEPT !.first.oldValue = child[0], !.first.dirty = FALSE]
      <3>1. IsView(u) /\ u.list = list /\ u.mirror = mirror /\ u.batches = <<b>>
        BY <1>1, ViewIs DEF IsView
      <3>2. Becomes(SetTop(u, c))
        BY <1>1, <1>7 DEF Returned
      <3> HIDE DEF u, c
      <3>3. QED
        BY <3>1, <3>2, SetTopBecomes
    <2>3. patched' = patched /\ watching' = watching
      BY <1>7 DEF Returned, Stays
    <2> HIDE DEF c
    <2>4. QED
      BY <2>1, <2>2, <2>3, QueueKeeps
  <1>8. CASE DispatchPattern
    <2> DEFINE c == [b EXCEPT !.which = Tail(@), !.calling = None]
    <2>1. b.which # <<>> /\ Head(b.which) = "pattern"
      BY <1>1, <1>8 DEF DispatchPattern, Dispatching
    <2>2. c \in Batch /\ Queued(c, mirror.pending)
      BY <1>1, <1>3, <2>1 DEF Batch, Queued
    <2>3. list' = list /\ mirror' = mirror /\ batches' = <<c>>
      <3>1. PICK q, o : Becomes(Taken([View EXCEPT !.pattern.told = q, !.pattern.oldValues = o,
                                                   !.pattern.newValues = Nothing,
                                                   !.pattern.dirty = FALSE], None))
        BY <1>8, Zenon DEF DispatchPattern
      <3> DEFINE u == [View EXCEPT !.pattern.told = q, !.pattern.oldValues = o,
                                   !.pattern.newValues = Nothing, !.pattern.dirty = FALSE]
      <3>2. IsView(u) /\ u.list = list /\ u.mirror = mirror /\ u.batches = <<b>>
        BY <1>1, ViewIs DEF IsView
      <3>3. Becomes(Taken(u, None))
        BY <3>1
      <3> HIDE DEF u
      <3>4. Top(u) = b
        BY <3>2 DEF Top
      <3>5. Taken(u, None) = SetTop(u, c)
        BY <3>4 DEF Taken
      <3> HIDE DEF c
      <3>6. Becomes(SetTop(u, c))
        BY <3>3, <3>5
      <3>7. QED
        BY <3>2, <3>6, SetTopBecomes
    <2>4. patched' = patched /\ watching' = watching
      BY <1>8 DEF DispatchPattern, Stays
    <2> HIDE DEF c
    <2>5. QED
      BY <2>2, <2>3, <2>4, QueueKeeps
  <1>9. CASE DispatchArray
    <2> DEFINE c == [b EXCEPT !.which = Tail(@), !.calling = None]
               r == mirror.pending
               told == AsSeq(Spliced(AsArray(mirror.told), r.start, r.deleted, r.inserted))
               m == [mirror EXCEPT !.told = told, !.pending = None]
    <2>1. b.which # <<>> /\ Head(b.which) = "array"
      BY <1>1, <1>9 DEF DispatchArray, Dispatching
    <2>2. b.deferring /\ b.which = <<"array">> /\ b.deferred = <<>> /\ r # None
      BY <1>1, <1>3, <2>1 DEF Queued
    <2>3. c \in Batch /\ Queued(c, None)
      BY <1>1, <1>3, <1>5, <2>1, <2>2 DEF Batch, Queued
    <2>4. list' = list /\ mirror' = m /\ batches' = <<c>>
      <3> DEFINE u == [View EXCEPT !.mirror.told = told, !.mirror.pending = None]
      <3>1. /\ Becomes(Taken(u, None))
            /\ told = AsSeq(Spliced(AsArray(mirror.told), r.start, r.deleted, r.inserted))
        BY <1>9 DEF DispatchArray, View
      <3> HIDE DEF told
      <3>2. IsView(u) /\ u.list = list /\ u.mirror = m /\ u.batches = <<b>>
        BY <1>1, ViewIs DEF IsView
      <3> HIDE DEF u
      <3>3. Top(u) = b
        BY <3>2 DEF Top
      <3>4. Taken(u, None) = SetTop(u, c)
        BY <3>3 DEF Taken
      <3> HIDE DEF c
      <3>5. Becomes(SetTop(u, c))
        BY <3>1, <3>4
      <3>6. QED
        BY <3>2, <3>5, SetTopBecomes
    <2>5. patched' = patched /\ watching' = watching
      BY <1>9 DEF DispatchArray, Stays
    <2>6. MirrorInv /\ mirror \in Mirrors /\ Heard(mirror) \in Seq(Items)
      BY DEF ReplayInv, MirrorInv, Follows
    <2> HIDE DEF c
    <2>7. told = Heard(mirror)
      <3>1. /\ AsArray(mirror.told) \in [0 .. Len(mirror.told) - 1 -> Items]
            /\ AsSeq(AsArray(mirror.told)) = mirror.told /\ Len(mirror.told) \in Nat
        BY <2>6, SeqAsArray, LenProperties DEF Mirrors
      <3>2. Spliced(AsArray(mirror.told), r.start, r.deleted, r.inserted) =
              AsArray(SplicedSeq(AsSeq(AsArray(mirror.told)), r.start, r.deleted, r.inserted))
        BY <3>1, SplicedAsSeq
      <3>3. Spliced(AsArray(mirror.told), r.start, r.deleted, r.inserted) = AsArray(Heard(mirror))
        BY <2>2, <3>1, <3>2 DEF Heard
      <3>4. AsSeq(AsArray(Heard(mirror))) = Heard(mirror)
        BY <2>6, SeqAsArray
      <3>5. QED
        BY <3>3, <3>4
    <2> HIDE DEF told
    <2>8. m \in Mirrors /\ Heard(m) = Heard(mirror) /\ m.sliced = mirror.sliced /\ m.pending = None
      BY <2>6, <2>7 DEF Mirrors, Heard
    <2> HIDE DEF m
    <2>9. MirrorInv'
      BY <2>4, <2>5, <2>6, <2>8 DEF MirrorInv, Follows
    <2>10. FlushInv'
      BY <2>3, <2>4, <2>8 DEF FlushInv
    <2>11. QED
      BY <2>4, <2>5, <2>9, <2>10 DEF ReplayInv
  <1>10. CASE UpdateFragmentsOfBatch
    <2> DEFINE c == [b EXCEPT !.fragments = FALSE, !.deferring = TRUE, !.which = b.deferred,
                              !.deferred = <<>>]
               v == IF Top(View).fragments THEN UpdateView(View) ELSE View
    <2>1. b.which = <<>> /\ ~ b.deferring
      BY <1>1, <1>10 DEF UpdateFragmentsOfBatch, Quiet
    <2>2. c \in Batch /\ Queued(c, mirror.pending)
      BY <1>1, <1>5, <2>1 DEF Batch, Queued
    <2>3. IsView(v) /\ v.list = list /\ v.mirror = mirror /\ v.batches = <<b>>
      <3>1. PICK s, f, n, t, i :
              UpdateView(View) = [View EXCEPT !.section = s, !.fragments = f, !.nodes = n,
                                              !.texts = t, !.indexes = i]
        BY Zenon DEF UpdateView, Redrawn
      <3> DEFINE u == [View EXCEPT !.section = s, !.fragments = f, !.nodes = n,
                                   !.texts = t, !.indexes = i]
      <3>2. IsView(u) /\ u.list = list /\ u.mirror = mirror /\ u.batches = <<b>>
        BY <1>1, ViewIs DEF IsView
      <3>3. v \in {u, View}
        BY <3>1
      <3> HIDE DEF u, v
      <3>4. QED
        BY <1>1, <3>2, <3>3, ViewIs
    <2>4. Top(v) = b
      <3> HIDE DEF v
      <3>1. QED
        BY <2>3 DEF Top
    <2>5. Becomes(SetTop(v, c))
      BY <1>10, <2>4 DEF UpdateFragmentsOfBatch
    <2> HIDE DEF v, c
    <2>6. list' = list /\ mirror' = mirror /\ batches' = <<c>>
      BY <2>3, <2>5, SetTopBecomes
    <2>7. patched' = patched /\ watching' = watching
      BY <1>10 DEF UpdateFragmentsOfBatch, Stays
    <2>8. QED
      BY <2>2, <2>6, <2>7, QueueKeeps
  <1>11. CASE EndFlush
    <2>1. b.which = <<>> /\ b.deferring
      BY <1>1, <1>11 DEF EndFlush, Quiet
    <2>2. mirror.pending = None /\ b.deferred = <<>>
      BY <1>1, <2>1 DEF Queued
    <2>3. patched' = patched /\ watching' = watching
      BY <1>11 DEF EndFlush, Stays
    <2>4. CASE b.fragments \/ b.immediate # <<>> \/ b.deferred # <<>>
      <3> DEFINE e == [b EXCEPT !.deferring = FALSE]
                 u == SetTop(View, e)
                 c == [e EXCEPT !.which = e.immediate, !.immediate = <<>>]
      <3>1. IsView(u) /\ u.list = list /\ u.mirror = mirror /\ u.batches = <<e>>
        <4> HIDE DEF e
        <4>1. u = [View EXCEPT !.batches[Len(View.batches)] = e]
          BY DEF SetTop
        <4>2. View.batches = <<b>> /\ Len(<<b>>) = 1
          BY <1>1, ViewIs
        <4>3. [<<b>> EXCEPT ![1] = e] = <<e>>
          OBVIOUS
        <4> HIDE DEF u
        <4>4. QED
          BY <4>1, <4>2, <4>3, ViewIs DEF IsView
      <3>2. Top(u) = e
        <4> HIDE DEF e, u
        <4>1. QED
          BY <3>1 DEF Top
      <3>3. Becomes(flushChanges(u))
        BY <1>1, <1>11, <2>4 DEF EndFlush
      <3>4. flushChanges(u) = SetTop(u, c)
        BY <3>2 DEF flushChanges
      <3>5. c \in Batch /\ Queued(c, mirror.pending)
        BY <1>1, <1>5, <2>2 DEF Batch, Queued
      <3> HIDE DEF e, u, c
      <3>6. list' = list /\ mirror' = mirror /\ batches' = <<c>>
        BY <3>1, <3>3, <3>4, SetTopBecomes
      <3>7. QED
        BY <2>3, <3>5, <3>6, QueueKeeps
    <2>5. CASE ~ (b.fragments \/ b.immediate # <<>> \/ b.deferred # <<>>)
      <3>1. Becomes([View EXCEPT !.batches = Front(@)])
        BY <1>1, <1>11, <2>5 DEF EndFlush
      <3>2. list' = list /\ mirror' = mirror /\ batches' = Front(batches)
        BY <3>1 DEF Becomes, View
      <3>3. Front(batches) = <<>>
        BY <1>1, SubSeqEmpty DEF Front
      <3>4. FlushInv'
        BY <2>2, <3>2, <3>3 DEF FlushInv
      <3>5. MirrorInv'
        BY <2>3, <3>2 DEF ReplayInv, MirrorInv
      <3>6. QED
        BY <2>3, <3>2, <3>4, <3>5 DEF ReplayInv
    <2>6. QED
      BY <2>4, <2>5
  <1>12. QED
    BY <1>6, <1>7, <1>8, <1>9, <1>10, <1>11 DEF Work

\* An array in another order is an array of as many elements.
LEMMA Rearranged ==
    ASSUME list \in Lists, list # Absent, NEW order \in [DOMAIN list -> DOMAIN list]
    PROVE  [i \in DOMAIN list |-> list[order[i]]] \in Lists
  <1>1. PICK n \in 0 .. MaxLength : list \in [0 .. n - 1 -> Items]
    BY DEF Lists, Arrays
  <1>2. DOMAIN list = 0 .. n - 1
    BY <1>1
  <1>3. [i \in 0 .. n - 1 |-> list[order[i]]] \in [0 .. n - 1 -> Items]
    BY <1>1, <1>2
  <1>4. QED
    BY <1>2, <1>3 DEF Lists, Arrays

\* Only the observer of the array matters to the copy, and no step changes
\* which observers there are.
LEMMA SameObservers == ASSUME [Next]_vars PROVE watching' = watching
  BY DEF Next, Push, Unshift, Pop, Shift, Splice, Rearrange, SetList, SetElement, Merge, Stays,
         Work, DispatchFirst, Returned, DispatchPattern, DispatchArray, UpdateFragmentsOfBatch,
         EndFlush, vars

\* Every step keeps the invariant.
LEMMA ReplayNext ==
    ASSUME Apart, Unrepeated, ReplayInv, [Next]_vars
    PROVE  ReplayInv'
  <1>1. watching' = watching
    BY SameObservers
  <1>2. CASE "array" \notin watching
    BY <1>1, <1>2 DEF ReplayInv
  <1>3. CASE "array" \in watching
    <2>1. list \in Lists /\ <<>> \in Seq(Items) /\ Len(<<>>) = 0
      BY <1>3, EmptySeq DEF ReplayInv
    <2>2. Len(Content(list)) + Len(<<>>) <= MaxLength
      BY <2>1, ContentType, BoundAssumption
    <2> PICK zero \in Nat : zero = 0
      OBVIOUS
    <2> zero \in Int
      OBVIOUS
    <2>3. ASSUME NEW x \in Items, Push(x) PROVE ReplayInv'
      <3>1. <<x>> \in Seq(Items) /\ Len(<<x>>) = 1
        OBVIOUS
      <3>2. Len(Content(list)) + Len(<<x>>) <= MaxLength
        BY <2>1, <2>3, <3>1, RoomIs DEF Push
      <3>3. QED
        <4>1. MethodStep("push", zero, zero, <<x>>) /\ "push" \in Methods
          BY <2>3 DEF Push, MethodStep, Methods
        <4>2. QED
          BY <1>1, <1>3, <3>1, <3>2, <4>1, MethodKeeps
    <2>4. ASSUME NEW x \in Items, Unshift(x) PROVE ReplayInv'
      <3>1. <<x>> \in Seq(Items) /\ Len(<<x>>) = 1
        OBVIOUS
      <3>2. Len(Content(list)) + Len(<<x>>) <= MaxLength
        BY <2>1, <2>4, <3>1, RoomIs DEF Unshift
      <3>3. QED
        <4>1. MethodStep("unshift", zero, zero, <<x>>) /\ "unshift" \in Methods
          BY <2>4 DEF Unshift, MethodStep, Methods
        <4>2. QED
          BY <1>1, <1>3, <3>1, <3>2, <4>1, MethodKeeps
    <2>5. CASE Pop
      <3>1. MethodStep("pop", zero, zero, <<>>) /\ "pop" \in Methods
        BY <2>5 DEF Pop, MethodStep, Methods
      <3>2. QED
        BY <1>1, <1>3, <2>1, <2>2, <3>1, MethodKeeps
    <2>6. CASE Shift
      <3>1. MethodStep("shift", zero, zero, <<>>) /\ "shift" \in Methods
        BY <2>6 DEF Shift, MethodStep, Methods
      <3>2. QED
        BY <1>1, <1>3, <2>1, <2>2, <3>1, MethodKeeps
    <2>7. ASSUME NEW begin \in Int, NEW drop \in Nat, NEW added \in Seq(Items),
                 Splice(begin, drop, added)
          PROVE  ReplayInv'
      <3>1. Len(added) \in Nat
        BY LenProperties
      <3>2. Len(Content(list)) + Len(added) <= MaxLength
        BY <2>1, <2>7, <3>1, RoomIs DEF Splice
      <3>3. QED
        <4>1. MethodStep("splice", begin, drop, added) /\ "splice" \in Methods
          BY <2>7 DEF Splice, MethodStep, Methods
        <4>2. QED
          BY <1>1, <1>3, <2>7, <3>2, <4>1, MethodKeeps
    <2>8. CASE Rearrange
      <3>1. PICK order \in [DOMAIN list -> DOMAIN list] :
              Call(applyValue(start(View), [i \in DOMAIN list |-> list[order[i]]]))
        BY <2>8 DEF Rearrange
      <3>2. PICK value \in Lists : value = [i \in DOMAIN list |-> list[order[i]]]
        BY <2>1, <2>8, Rearranged DEF Rearrange
      <3>3. Call(applyValue(start(View), value))
        BY <3>1, <3>2
      <3>4. patched' = FALSE
        BY <2>8 DEF Rearrange
      <3>5. QED
        BY <1>1, <1>3, <3>3, <3>4, ValueKeeps
    <2>9. ASSUME NEW value \in Lists, SetList(value) PROVE ReplayInv'
      BY <1>1, <1>3, <2>9, ValueKeeps DEF SetList
    <2>10. ASSUME NEW x \in Items, NEW k \in Keys, SetElement(k, x) PROVE ReplayInv'
      BY <1>3, <2>10, ElementKeeps
    <2>11. ASSUME NEW new \in Arrays, Merge(new) PROVE ReplayInv'
      BY <1>3, <2>11, MergeKeeps
    <2>12. CASE Work
      BY <1>3, <2>12, WorkKeeps
    <2>13. CASE UNCHANGED vars
      BY <2>13 DEF vars, ReplayInv, FlushInv, MirrorInv
    <2>14. ASSUME NEW begin \in -(MaxLength + 1) .. MaxLength + 1, NEW drop \in 0 .. MaxLength,
                  NEW added \in {<<>>} \cup {<<x>> : x \in Items}, Splice(begin, drop, added)
           PROVE  ReplayInv'
      <3>1. MaxLength \in Nat
        BY BoundAssumption
      <3>2. \A x \in Items : <<x>> \in Seq(Items)
        OBVIOUS
      <3>3. added \in Seq(Items)
        BY <2>1, <3>2
      <3>4. QED
        BY <2>7, <2>14, <3>1, <3>3
    <2>15. QED
      BY <2>3, <2>4, <2>5, <2>6, <2>8, <2>9, <2>10, <2>11, <2>12, <2>13, <2>14 DEF Next
  <1>4. QED
    BY <1>2, <1>3

\* When a call is over nothing is pending, and the copy is the array.
LEMMA ReplayedThen == ReplayInv => ArrayReplayed
  BY DEF ReplayInv, FlushInv, MirrorInv, Heard, Content, Idle, ArrayReplayed

\* A copy of the list that is only ever told the reports of the array's
\* observer is the list whenever no call is under way, whatever was called: the
\* array methods, a list set whole, sorted or reversed.  (Reports do not tell
\* of elements set one by one, nor of what a merge changed in its place.)
THEOREM ArrayAlwaysReplayed ==
    ASSUME Apart, Unrepeated
    PROVE  Spec => []ArrayReplayed
  <1>1. Init => ReplayInv
    BY ReplayInit
  <1>2. ReplayInv /\ [Next]_vars => ReplayInv'
    BY ReplayNext
  <1>3. ReplayInv => ArrayReplayed
    BY ReplayedThen
  <1>4. QED
    BY <1>1, <1>2, <1>3, PTL DEF Spec
-------------------------------------------------------------------------------
\* What the observers know in the course of a call.  `sees` says that there is
\* an observer of list.0, `heeds` that there is one of list.* which has been told
\* enough so far.

Has(q, o) == \E i \in DOMAIN q : q[i] = o
Queues == {<<>>, <<"first">>, <<"pattern">>, <<"first", "pattern">>, <<"pattern", "first">>}
Deferreds == {<<>>, <<"array">>}
Models(value) == [k \in Keys |-> IF value = Absent THEN None ELSE At(value, k)]
PresentIn(value) == IF value = Absent THEN {} ELSE DOMAIN value

IsFirst(f) == DOMAIN f = {"dirty", "oldValue", "newValue", "told"} /\ f.dirty \in BOOLEAN
IsPattern(p) ==
    /\ DOMAIN p = {"dirty", "changed", "newValues", "oldValues", "partial", "told"}
    /\ p.dirty \in BOOLEAN /\ p.partial \in BOOLEAN

\* The observer of list.0 has been told its value, or is about to be.
FirstKnows(f, x) == IF f.dirty THEN f.newValue = x ELSE f.told = f.oldValue /\ f.oldValue = x
\* It is queued once when it is dirty; inside its own callback it is not.
FirstIn(f, outer, q) == IF outer = <<>> THEN f.dirty <=> Has(q, "first")
                                        ELSE f.dirty /\ f.told = f.newValue /\ ~ Has(q, "first")
FirstWell(sees, f, x, outer, q) ==
    IF sees THEN FirstKnows(f, x) /\ FirstIn(f, outer, q) ELSE outer = <<>> /\ ~ Has(q, "first")

\* What the pattern observer counts as told has been told, and it holds nothing
\* back; of key k it has been told, or is about to be, that it holds x.
ToldOld(p) == /\ \A k \in DOMAIN p.oldValues : k \in DOMAIN p.told /\ p.told[k] = p.oldValues[k]
              /\ ~ p.dirty => p.newValues = Nothing
Sure(p, k, x) ==
    IF k \in DOMAIN p.newValues THEN p.newValues[k] = x
    ELSE (p.dirty => p.partial) /\ k \in DOMAIN p.oldValues /\ p.oldValues[k] = x
Knows(p, present, child_) == /\ ToldOld(p) /\ p.changed = {}
                             /\ \A k \in present : Sure(p, k, child_[k])
\* Before it looks: it is notified of the whole, or of all keys it is not sure of.
Notified(p, present, child_) ==
    /\ ToldOld(p)
    /\ \/ p.changed = {} /\ ~ p.dirty
       \/ /\ \E k \in present : k \in p.changed
          /\ \A k \in present \ p.changed : Sure(p, k, child_[k])
\* It is in a queue if it is dirty, and in two only if what it is to tell can be
\* told in parts.
PatternIn(p, outer, q) ==
    LET inside  == Has(q, "pattern")
        outside == outer # <<>> /\ Has(outer[1].which, "pattern")
    IN /\ p.dirty => inside \/ outside
       /\ inside \/ outside => p.dirty \/ p.partial
       /\ inside /\ outside => p.partial

\* The queues a call can leave.
LEMMA QueueAdds ==
    ASSUME NEW q \in Queues
    PROVE  /\ addToArray(q, "pattern") \in Queues /\ addToArray(q, "first") \in Queues
           /\ Has(addToArray(q, "pattern"), "pattern") /\ Has(addToArray(q, "first"), "first")
           /\ Has(addToArray(q, "pattern"), "first") <=> Has(q, "first")
           /\ Has(addToArray(q, "first"), "pattern") <=> Has(q, "pattern")
  <1>1. CASE q = <<>>
    <2>1. addToArray(q, "pattern") = <<"pattern">> /\ addToArray(q, "first") = <<"first">>
      BY <1>1 DEF addToArray, Contains
    <2>2. QED
      BY <1>1, <2>1 DEF Queues, Has
  <1>2. CASE q = <<"first">>
    <2>1. Len(q) = 1 /\ q[1] = "first" /\ Append(q, "pattern") = <<"first", "pattern">>
      <3>1. PICK a, t : a = Append(<<"first">>, "pattern") /\ t = <<"first", "pattern">>
        OBVIOUS
      <3>2. /\ a \in Seq({"first", "pattern"}) /\ t \in Seq({"first", "pattern"})
            /\ Len(a) = 2 /\ Len(t) = 2 /\ a[1] = t[1] /\ a[2] = t[2]
        BY <3>1
      <3>3. a = t
        BY <3>2, SeqEqual
      <3>4. QED
        BY <1>2, <3>1, <3>3
    <2>2. ~ Contains(q, "pattern") /\ Contains(q, "first")
      BY <2>1 DEF Contains
    <2>3. addToArray(q, "pattern") = <<"first", "pattern">> /\ addToArray(q, "first") = q
      BY <2>1, <2>2 DEF addToArray
    <2>4. QED
      BY <1>2, <2>3 DEF Queues, Has
  <1>3. CASE q = <<"pattern">>
    <2>1. Len(q) = 1 /\ q[1] = "pattern" /\ Append(q, "first") = <<"pattern", "first">>
      <3>1. PICK a, t : a = Append(<<"pattern">>, "first") /\ t = <<"pattern", "first">>
        OBVIOUS
      <3>2. /\ a \in Seq({"first", "pattern"}) /\ t \in Seq({"first", "pattern"})
            /\ Len(a) = 2 /\ Len(t) = 2 /\ a[1] = t[1] /\ a[2] = t[2]
        BY <3>1
      <3>3. a = t
        BY <3>2, SeqEqual
      <3>4. QED
        BY <1>3, <3>1, <3>3
    <2>2. ~ Contains(q, "first") /\ Contains(q, "pattern")
      BY <2>1 DEF Contains
    <2>3. addToArray(q, "first") = <<"pattern", "first">> /\ addToArray(q, "pattern") = q
      BY <2>1, <2>2 DEF addToArray
    <2>4. QED
      BY <1>3, <2>3 DEF Queues, Has
  <1>4. CASE q \in {<<"first", "pattern">>, <<"pattern", "first">>}
    <2>1. /\ DOMAIN q = 1 .. 2 /\ Len(q) = 2
          /\ \/ q[1] = "first" /\ q[2] = "pattern"
             \/ q[1] = "pattern" /\ q[2] = "first"
      BY <1>4
    <2>2. /\ \E i \in 1 .. Len(q) : q[i] = "first"
          /\ \E i \in 1 .. Len(q) : q[i] = "pattern"
      BY <2>1
    <2>3. addToArray(q, "pattern") = q /\ addToArray(q, "first") = q
      BY <2>2 DEF addToArray, Contains
    <2>4. Has(q, "first") /\ Has(q, "pattern")
      BY <2>1 DEF Has
    <2>5. QED
      BY <2>3, <2>4
  <1>5. QED
    BY <1>1, <1>2, <1>3, <1>4 DEF Queues

LEMMA DeferredAdds ==
    ASSUME NEW d \in Deferreds
    PROVE  addToArray(d, "array") \in Deferreds
  <1>1. CASE d = <<>>
    BY <1>1 DEF addToArray, Contains, Deferreds
  <1>2. CASE d = <<"array">>
    <2>1. Len(d) = 1 /\ d[1] = "array"
      BY <1>2
    <2>2. \E i \in 1 .. Len(d) : d[i] = "array"
      BY <2>1
    <2>3. QED
      BY <2>2 DEF addToArray, Contains
  <1>3. QED
    BY <1>1, <1>2 DEF Deferreds

\* A call under way whose queues are these.
Under(v, outer, q, d) == /\ Calling(v, outer, q, d) /\ q \in Queues /\ d \in Deferreds
                         /\ IsFirst(v.first) /\ IsPattern(v.pattern)

\* The observer of list.0 looks.
LEMMA FirstLooks ==
    ASSUME NEW v, NEW outer, NEW q, NEW d, Under(v, outer, q, d),
           NEW sees \in BOOLEAN, sees <=> "first" \in watching,
           sees => /\ v.first.dirty => v.first.newValue = v.child[0]
                   /\ ~ v.first.dirty => v.first.told = v.first.oldValue
                   /\ FirstIn(v.first, outer, q),
           ~ sees => outer = <<>> /\ ~ Has(q, "first")
    PROVE  \E w, p :
             /\ w = FirstChanged(v) /\ Under(w, outer, p, d)
             /\ FirstWell(sees, w.first, v.child[0], outer, p)
             /\ w.list = v.list /\ w.child = v.child /\ w.pattern = v.pattern
  <1>1. CASE "first" \notin watching \/ v.first.dirty \/ v.child[0] = v.first.oldValue
    <2>1. FirstChanged(v) = v
      BY <1>1 DEF FirstChanged
    <2>2. FirstWell(sees, v.first, v.child[0], outer, q)
      BY <1>1 DEF FirstWell, FirstKnows, IsFirst, Under
    <2>3. QED
      BY <2>1, <2>2
  <1>2. CASE ~ ("first" \notin watching \/ v.first.dirty \/ v.child[0] = v.first.oldValue)
    <2>1. PICK f : f = [v.first EXCEPT !.newValue = v.child[0], !.dirty = TRUE]
      OBVIOUS
    <2>2. PICK u : u = [v EXCEPT !.first.newValue = v.child[0], !.first.dirty = TRUE]
      OBVIOUS
    <2>3. IsView(v) /\ Calling(v, outer, q, d) /\ q \in Queues
      BY DEF Calling, Under
    <2>4. /\ DOMAIN u = DOMAIN v /\ u.batches = v.batches /\ u.first = f
          /\ u.list = v.list /\ u.child = v.child /\ u.pattern = v.pattern
      BY <2>1, <2>2, <2>3 DEF IsView
    <2>5. IsFirst(f) /\ f.dirty /\ f.newValue = v.child[0]
      BY <2>1 DEF IsFirst, Under
    <2>6. Calling(u, outer, q, d)
      BY <2>3, <2>4, SameCalling
    <2>7. PICK w, p : w = addObserver(u, "first") /\ p = addToArray(q, "first")
      OBVIOUS
    <2>8. Calling(w, outer, p, d) /\ SameData(u, w)
      BY <2>6, <2>7, QueuedAtOnce
    <2>9. FirstChanged(v) = w
      BY <1>2, <2>2, <2>7 DEF FirstChanged
    <2>10. outer = <<>>
      BY <1>2 DEF FirstIn
    <2>11. p \in Queues /\ Has(p, "first")
      BY <2>3, <2>7, QueueAdds
    <2>12. FirstWell(sees, f, v.child[0], outer, p)
      BY <1>2, <2>5, <2>10, <2>11 DEF FirstWell, FirstKnows, FirstIn
    <2>13. /\ w.first = f /\ w.list = v.list /\ w.child = v.child /\ w.pattern = v.pattern
      BY <2>4, <2>8 DEF SameData
    <2>14. Under(w, outer, p, d)
      BY <2>5, <2>8, <2>11, <2>13 DEF Under
    <2>15. QED
      BY <2>9, <2>12, <2>13, <2>14
  <1>3. QED
    BY <1>1, <1>2

\* The pattern observer looks.
LEMMA PatternLooks ==
    ASSUME NEW v, NEW outer, NEW q, NEW d, Under(v, outer, q, d),
           NEW heeds \in BOOLEAN, heeds => "pattern" \in watching,
           heeds => /\ Notified(v.pattern, PresentIn(v.list), v.child)
                    /\ outer # <<>> => v.pattern.changed # {}
    PROVE  \E w, p :
             /\ w = PatternChanged(v) /\ Under(w, outer, p, d)
             /\ w.list = v.list /\ w.child = v.child /\ w.first = v.first
             /\ Has(p, "first") <=> Has(q, "first")
             /\ heeds => /\ Knows(w.pattern, PresentIn(v.list), v.child)
                         /\ PatternIn(w.pattern, outer, p)
  <1> DEFINE o       == v.pattern
             base    == IF o.dirty THEN o.newValues ELSE Nothing
             partial == o.changed # {}
             present == PresentIn(v.list)
             keys    == IF partial THEN o.changed \cap present ELSE present
             news    == Over([k \in keys |-> v.child[k]], base)
             dirty   == [o EXCEPT !.newValues = news, !.partial = partial, !.changed = {},
                                  !.dirty = TRUE]
             u       == [v EXCEPT !.pattern = dirty]
             idle    == "pattern" \notin watching \/ (o.dirty /\ ~ partial)
                          \/ (partial /\ keys = {})
  <1>1. PatternChanged(v) = IF idle THEN v ELSE addObserver(u, "pattern")
    BY DEF PatternChanged, Present, PresentIn
  <1>2. heeds => ~ idle
    BY DEF Notified
  <1>3. CASE idle
    BY <1>1, <1>2, <1>3
  <1>4. CASE ~ idle
    <2>1. IsView(v) /\ Calling(v, outer, q, d) /\ q \in Queues /\ IsPattern(o) /\ IsFirst(v.first)
      BY DEF Calling, Under
    <2>2. /\ IsPattern(dirty) /\ dirty.dirty /\ dirty.changed = {} /\ dirty.newValues = news
          /\ dirty.partial = partial /\ dirty.oldValues = o.oldValues /\ dirty.told = o.told
      <3> HIDE DEF news
      <3>1. QED
        BY <2>1 DEF IsPattern
    <2>3. heeds => Knows(dirty, present, v.child)
      <3>1. ASSUME heeds, NEW k \in present
            PROVE  Sure(dirty, k, v.child[k])
        <4>1. DOMAIN news = keys \cup DOMAIN base
          BY DEF Over
        <4>2. CASE k \in keys
          <5>1. k \in DOMAIN news /\ news[k] = v.child[k]
            BY <4>2 DEF Over
          <5> HIDE DEF news, dirty
          <5>2. QED
            BY <2>2, <5>1 DEF Sure
        <4>3. CASE k \notin keys
          <5>1. k \notin o.changed /\ partial /\ Sure(o, k, v.child[k]) /\ ToldOld(o)
            BY <3>1, <4>3 DEF Notified
          <5>2. base = o.newValues
            BY <5>1 DEF ToldOld
          <5>3. k \in DOMAIN news <=> k \in DOMAIN o.newValues
            BY <4>1, <4>3, <5>2
          <5>4. k \in DOMAIN o.newValues => news[k] = o.newValues[k]
            BY <4>3, <5>2 DEF Over
          <5> HIDE DEF news, dirty, partial
          <5>5. QED
            BY <2>2, <5>1, <5>3, <5>4 DEF Sure
        <4>4. QED
          BY <4>2, <4>3
      <3>2. heeds => ToldOld(dirty)
        <4> HIDE DEF dirty
        <4>1. QED
          BY <2>2 DEF ToldOld, Notified
      <3> HIDE DEF dirty, present
      <3>3. QED
        BY <2>2, <3>1, <3>2 DEF Knows
    <2> HIDE DEF news, dirty
    <2>4. /\ DOMAIN u = DOMAIN v /\ u.batches = v.batches /\ u.pattern = dirty
          /\ u.list = v.list /\ u.child = v.child /\ u.first = v.first
      BY <2>1 DEF IsView
    <2> HIDE DEF u
    <2>5. Calling(u, outer, q, d)
      BY <2>1, <2>4, SameCalling
    <2>6. PICK w, p : w = addObserver(u, "pattern") /\ p = addToArray(q, "pattern")
      OBVIOUS
    <2>7. Calling(w, outer, p, d) /\ SameData(u, w)
      BY <2>5, <2>6, QueuedAtOnce
    <2>8. p \in Queues /\ Has(p, "pattern") /\ (Has(p, "first") <=> Has(q, "first"))
      BY <2>1, <2>6, QueueAdds
    <2>9. /\ w.list = v.list /\ w.child = v.child /\ w.first = v.first /\ w.pattern = dirty
      BY <2>4, <2>7 DEF SameData
    <2>10. Under(w, outer, p, d)
      BY <2>1, <2>2, <2>7, <2>8, <2>9 DEF Under
    <2>11. heeds => PatternIn(dirty, outer, p)
      BY <2>2, <2>8 DEF PatternIn
    <2>12. PatternChanged(v) = w
      BY <1>1, <1>4, <2>6
    <2> HIDE DEF present, idle
    <2>13. QED
      BY <2>3, <2>8, <2>9, <2>10, <2>11, <2>12 DEF present
  <1>5. QED
    BY <1>3, <1>4

\* The data and these two observers are the same.
Alike(v, w) == /\ w.list = v.list /\ w.child = v.child
               /\ w.first = v.first /\ w.pattern = v.pattern

\* What a call does to the page leaves them alone.
LEMMA AlikeUnder ==
    ASSUME NEW v, NEW outer, NEW q, NEW d, Under(v, outer, q, d),
           NEW w, Calling(w, outer, q, d), SameData(v, w)
    PROVE  Under(w, outer, q, d) /\ Alike(v, w)
  BY DEF Under, Alike, SameData

\* As does what the array's observer notes,
LEMMA ArrayNotes ==
    ASSUME NEW v, NEW outer, NEW q, NEW d, Under(v, outer, q, d), NEW map
    PROVE  Under(ArrayShuffled(v, map), outer, q, d) /\ Alike(v, ArrayShuffled(v, map))
  <1>1. PICK s, p :
          ArrayShuffled(v, map) = IF "array" \notin watching THEN v ELSE
             [v EXCEPT !.mirror.sliced = s, !.mirror.pending = p]
    <2>1. PICK s, p : s = Content(v.list) /\ p = Report(Content(v.list), map)
      OBVIOUS
    <2>2. ArrayShuffled(v, map) = IF "array" \notin watching THEN v ELSE
             [v EXCEPT !.mirror.sliced = s, !.mirror.pending = p]
      BY <2>1 DEF ArrayShuffled, Content, Report
    <2>3. QED
      BY <2>2
  <1>2. PICK u : u = [v EXCEPT !.mirror.sliced = s, !.mirror.pending = p]
    OBVIOUS
  <1>3. IsView(v) /\ Calling(v, outer, q, d)
    BY DEF Calling, Under
  <1>4. DOMAIN u = DOMAIN v /\ u.batches = v.batches /\ Alike(v, u)
    BY <1>2, <1>3 DEF IsView, Alike
  <1>5. Calling(u, outer, q, d)
    BY <1>3, <1>4, SameCalling
  <1>6. Under(u, outer, q, d)
    BY <1>4, <1>5 DEF Under, Alike
  <1>7. Alike(v, v)
    BY DEF Alike
  <1>8. QED
    BY <1>1, <1>2, <1>4, <1>6, <1>7

\* And its being queued.
LEMMA ArrayLooks ==
    ASSUME NEW v, NEW outer, NEW q, NEW d, Under(v, outer, q, d), NEW path
    PROVE  \E w, e : w = ArrayChanged(v, path) /\ Under(w, outer, q, e) /\ Alike(v, w)
  <1>1. PICK map :
          ArrayChanged(v, path) \in {v, addObserver(v, "array"),
                                     addObserver(ArrayShuffled(v, map), "array")}
    BY Zenon DEF ArrayChanged
  <1>2. PICK u : u = ArrayShuffled(v, map)
    OBVIOUS
  <1>3. Under(u, outer, q, d) /\ Alike(v, u)
    BY <1>2, ArrayNotes
  <1>4. ASSUME NEW x, Under(x, outer, q, d), Alike(v, x)
        PROVE  \E w, e : w = addObserver(x, "array") /\ Under(w, outer, q, e) /\ Alike(v, w)
    <2>1. PICK w, e : w = addObserver(x, "array") /\ e = addToArray(d, "array")
      OBVIOUS
    <2>2. Calling(x, outer, q, d) /\ d \in Deferreds
      BY <1>4 DEF Under
    <2>3. Calling(w, outer, q, e) /\ SameData(x, w)
      BY <2>1, <2>2, QueuedForLater
    <2>4. e \in Deferreds
      BY <2>1, <2>2, DeferredAdds
    <2>5. Under(w, outer, q, e) /\ Alike(v, w)
      BY <1>4, <2>3, <2>4 DEF Under, Alike, SameData
    <2>6. QED
      BY <2>1, <2>5
  <1>5. Alike(v, v)
    BY DEF Alike
  <1>6. PICK w : w = ArrayChanged(v, path)
    OBVIOUS
  <1>7. CASE w = v
    BY <1>5, <1>6, <1>7
  <1>8. CASE w = addObserver(v, "array")
    BY <1>4, <1>5, <1>6, <1>8
  <1>9. CASE w = addObserver(u, "array")
    BY <1>3, <1>4, <1>6, <1>9
  <1>10. QED
    BY <1>1, <1>2, <1>6, <1>7, <1>8, <1>9

\* Notifying the pattern observer of keys.
LEMMA PatternHears ==
    ASSUME NEW v, NEW outer, NEW q, NEW d, Under(v, outer, q, d), NEW keys
    PROVE  \E w : /\ w = PatternNotified(v, keys) /\ Under(w, outer, q, d)
                  /\ w.list = v.list /\ w.child = v.child /\ w.first = v.first
                  /\ "pattern" \in watching =>
                       w.pattern = [v.pattern EXCEPT !.changed = @ \cup keys]
  <1>1. PICK u : u = [v EXCEPT !.pattern.changed = @ \cup keys]
    OBVIOUS
  <1>2. IsView(v) /\ Calling(v, outer, q, d)
    BY DEF Calling, Under
  <1>3. /\ DOMAIN u = DOMAIN v /\ u.batches = v.batches /\ u.list = v.list
        /\ u.child = v.child /\ u.first = v.first
        /\ u.pattern = [v.pattern EXCEPT !.changed = @ \cup keys]
    BY <1>1, <1>2 DEF IsView
  <1>4. Calling(u, outer, q, d)
    BY <1>2, <1>3, SameCalling
  <1>5. IsPattern(u.pattern)
    BY <1>3 DEF IsPattern, Under
  <1>6. Under(u, outer, q, d)
    BY <1>3, <1>4, <1>5 DEF Under
  <1>7. PatternNotified(v, keys) = IF "pattern" \in watching THEN u ELSE v
    BY <1>1 DEF PatternNotified
  <1>8. QED
    BY <1>3, <1>6, <1>7

-------------------------------------------------------------------------------
\* What a call tells.

\* The models have seen the data, and the observers know it or wait to be told.
Telling(v, outer, q, d, sees, heeds) ==
    /\ Under(v, outer, q, d) /\ v.list \in Lists /\ v.child = Models(v.list)
    /\ FirstWell(sees, v.first, v.child[0], outer, q)
    /\ heeds => /\ Knows(v.pattern, PresentIn(v.list), v.child)
                /\ PatternIn(v.pattern, outer, q)
Watched(sees, heeds) == /\ sees \in BOOLEAN /\ heeds \in BOOLEAN
                        /\ sees <=> "first" \in watching
                        /\ heeds => "pattern" \in watching

\* Marking the array, at the beginning of a call: the observer of list.0 looks if
\* its value is another.
LEMMA MarkTells ==
    ASSUME NEW v, Under(v, <<>>, <<>>, <<>>), v.list \in Lists, NEW sees, NEW heeds,
           Watched(sees, heeds), FirstWell(sees, v.first, v.child[0], <<>>, <<>>),
           heeds => Notified(v.pattern, PresentIn(v.list), Models(v.list))
    PROVE  \E w, q, d :
             /\ w = mark(v) /\ Telling(w, <<>>, q, d, sees, heeds) /\ w.list = v.list
             /\ Models(v.list)[0] = v.child[0] => w.first = v.first
  <1>1. PICK now : now = Models(v.list)
    OBVIOUS
  <1>2. now = [k \in Keys |-> retrieve(v, k)]
    BY <1>1 DEF Models, retrieve
  <1>3. PICK texts_ :
          mark(v) =
            LET changed == {k \in Keys : now[k] # v.child[k]}
                marked == BubbleAll([v EXCEPT !.child = now], texts_, "text")
                told == IF 0 \in changed THEN FirstChanged(marked) ELSE marked
            IN ArrayChanged(PatternChanged(BubbleSection(told)), None)
    BY <1>2, Zenon DEF mark
  <1>4. 0 \in Keys
    BY BoundAssumption DEF Keys
  <1>5. PICK u : u = [v EXCEPT !.child = now]
    OBVIOUS
  <1>6. PICK marked : marked = BubbleAll(u, texts_, "text")
    OBVIOUS
  <1>7. PICK told : told = IF now[0] # v.child[0] THEN FirstChanged(marked) ELSE marked
    OBVIOUS
  <1>8. mark(v) = ArrayChanged(PatternChanged(BubbleSection(told)), None)
    BY <1>3, <1>4, <1>5, <1>6, <1>7
  <1>9. Under(u, <<>>, <<>>, <<>>) /\ u.list = v.list /\ u.child = now
        /\ u.first = v.first /\ u.pattern = v.pattern
    <2>1. IsView(v) /\ Calling(v, <<>>, <<>>, <<>>)
      BY DEF Calling, Under
    <2>2. DOMAIN u = DOMAIN v /\ u.batches = v.batches /\ u.list = v.list /\ u.child = now
          /\ u.first = v.first /\ u.pattern = v.pattern
      BY <1>5, <2>1 DEF IsView
    <2>3. Calling(u, <<>>, <<>>, <<>>)
      BY <2>1, <2>2, SameCalling
    <2>4. QED
      BY <2>2, <2>3 DEF Under
  <1>10. Under(marked, <<>>, <<>>, <<>>) /\ Alike(u, marked)
    <2>1. Calling(u, <<>>, <<>>, <<>>)
      BY <1>9 DEF Under
    <2>2. Calling(marked, <<>>, <<>>, <<>>) /\ SameData(u, marked)
      BY <1>6, <2>1, BubbleAllCalls
    <2>3. QED
      BY <1>9, <2>2, AlikeUnder
  <1>11. PICK q, d :
           /\ Under(told, <<>>, q, d) /\ FirstWell(sees, told.first, now[0], <<>>, q)
           /\ told.list = v.list /\ told.child = now /\ told.pattern = v.pattern
           /\ now[0] = v.child[0] => told.first = v.first
    <2>1. /\ marked.list = v.list /\ marked.child = now
          /\ marked.first = v.first /\ marked.pattern = v.pattern
      BY <1>9, <1>10 DEF Alike
    <2>2. CASE now[0] = v.child[0]
      BY <1>7, <1>10, <2>1, <2>2
    <2>3. CASE now[0] # v.child[0]
      <3>1. ~ Has(<<>>, "first")
        BY DEF Has
      <3>2. sees => ~ v.first.dirty /\ v.first.told = v.first.oldValue
        BY <3>1 DEF FirstWell, FirstIn, FirstKnows
      <3>3. sees => /\ marked.first.dirty => marked.first.newValue = marked.child[0]
                    /\ ~ marked.first.dirty => marked.first.told = marked.first.oldValue
                    /\ FirstIn(marked.first, <<>>, <<>>)
        BY <2>1, <3>2 DEF FirstWell
      <3>4. ~ sees => <<>> = <<>> /\ ~ Has(<<>>, "first")
        BY <3>1
      <3>5. sees \in BOOLEAN /\ (sees <=> "first" \in watching)
        BY DEF Watched
      <3>6. \E w, p :
              /\ w = FirstChanged(marked) /\ Under(w, <<>>, p, <<>>)
              /\ FirstWell(sees, w.first, marked.child[0], <<>>, p)
              /\ w.list = marked.list /\ w.child = marked.child /\ w.pattern = marked.pattern
        BY <1>10, <3>3, <3>4, <3>5, FirstLooks
      <3>7. QED
        BY <1>7, <2>1, <2>3, <3>6
    <2>4. QED
      BY <2>2, <2>3
  <1>12. PICK bubbled : bubbled = BubbleSection(told)
    OBVIOUS
  <1>13. Under(bubbled, <<>>, q, d) /\ Alike(told, bubbled)
    <2>1. Calling(told, <<>>, q, d)
      BY <1>11 DEF Under
    <2>2. Calling(bubbled, <<>>, q, d) /\ SameData(told, bubbled)
      BY <1>12, <2>1, BubbleSectionCalls
    <2>3. QED
      BY <1>11, <2>2, AlikeUnder
  <1>14. bubbled.list = v.list /\ bubbled.child = now /\ bubbled.pattern = v.pattern
         /\ bubbled.first = told.first
    BY <1>11, <1>13 DEF Alike
  <1>15. PICK x, p :
           /\ x = PatternChanged(bubbled) /\ Under(x, <<>>, p, d)
           /\ x.list = bubbled.list /\ x.child = bubbled.child /\ x.first = bubbled.first
           /\ Has(p, "first") <=> Has(q, "first")
           /\ heeds => /\ Knows(x.pattern, PresentIn(bubbled.list), bubbled.child)
                       /\ PatternIn(x.pattern, <<>>, p)
    <2>1. heeds \in BOOLEAN /\ (heeds => "pattern" \in watching)
      BY DEF Watched
    <2>2. heeds => /\ Notified(bubbled.pattern, PresentIn(bubbled.list), bubbled.child)
                   /\ <<>> # <<>> => bubbled.pattern.changed # {}
      BY <1>1, <1>14
    <2>3. QED
      BY <1>13, <2>1, <2>2, PatternLooks
  <1>16. PICK w, e : w = ArrayChanged(x, None) /\ Under(w, <<>>, p, e) /\ Alike(x, w)
    BY <1>15, ArrayLooks
  <1>17. /\ w.list = v.list /\ w.child = now /\ w.first = told.first /\ w.pattern = x.pattern
    BY <1>14, <1>15, <1>16 DEF Alike
  <1>18. FirstWell(sees, w.first, w.child[0], <<>>, p)
    BY <1>11, <1>15, <1>17 DEF FirstWell, FirstIn
  <1>19. Telling(w, <<>>, p, e, sees, heeds)
    BY <1>1, <1>14, <1>15, <1>16, <1>17, <1>18 DEF Telling
  <1>20. w = mark(v)
    BY <1>8, <1>12, <1>15, <1>16
  <1>21. QED
    BY <1>1, <1>11, <1>17, <1>19, <1>20

\* A list that is there, its models, and its keys.
LEMMA ModelsAre ==
    ASSUME NEW value \in Lists
    PROVE  /\ DOMAIN Models(value) = Keys
           /\ value = Absent => \A k \in Keys : Models(value)[k] = None
           /\ value # Absent => /\ PresentIn(value) = DOMAIN value /\ DOMAIN value \subseteq Keys
                                /\ \A k \in DOMAIN value : Models(value)[k] = value[k]
  <1>1. CASE value = Absent
    BY <1>1 DEF Models
  <1>2. CASE value # Absent
    <2>1. PICK n \in 0 .. MaxLength : DOMAIN value = 0 .. n - 1
      BY <1>2, ContentType
    <2>2. DOMAIN value \subseteq Keys
      BY <2>1, BoundAssumption DEF Keys
    <2>3. QED
      BY <1>2, <2>2 DEF Models, At, PresentIn
  <1>3. QED
    BY <1>1, <1>2

\* The keys told of are all that hold something new, and one at least is there,
\* or none is told of.
TellsAll(keys, old, value) ==
    \/ keys = {}
    \/ /\ \E k \in DOMAIN value : k \in keys
       /\ \A k \in DOMAIN value \ keys : k \in DOMAIN old /\ value[k] = old[k]

\* The pattern observer is then notified of all it is not sure of.
LEMMA HearsEnough ==
    ASSUME NEW p, IsPattern(p), NEW old \in Lists, NEW value \in Lists, old # Absent,
           value # Absent, NEW keys, TellsAll(keys, old, value),
           Knows(p, PresentIn(old), Models(old)), keys = {} => ~ p.dirty,
           NEW r, r = [p EXCEPT !.changed = @ \cup keys]
    PROVE  Notified(r, PresentIn(value), Models(value))
  <1>1. /\ r.changed = keys /\ r.dirty = p.dirty /\ r.newValues = p.newValues
        /\ r.oldValues = p.oldValues /\ r.told = p.told /\ r.partial = p.partial
    BY DEF IsPattern, Knows
  <1>2. ToldOld(r)
    BY <1>1 DEF Knows, ToldOld
  <1>3. CASE keys = {}
    BY <1>1, <1>2, <1>3 DEF Notified
  <1>4. CASE keys # {}
    <2>1. \E k \in PresentIn(value) : k \in r.changed
      BY <1>1, <1>4, ModelsAre DEF TellsAll
    <2>2. ASSUME NEW k \in PresentIn(value) \ r.changed
          PROVE  Sure(r, k, Models(value)[k])
      <3>1. k \in DOMAIN value \ keys
        BY <1>1, ModelsAre
      <3>2. k \in DOMAIN old /\ value[k] = old[k]
        BY <1>4, <3>1 DEF TellsAll
      <3>3. k \in PresentIn(old) /\ Models(value)[k] = Models(old)[k]
        BY <3>1, <3>2, ModelsAre
      <3>4. Sure(p, k, Models(old)[k])
        BY <3>3 DEF Knows
      <3>5. QED
        BY <1>1, <3>3, <3>4 DEF Sure
    <2>3. QED
      BY <1>2, <2>1, <2>2 DEF Notified
  <1>5. QED
    BY <1>3, <1>4

\* Changing the list alone.
LEMMA ListChanges ==
    ASSUME NEW v, NEW outer, NEW q, NEW d, Under(v, outer, q, d), NEW value
    PROVE  \E u : /\ u = WithList(v, value) /\ Under(u, outer, q, d) /\ u.list = value
                  /\ u.child = v.child /\ u.first = v.first /\ u.pattern = v.pattern
  <1>1. PICK u : u = WithList(v, value)
    OBVIOUS
  <1>2. IsView(v) /\ Calling(v, outer, q, d)
    BY DEF Calling, Under
  <1>3. /\ DOMAIN u = DOMAIN v /\ u.batches = v.batches /\ u.list = value
        /\ u.child = v.child /\ u.first = v.first /\ u.pattern = v.pattern
    BY <1>1, <1>2 DEF IsView, WithList
  <1>4. Calling(u, outer, q, d)
    BY <1>2, <1>3, SameCalling
  <1>5. QED
    BY <1>1, <1>3, <1>4 DEF Under

\* At the beginning of a call nobody waits.
LEMMA NobodyWaits ==
    ASSUME NEW v, NEW sees, NEW heeds, Telling(v, <<>>, <<>>, <<>>, sees, heeds)
    PROVE  /\ sees => ~ v.first.dirty /\ v.first.told = v.first.oldValue
           /\ heeds => ~ v.pattern.dirty
  <1>1. ~ Has(<<>>, "first") /\ ~ Has(<<>>, "pattern")
    BY DEF Has
  <1>2. QED
    BY <1>1 DEF Telling, FirstWell, FirstIn, FirstKnows, PatternIn

\* The list set as a whole: everything is told.
LEMMA ValueTells ==
    ASSUME NEW v, NEW sees, NEW heeds, Watched(sees, heeds),
           Telling(v, <<>>, <<>>, <<>>, sees, heeds), NEW value \in Lists
    PROVE  \E w, q, d :
             /\ w = applyValue(v, value) /\ Telling(w, <<>>, q, d, sees, heeds)
             /\ w.list = value
             /\ Models(value)[0] = v.child[0] => w.first = v.first
  <1>1. CASE value = Absent /\ v.list = Absent
    BY <1>1 DEF applyValue
  <1>2. CASE ~ (value = Absent /\ v.list = Absent)
    <2>1. Under(v, <<>>, <<>>, <<>>)
      BY DEF Telling
    <2>2. PICK u : /\ u = WithList(v, value) /\ Under(u, <<>>, <<>>, <<>>) /\ u.list = value
                   /\ u.child = v.child /\ u.first = v.first /\ u.pattern = v.pattern
      BY <2>1, ListChanges
    <2>3. FirstWell(sees, u.first, u.child[0], <<>>, <<>>)
      BY <2>2 DEF Telling
    <2>4. heeds => Notified(u.pattern, PresentIn(u.list), Models(u.list))
      BY <2>2, NobodyWaits DEF Telling, Knows, Notified
    <2>5. PICK w, q, d :
            /\ w = mark(u) /\ Telling(w, <<>>, q, d, sees, heeds) /\ w.list = u.list
            /\ Models(u.list)[0] = u.child[0] => w.first = u.first
      BY <2>2, <2>3, <2>4, MarkTells
    <2>6. applyValue(v, value) = w
      BY <1>2, <2>2, <2>5 DEF applyValue, WithList
    <2>7. QED
      BY <2>2, <2>5, <2>6
  <1>3. QED
    BY <1>1, <1>2

\* What a shuffle tells the pattern observer of: elements that moved, and all
\* from the first that is touched.
Spoken(new, value) ==
    {i \in DOMAIN new.map : new.map[i] \notin {Gone, i}} \cup
    {i \in DOMAIN value : new.touchedFrom # None /\ i >= new.touchedFrom}

\* The list shuffled into another, if that is enough.
LEMMA ShuffleTells ==
    ASSUME NEW v, NEW sees, NEW heeds, Watched(sees, heeds),
           Telling(v, <<>>, <<>>, <<>>, sees, heeds), v.list # Absent,
           NEW value \in Lists, value # Absent, NEW new, NEW unsafe,
           heeds => TellsAll(Spoken(new, value), v.list, value)
    PROVE  \E w, q, d : /\ w = shuffle(WithList(v, value), new, unsafe)
                        /\ Telling(w, <<>>, q, d, sees, heeds)
  <1>1. Under(v, <<>>, <<>>, <<>>) /\ v.list \in Lists /\ v.child = Models(v.list)
    BY DEF Telling
  <1>2. PICK u : /\ u = WithList(v, value) /\ Under(u, <<>>, <<>>, <<>>) /\ u.list = value
                 /\ u.child = v.child /\ u.first = v.first /\ u.pattern = v.pattern
    BY <1>1, ListChanges
  <1>3. PICK t, i :
          shuffle(u, new, unsafe) =
            LET rebound  == Rebind(u, new.map, unsafe)
                listed   == ShuffleList(rebound, new)
                shuffled == ArrayShuffled(PatternShuffled(listed, new), new.map)
                marked   == mark(shuffled)
            IN [marked EXCEPT !.texts = t, !.indexes = i]
    BY Zenon DEF shuffle
  <1>4. PICK rebound : rebound = Rebind(u, new.map, unsafe)
    OBVIOUS
  <1>5. PICK listed : listed = ShuffleList(rebound, new)
    OBVIOUS
  <1>6. Under(listed, <<>>, <<>>, <<>>) /\ Alike(u, listed)
    <2>1. Calling(u, <<>>, <<>>, <<>>)
      BY <1>2 DEF Under
    <2>2. Calling(rebound, <<>>, <<>>, <<>>) /\ SameData(u, rebound)
      BY <1>4, <2>1, RebindCalls
    <2>3. Calling(listed, <<>>, <<>>, <<>>) /\ SameData(rebound, listed)
      BY <1>5, <2>2, ShuffleListCalls
    <2>4. SameData(u, listed)
      BY <2>2, <2>3 DEF SameData
    <2>5. QED
      BY <1>2, <2>3, <2>4, AlikeUnder
  <1>7. /\ listed.list = value /\ listed.child = v.child
        /\ listed.first = v.first /\ listed.pattern = v.pattern
    BY <1>2, <1>6 DEF Alike
  <1>8. PICK keys : keys = Spoken(new, value)
    OBVIOUS
  <1>9. PICK heard :
          /\ heard = PatternNotified(listed, keys) /\ Under(heard, <<>>, <<>>, <<>>)
          /\ heard.list = listed.list /\ heard.child = listed.child
          /\ heard.first = listed.first
          /\ "pattern" \in watching =>
               heard.pattern = [listed.pattern EXCEPT !.changed = @ \cup keys]
    BY <1>6, PatternHears
  <1>10. PatternShuffled(listed, new) = heard
    BY <1>7, <1>8, <1>9 DEF PatternShuffled, Spoken, Present
  <1>11. PICK noted : noted = ArrayShuffled(heard, new.map)
    OBVIOUS
  <1>12. Under(noted, <<>>, <<>>, <<>>) /\ Alike(heard, noted)
    BY <1>9, <1>11, ArrayNotes
  <1>13. noted.list = value /\ noted.child = v.child /\ noted.first = v.first
         /\ noted.pattern = heard.pattern
    BY <1>7, <1>9, <1>12 DEF Alike
  <1>14. heeds => Notified(noted.pattern, PresentIn(noted.list), Models(noted.list))
    <2>1. ASSUME heeds
          PROVE  Notified(heard.pattern, PresentIn(value), Models(value))
      <3>1. PICK p, r : p = v.pattern /\ r = heard.pattern
        OBVIOUS
      <3>2. r = [p EXCEPT !.changed = @ \cup keys]
        BY <1>7, <1>9, <2>1, <3>1 DEF Watched
      <3>3. IsPattern(p) /\ Knows(p, PresentIn(v.list), Models(v.list)) /\ ~ p.dirty
        BY <1>1, <2>1, <3>1, NobodyWaits DEF Telling, Under
      <3>4. TellsAll(keys, v.list, value)
        BY <1>8, <2>1
      <3>5. Notified(r, PresentIn(value), Models(value))
        BY <1>1, <3>2, <3>3, <3>4, HearsEnough
      <3>6. QED
        BY <3>1, <3>5
    <2>2. QED
      BY <1>13, <2>1
  <1>15. FirstWell(sees, noted.first, noted.child[0], <<>>, <<>>)
    BY <1>13 DEF Telling
  <1>16. PICK marked, q, d : marked = mark(noted) /\ Telling(marked, <<>>, q, d, sees, heeds)
    BY <1>12, <1>13, <1>14, <1>15, MarkTells
  <1>17. PICK w : w = [marked EXCEPT !.texts = t, !.indexes = i]
    OBVIOUS
  <1>18. Telling(w, <<>>, q, d, sees, heeds)
    <2>1. IsView(marked) /\ Calling(marked, <<>>, q, d) /\ Under(marked, <<>>, q, d)
      BY <1>16 DEF Telling, Under, Calling
    <2>2. DOMAIN w = DOMAIN marked /\ w.batches = marked.batches /\ Alike(marked, w)
      BY <1>17, <2>1 DEF IsView, Alike
    <2>3. Calling(w, <<>>, q, d)
      BY <2>1, <2>2, SameCalling
    <2>4. QED
      BY <1>16, <2>1, <2>2, <2>3 DEF Telling, Under, Alike
  <1>19. shuffle(u, new, unsafe) = w
    BY <1>3, <1>4, <1>5, <1>10, <1>11, <1>16, <1>17
  <1>20. QED
    BY <1>2, <1>18, <1>19

\* An element set.
WithElement(value, k, x) == [i \in DOMAIN value \cup {k} |-> IF i = k THEN x ELSE value[i]]

\* It is a list again, if it is set in its place or at its end.
LEMMA ElementSet ==
    ASSUME NEW value \in Lists, value # Absent, NEW k \in Keys, k <= Length(value), NEW x \in Items
    PROVE  /\ WithElement(value, k, x) \in Lists /\ WithElement(value, k, x) # Absent
           /\ Models(WithElement(value, k, x)) = [Models(value) EXCEPT ![k] = x]
           /\ TellsAll({k}, value, WithElement(value, k, x))
  <1>1. PICK n \in Nat : /\ n = Length(value) /\ n <= MaxLength
                         /\ value \in [0 .. n - 1 -> Items]
    BY ContentType, BoundAssumption
  <1>2. k \in Nat /\ k <= n /\ k <= MaxLength - 1 /\ MaxLength \in Nat
    BY <1>1, BoundAssumption DEF Keys
  <1>3. PICK p \in Nat : p = Most(n, k + 1) /\ n <= p /\ p <= MaxLength
                         /\ (0 .. n - 1) \cup {k} = 0 .. p - 1
    BY <1>1, <1>2 DEF Most
  <1>4. PICK l : l = WithElement(value, k, x)
    OBVIOUS
  <1>5. l = [i \in (0 .. n - 1) \cup {k} |-> IF i = k THEN x ELSE value[i]]
    BY <1>1, <1>4 DEF WithElement
  <1>6. l \in [0 .. p - 1 -> Items]
    BY <1>1, <1>3, <1>5
  <1>7. l \in Arrays
    <2>1. p \in 0 .. MaxLength
      BY <1>2, <1>3
    <2>2. QED
      BY <1>6, <2>1 DEF Arrays
  <1>8. l \in Lists /\ l # Absent
    BY <1>7, DistinctAssumption DEF Lists
  <1>9. Models(l) = [Models(value) EXCEPT ![k] = x]
    <2>1. ASSUME NEW i \in Keys
          PROVE  Models(l)[i] = IF i = k THEN x ELSE Models(value)[i]
      <3>1. DOMAIN l = (0 .. n - 1) \cup {k} /\ DOMAIN value = 0 .. n - 1
        BY <1>1, <1>5
      <3>2. CASE i \in DOMAIN l
        BY <1>5, <1>8, <3>1, <3>2 DEF Models, At
      <3>3. CASE i \notin DOMAIN l
        BY <1>8, <3>1, <3>3 DEF Models, At
      <3>4. QED
        BY <3>2, <3>3
    <2>2. Models(l) = [i \in Keys |-> Models(l)[i]]
          /\ Models(value) = [i \in Keys |-> Models(value)[i]]
      BY DEF Models
    <2>3. QED
      BY <2>1, <2>2
  <1>10. TellsAll({k}, value, l)
    <2>1. DOMAIN l = DOMAIN value \cup {k} /\ \A i \in DOMAIN l \ {k} : l[i] = value[i]
      BY <1>1, <1>5
    <2>2. QED
      BY <2>1 DEF TellsAll
  <1>11. QED
    BY <1>4, <1>8, <1>9, <1>10

\* An element set, by the application or in the callback of the observer of
\* list.0, which sets another: its key is told.
LEMMA ChildTells ==
    ASSUME NEW v, NEW outer, NEW sees, NEW heeds, Watched(sees, heeds),
           Telling(v, outer, <<>>, <<>>, sees, heeds), NEW k \in Keys, NEW x \in Items,
           k <= IF v.list = Absent THEN 0 ELSE Length(v.list),
           outer = <<>> \/ (v.list # Absent /\ k # 0)
    PROVE  \E w, q, d :
             w = applyChildValue(v, k, x) /\ Telling(w, outer, q, d, sees, heeds)
  <1>1. PICK there : there = IF v.list = Absent THEN applyValue(v, Nothing) ELSE v
    OBVIOUS
  <1>2. PICK l : l = [i \in DOMAIN there.list \cup {k} |-> IF i = k THEN x ELSE there.list[i]]
    OBVIOUS
  <1>3. PICK set : set = [there EXCEPT !.list = l, !.child[k] = x]
    OBVIOUS
  <1>4. PICK deps : deps = BubbleAll(set, set.texts[k], "text")
    OBVIOUS
  <1>5. PICK told : told = IF k = 0 THEN FirstChanged(deps) ELSE deps
    OBVIOUS
  <1>6. applyChildValue(v, k, x) = IF x = v.child[k] THEN v
          ELSE ArrayChanged(PatternChanged(BubbleSection(PatternNotified(told, {k}))), k)
    <2>1. set = [there EXCEPT
                   !.list = [i \in DOMAIN @ \cup {k} |-> IF i = k THEN x ELSE @[i]], !.child[k] = x]
      BY <1>2, <1>3
    <2>2. QED
      BY <1>1, <1>4, <1>5, <2>1 DEF applyChildValue
  <1>7. CASE x = v.child[k]
    BY <1>6, <1>7
  <1>8. CASE x # v.child[k]
    <2>1. PICK q, d :
            /\ Telling(there, outer, q, d, sees, heeds)
            /\ there.list \in Lists /\ there.list # Absent /\ k <= Length(there.list)
            /\ sees /\ outer = <<>> => ~ there.first.dirty
      <3>1. CASE v.list # Absent
        <4>1. there = v /\ v.list \in Lists
          BY <1>1, <3>1 DEF Telling
        <4>2. sees /\ outer = <<>> => ~ v.first.dirty
          BY NobodyWaits
        <4>3. QED
          BY <3>1, <4>1, <4>2
      <3>2. CASE v.list = Absent
        <4>1. outer = <<>> /\ k <= 0
          BY <3>2
        <4>2. Nothing \in Lists /\ Nothing # Absent /\ Length(Nothing) = 0
          <5>1. Nothing \in [0 .. 0 - 1 -> Items]
            BY DEF Nothing
          <5>2. 0 \in 0 .. MaxLength
            BY BoundAssumption
          <5>3. Nothing \in Arrays
            BY <5>1, <5>2 DEF Arrays
          <5>4. Nothing # Absent
            BY <5>3, DistinctAssumption
          <5>5. QED
            BY <5>1, <5>3, <5>4, ArrayAsSeq DEF Lists
        <4>3. Telling(v, <<>>, <<>>, <<>>, sees, heeds)
          BY <4>1
        <4>4. PICK w, q, d :
                /\ w = applyValue(v, Nothing) /\ Telling(w, <<>>, q, d, sees, heeds)
                /\ w.list = Nothing
                /\ Models(Nothing)[0] = v.child[0] => w.first = v.first
          BY <4>2, <4>3, ValueTells
        <4>5. Models(Nothing)[0] = v.child[0]
          <5>1. 0 \in Keys /\ DOMAIN Nothing = {}
            BY BoundAssumption DEF Keys, Nothing
          <5>2. Models(Nothing)[0] = None
            BY <4>2, <5>1 DEF Models, At
          <5>3. v.list \in Lists /\ v.child = Models(v.list)
            BY DEF Telling
          <5>4. QED
            BY <3>2, <5>1, <5>2, <5>3, ModelsAre
        <4>6. sees => ~ w.first.dirty
          BY <4>3, <4>4, <4>5, NobodyWaits
        <4>7. QED
          BY <1>1, <3>2, <4>1, <4>2, <4>4, <4>6
      <3>3. QED
        BY <3>1, <3>2
    <2>2. /\ Under(there, outer, q, d) /\ there.child = Models(there.list)
          /\ FirstWell(sees, there.first, there.child[0], outer, q)
      BY <2>1 DEF Telling
    <2>3. PICK old \in Lists : old = there.list /\ old # Absent /\ k <= Length(old)
      BY <2>1
    <2>4. l = WithElement(old, k, x)
      BY <1>2, <2>3 DEF WithElement
    <2>5. l \in Lists /\ l # Absent /\ Models(l) = [Models(old) EXCEPT ![k] = x]
          /\ TellsAll({k}, old, l)
      BY <2>3, <2>4, ElementSet
    <2>6. /\ Under(set, outer, q, d) /\ set.list = l /\ set.child = Models(l)
          /\ set.first = there.first /\ set.pattern = there.pattern
      <3>1. IsView(there) /\ Calling(there, outer, q, d)
        BY <2>2 DEF Under, Calling
      <3>2. /\ DOMAIN set = DOMAIN there /\ set.batches = there.batches /\ set.list = l
            /\ set.child = [there.child EXCEPT ![k] = x]
            /\ set.first = there.first /\ set.pattern = there.pattern
        BY <1>3, <3>1 DEF IsView
      <3>3. Calling(set, outer, q, d)
        BY <3>1, <3>2, SameCalling
      <3>4. QED
        BY <2>2, <2>3, <2>5, <3>2, <3>3 DEF Under
    <2>7. Under(deps, outer, q, d) /\ Alike(set, deps)
      <3>1. Calling(set, outer, q, d)
        BY <2>6 DEF Under
      <3>2. Calling(deps, outer, q, d) /\ SameData(set, deps)
        BY <1>4, <3>1, BubbleAllCalls
      <3>3. QED
        BY <2>6, <3>2, AlikeUnder
    <2>8. /\ deps.list = l /\ deps.child = Models(l)
          /\ deps.first = there.first /\ deps.pattern = there.pattern
      BY <2>6, <2>7 DEF Alike
    <2>9. PICK p :
            /\ Under(told, outer, p, d) /\ FirstWell(sees, told.first, Models(l)[0], outer, p)
            /\ told.list = l /\ told.child = Models(l) /\ told.pattern = there.pattern
      <3>1. CASE k # 0
        <4>1. Models(l)[0] = there.child[0]
          BY <2>2, <2>3, <2>5, <3>1, ModelsAre
        <4>2. QED
          BY <1>5, <2>2, <2>7, <2>8, <3>1, <4>1
      <3>2. CASE k = 0
        <4>1. outer = <<>>
          BY <3>2
        <4>2. sees => /\ deps.first.dirty => deps.first.newValue = deps.child[0]
                      /\ ~ deps.first.dirty => deps.first.told = deps.first.oldValue
                      /\ FirstIn(deps.first, outer, q)
          BY <2>1, <2>2, <2>8, <4>1 DEF FirstWell, FirstKnows
        <4>3. ~ sees => outer = <<>> /\ ~ Has(q, "first")
          BY <2>2 DEF FirstWell
        <4>4. sees \in BOOLEAN /\ (sees <=> "first" \in watching)
          BY DEF Watched
        <4>5. \E w, p :
                /\ w = FirstChanged(deps) /\ Under(w, outer, p, d)
                /\ FirstWell(sees, w.first, deps.child[0], outer, p)
                /\ w.list = deps.list /\ w.child = deps.child /\ w.pattern = deps.pattern
          BY <2>7, <4>2, <4>3, <4>4, FirstLooks
        <4>6. QED
          BY <1>5, <2>8, <3>2, <4>5
      <3>3. QED
        BY <3>1, <3>2
    <2>10. PICK heard :
             /\ heard = PatternNotified(told, {k}) /\ Under(heard, outer, p, d)
             /\ heard.list = told.list /\ heard.child = told.child /\ heard.first = told.first
             /\ "pattern" \in watching =>
                  heard.pattern = [told.pattern EXCEPT !.changed = @ \cup {k}]
      BY <2>9, PatternHears
    <2>11. PICK bubbled : bubbled = BubbleSection(heard)
      OBVIOUS
    <2>12. Under(bubbled, outer, p, d) /\ Alike(heard, bubbled)
      <3>1. Calling(heard, outer, p, d)
        BY <2>10 DEF Under
      <3>2. Calling(bubbled, outer, p, d) /\ SameData(heard, bubbled)
        BY <2>11, <3>1, BubbleSectionCalls
      <3>3. QED
        BY <2>10, <3>2, AlikeUnder
    <2>13. /\ bubbled.list = l /\ bubbled.child = Models(l)
           /\ bubbled.first = told.first /\ bubbled.pattern = heard.pattern
      BY <2>9, <2>10, <2>12 DEF Alike
    <2>14. heeds => /\ Notified(bubbled.pattern, PresentIn(bubbled.list), bubbled.child)
                    /\ bubbled.pattern.changed # {}
      <3>1. ASSUME heeds
            PROVE  /\ Notified(heard.pattern, PresentIn(l), Models(l))
                   /\ heard.pattern.changed # {}
        <4>1. PICK t, r : t = there.pattern /\ r = heard.pattern
          OBVIOUS
        <4>2. r = [t EXCEPT !.changed = @ \cup {k}]
          BY <2>9, <2>10, <3>1, <4>1 DEF Watched
        <4>3. IsPattern(t) /\ Knows(t, PresentIn(old), Models(old))
          BY <2>1, <2>2, <2>3, <3>1, <4>1 DEF Telling, Under
        <4>4. {k} # {}
          OBVIOUS
        <4>5. Notified(r, PresentIn(l), Models(l))
          BY <2>3, <2>5, <4>2, <4>3, <4>4, HearsEnough
        <4>6. k \in r.changed
          BY <4>2, <4>3 DEF IsPattern
        <4>7. QED
          BY <4>1, <4>5, <4>6
      <3>2. QED
        BY <2>13, <3>1
    <2>15. PICK y, s :
             /\ y = PatternChanged(bubbled) /\ Under(y, outer, s, d)
             /\ y.list = bubbled.list /\ y.child = bubbled.child /\ y.first = bubbled.first
             /\ Has(s, "first") <=> Has(p, "first")
             /\ heeds => /\ Knows(y.pattern, PresentIn(bubbled.list), bubbled.child)
                         /\ PatternIn(y.pattern, outer, s)
      <3>1. heeds \in BOOLEAN /\ (heeds => "pattern" \in watching)
        BY DEF Watched
      <3>2. heeds => /\ Notified(bubbled.pattern, PresentIn(bubbled.list), bubbled.child)
                     /\ outer # <<>> => bubbled.pattern.changed # {}
        BY <2>14
      <3>3. QED
        BY <2>12, <3>1, <3>2, PatternLooks
    <2>16. PICK w, e : w = ArrayChanged(y, k) /\ Under(w, outer, s, e) /\ Alike(y, w)
      BY <2>15, ArrayLooks
    <2>17. /\ w.list = l /\ w.child = Models(l)
           /\ w.first = told.first /\ w.pattern = y.pattern
      BY <2>13, <2>15, <2>16 DEF Alike
    <2>18. FirstWell(sees, w.first, w.child[0], outer, s)
      BY <2>9, <2>15, <2>17 DEF FirstWell, FirstIn
    <2>19. Telling(w, outer, s, e, sees, heeds)
      BY <2>5, <2>13, <2>15, <2>16, <2>17, <2>18 DEF Telling
    <2>20. applyChildValue(v, k, x) = w
      BY <1>6, <1>8, <2>10, <2>11, <2>15, <2>16
    <2>21. QED
      BY <2>19, <2>20
  <1>9. QED
    BY <1>7, <1>8

\* What a splice tells of is enough: every key from the first it touches, when
\* the length changes.  But it adds no more than one item: of two that start
\* beyond the end only the second would be told, since it counts as touched from
\* where it was asked to start.
LEMMA SpliceTellsAll ==
    ASSUME NEW value \in Lists, value # Absent, NEW method \in Methods, NEW begin, NEW drop,
           NEW added \in Seq(Items), Len(added) <= 1,
           NEW n \in Nat, NEW array, NEW splice, NEW result,
           Makes(value, method, begin, drop, added, n, array, splice, result)
    PROVE  TellsAll(Spoken(getNewIndices(n, splice), result), value, result)
  <1>1. PICK s, now : s = Content(value)
                      /\ now = SplicedSeq(s, splice.start, splice.drop, splice.added)
    OBVIOUS
  <1>2. /\ s \in Seq(Items) /\ Len(s) = n /\ value \in [0 .. n - 1 -> Items]
        /\ DOMAIN value = 0 .. n - 1
    BY <1>1, ContentType DEF Makes
  <1>3. \A i \in 0 .. n - 1 : value[i] = s[i + 1]
    <2>1. s = AsSeq(value) /\ \A i \in 1 .. n : AsSeq(value)[i] = value[i - 1]
      BY <1>1, <1>2, ArrayAsSeq DEF Content
    <2>2. QED
      BY <2>1
  <1>4. splice.start \in Nat /\ splice.drop \in Int /\ splice.added \in Seq(Items)
        /\ \/ (splice.start <= n /\ 0 <= splice.drop /\ splice.start + splice.drop <= n)
           \/ (splice.start > n /\ splice.drop <= 0)
    BY DEF Makes, SpliceOf
  <1>5. PICK b \in Nat, e \in Int, k \in Nat :
          b = splice.start /\ e = splice.drop /\ k = Len(splice.added) /\ k <= 1
    <2>1. Len(<<>>) = 0 /\ Len(added) \in Nat
      BY LenProperties
    <2>2. Len(splice.added) \in Nat /\ Len(splice.added) <= 1
      BY <2>1 DEF Makes
    <2>3. QED
      BY <1>4, <2>2
  <1>6. PICK map, t : map = getNewIndices(n, splice).map
                      /\ t = getNewIndices(n, splice).touchedFrom
    OBVIOUS
  <1>7. t = IF k - e = 0 THEN n ELSE b
    BY <1>5, <1>6 DEF getNewIndices
  <1>8. PICK f \in Nat, d \in Nat :
          /\ f = Least(b, n) /\ d = Most(e, 0) /\ f + d <= n /\ Least(f + d, n) = f + d
          /\ SpliceMap(map, n, f, d, k)
    <2>1. splice \in SpliceOf(Items, n)
      BY DEF Makes
    <2>2. \E f, d \in Nat :
             /\ f = Least(splice.start, n) /\ d = Most(splice.drop, 0) /\ f + d <= n
             /\ Least(f + d, n) = f + d
             /\ SpliceMap(getNewIndices(n, splice).map, n, f, d, Len(splice.added))
      BY <2>1, NewIndices
    <2>3. QED
      BY <1>5, <1>6, <2>2
  <1>9. DroppedBetween(Items, s, splice.added, now, f, f + d)
    <2>1. \E from, to \in Nat :
              /\ from = Least(splice.start, Len(s))
              /\ to = Least(from + Most(splice.drop, 0), Len(s))
              /\ DroppedBetween(Items, s, splice.added,
                                SplicedSeq(s, splice.start, splice.drop, splice.added), from, to)
      BY <1>2, <1>4, SplicedElements
    <2>2. QED
      BY <1>1, <1>2, <1>5, <1>8, <2>1
  <1>10. PICK m \in Nat : m = Len(now) /\ m = n + k - d
    BY <1>2, <1>5, <1>8, <1>9 DEF DroppedBetween
  <1>11. now \in Seq(Items) /\ result = AsArray(now)
    <2>1. /\ array = value /\ AsSeq(array) = s
          /\ result = Spliced(array, splice.start, splice.drop, splice.added)
      BY <1>1 DEF Makes
    <2>2. Spliced(value, splice.start, splice.drop, splice.added) =
            AsArray(SplicedSeq(AsSeq(value), splice.start, splice.drop, splice.added))
      BY <1>2, SplicedAsSeq
    <2>3. QED
      BY <1>1, <1>9, <2>1, <2>2 DEF DroppedBetween
  <1>12. result = [i \in 0 .. m - 1 |-> now[i + 1]]
    BY <1>10, <1>11 DEF AsArray
  <1>13. DOMAIN result = 0 .. m - 1 /\ \A i \in 0 .. m - 1 : result[i] = now[i + 1]
    BY <1>12
  <1>14. ASSUME NEW i \in 0 .. m - 1, i < f
         PROVE  i \in DOMAIN value /\ result[i] = value[i]
    <2>1. i \in 0 .. n - 1 /\ i + 1 \in 1 .. f
      BY <1>8, <1>14
    <2>2. now[i + 1] = s[i + 1]
      BY <1>9, <2>1 DEF DroppedBetween
    <2>3. QED
      BY <1>2, <1>3, <1>13, <2>1, <2>2
  <1>15. PICK keys : keys = Spoken(getNewIndices(n, splice), result)
    OBVIOUS
  <1>16. keys = {i \in 0 .. n - 1 : map[i] \notin {Gone, i}} \cup {i \in 0 .. m - 1 : i >= t}
    <2>1. DOMAIN map = 0 .. n - 1
      BY <1>8 DEF SpliceMap
    <2>2. t # None
      BY <1>7, DistinctAssumption
    <2>3. keys = {i \in DOMAIN map : map[i] \notin {Gone, i}} \cup
                 {i \in DOMAIN result : t # None /\ i >= t}
      BY <1>6, <1>15 DEF Spoken
    <2>4. QED
      BY <1>13, <2>1, <2>2, <2>3
  <1>17. /\ \A i \in 0 .. n - 1 : i < f => map[i] = i
         /\ \A i \in 0 .. n - 1 : f <= i /\ i < f + d => map[i] = Gone
         /\ \A i \in 0 .. n - 1 : f + d <= i => map[i] = i + k - d
    BY <1>8 DEF SpliceMap
  <1>18. (b <= n /\ f = b /\ d = e) \/ (b > n /\ f = n /\ d = 0 /\ e <= 0)
    BY <1>4, <1>5, <1>8 DEF Least, Most
  <1>19. CASE k = d /\ ~ (b > n /\ k # e)
    <2>1. t = n
      BY <1>7, <1>18, <1>19
    <2>2. \A i \in 0 .. n - 1 : map[i] \in {Gone, i}
      BY <1>8, <1>17, <1>19
    <2>3. keys = {}
      BY <1>10, <1>16, <1>19, <2>1, <2>2
    <2>4. QED
      BY <1>15, <2>3 DEF TellsAll
  <1>20. CASE b > n /\ k # e
    <2>1. t = b
      BY <1>7, <1>20
    <2>2. \A i \in 0 .. n - 1 : map[i] \in {Gone, i}
      BY <1>17, <1>18, <1>20
    <2>3. keys = {}
      BY <1>5, <1>10, <1>16, <1>18, <1>20, <2>1, <2>2
    <2>4. QED
      BY <1>15, <2>3 DEF TellsAll
  <1>21. CASE k # d /\ ~ (b > n /\ k # e)
    <2>1. b <= n /\ f = b /\ d = e /\ t = b
      BY <1>7, <1>18, <1>21
    <2>2. \A i \in DOMAIN result \ keys : i \in DOMAIN value /\ result[i] = value[i]
      BY <1>13, <1>14, <1>16, <2>1
    <2>3. ASSUME NEW i \in keys
          PROVE  \E j \in DOMAIN result : j \in keys
      <3>1. CASE i \in 0 .. m - 1
        BY <1>13, <3>1
      <3>2. CASE i \notin 0 .. m - 1
        <4>1. i \in 0 .. n - 1 /\ map[i] \notin {Gone, i}
          BY <1>16, <2>3, <3>2
        <4>2. ~ (i < f) /\ ~ (f <= i /\ i < f + d)
          BY <1>17, <4>1
        <4>3. f + d <= i
          BY <1>8, <4>1, <4>2
        <4>4. map[i] = i + k - d
          BY <1>17, <4>1, <4>3
        <4>5. PICK j \in Int : j = i + k - d
          BY <1>8, <4>1
        <4>6. j \in 0 .. m - 1 /\ j >= t
          BY <1>8, <1>10, <2>1, <4>1, <4>3, <4>5
        <4>7. QED
          BY <1>13, <1>16, <4>6
      <3>3. QED
        BY <3>1, <3>2
    <2>4. QED
      BY <1>15, <2>2, <2>3 DEF TellsAll
  <1>22. QED
    BY <1>19, <1>20, <1>21

\* What a merge tells of is enough, unless elements move among others that come
\* or go.
LEMMA MergeTellsAll ==
    ASSUME NEW old \in Arrays, NEW value \in Arrays,
           ~ Reshaped(merge(old, value).map, Length(value))
    PROVE  TellsAll(Spoken(merge(old, value), value), old, value)
  <1>1. old \in Lists /\ old # Absent /\ value \in Lists /\ value # Absent
    BY DistinctAssumption DEF Lists
  <1>2. PICK n \in Nat : old \in [0 .. n - 1 -> Items] /\ Length(old) = n
    BY <1>1, ContentType, BoundAssumption
  <1> PICK m \in Nat : value \in [0 .. m - 1 -> Items] /\ Length(value) = m
    BY <1>1, ContentType, BoundAssumption
  <1>3. PICK map : map = merge(old, value).map
    OBVIOUS
  <1>4. Truthful(map, n, m, old, value)
    BY <1>2, <1>3, MergeTellsTruth
  <1>5. merge(old, value).touchedFrom = None
    BY DEF merge
  <1>6. Spoken(merge(old, value), value) = {i \in 0 .. n - 1 : map[i] \notin {Gone, i}}
    BY <1>3, <1>4, <1>5 DEF Spoken, Truthful
  <1>7. PICK keys : keys = {i \in 0 .. n - 1 : map[i] \notin {Gone, i}}
    OBVIOUS
  <1>8. CASE keys = {}
    BY <1>6, <1>7, <1>8 DEF TellsAll
  <1>9. CASE keys # {}
    <2>1. Length(map) = m /\ \A i \in 0 .. n - 1 : map[i] # Gone
      <3>1. ~ Reshaped(map, m) /\ DOMAIN map = 0 .. n - 1
        BY <1>3, <1>4 DEF Truthful
      <3>2. PICK i \in 0 .. n - 1 : map[i] \notin {Gone, i}
        BY <1>7, <1>9
      <3>3. QED
        BY <3>1, <3>2 DEF Reshaped
    <2>2. Length(map) = n
      <3>1. PICK S : map \in [0 .. n - 1 -> S]
        BY <1>4 DEF Truthful
      <3>2. QED
        BY <3>1, ArrayAsSeq
    <2>3. DOMAIN value = 0 .. n - 1 /\ DOMAIN old = 0 .. n - 1
      BY <1>2, <2>1, <2>2
    <2>4. \A k \in 0 .. n - 1 : k \notin keys => value[k] = old[k]
      BY <1>4, <1>7, <2>1 DEF Truthful
    <2>5. QED
      BY <1>6, <1>7, <1>9, <2>3, <2>4 DEF TellsAll
  <1>10. QED
    BY <1>8, <1>9

\* An array method.
LEMMA MethodTells ==
    ASSUME NEW v, NEW sees, NEW heeds, Watched(sees, heeds),
           Telling(v, <<>>, <<>>, <<>>, sees, heeds), NEW method \in Methods,
           NEW begin \in Int, NEW drop \in Nat, NEW added \in Seq(Items), Len(added) <= 1,
           Len(Content(v.list)) + Len(added) <= MaxLength
    PROVE  \E w, q, d : /\ w = arrayMethod(v, method, begin, drop, added)
                        /\ Telling(w, <<>>, q, d, sees, heeds)
  <1>1. PICK value \in Lists : value = v.list
    BY DEF Telling
  <1>2. PICK n, array, splice, result :
          n \in Nat /\ Makes(value, method, begin, drop, added, n, array, splice, result)
    BY <1>1, MethodMakes
  <1>3. PICK new : new = getNewIndices(n, splice)
    OBVIOUS
  <1> PICK unsafe : unsafe = FALSE
    OBVIOUS
  <1>4. arrayMethod(v, method, begin, drop, added) =
          IF v.list = Absent THEN applyValue(v, result)
          ELSE shuffle(WithList(v, result), new, unsafe)
    <2>1. /\ array = (IF v.list = Absent THEN Nothing ELSE v.list) /\ Length(array) = n
          /\ splice = getSpliceEquivalent(n, method, begin, drop, added)
          /\ result = Spliced(array, splice.start, splice.drop, splice.added)
      BY <1>1, <1>2 DEF Makes
    <2>2. QED
      BY <1>3, <2>1 DEF arrayMethod, WithList
  <1>5. result \in Lists /\ result # Absent
    BY <1>2 DEF Makes
  <1>6. CASE v.list = Absent
    BY <1>4, <1>5, <1>6, ValueTells
  <1>7. CASE v.list # Absent
    <2>1. TellsAll(Spoken(new, result), v.list, result)
      BY <1>1, <1>2, <1>3, <1>7, SpliceTellsAll
    <2>2. \E w, q, d : /\ w = shuffle(WithList(v, result), new, unsafe)
                       /\ Telling(w, <<>>, q, d, sees, heeds)
      BY <1>5, <1>7, <2>1, ShuffleTells
    <2>3. QED
      BY <1>4, <1>7, <2>2
  <1>8. QED
    BY <1>6, <1>7

-------------------------------------------------------------------------------
\* What is told by the time a call is over.

FlushBatch == [immediate : {<<>>}, deferred : Deferreds, fragments : BOOLEAN,
               which : Queues \cup {<<"array">>}, deferring : BOOLEAN, calling : {None, "first"}]

\* A batch is flushed by itself, or inside the callback of the observer of list.0
\* which another batch is calling.
Outers == {<<>>} \cup {<<c>> : c \in {x \in FlushBatch :
                                        x.calling = "first" /\ ~ Has(x.which, "first")}}
FirstQueued(sees, f, outer, b) ==
    /\ b.calling = "first" => outer = <<>> /\ sees
    /\ IF sees THEN FirstIn(f, IF b.calling = "first" THEN <<b>> ELSE outer, b.which)
               ELSE outer = <<>> /\ ~ Has(b.which, "first")

\* Who is dirty waits in the queue of the batch, or of the one around it.
Waiting(bs, f, p, sees, heeds) ==
    \/ bs = <<>> /\ (sees => ~ f.dirty) /\ (heeds => ~ p.dirty)
    \/ \E outer \in Outers, b \in FlushBatch :
         /\ bs = Stack(outer, b) /\ FirstQueued(sees, f, outer, b)
         /\ heeds => PatternIn(p, outer, b.which)

Informed(l, c, f, p, bs, sees, heeds) ==
    /\ l \in Lists /\ c = Models(l) /\ IsFirst(f) /\ IsPattern(p)
    /\ sees => FirstKnows(f, c[0])
    /\ heeds => Knows(p, PresentIn(l), c)
    /\ Waiting(bs, f, p, sees, heeds)

\* The observers know the data, or wait to be told of it; but for the pattern
\* observer once a merge has moved elements among others that came or went.
TellInv ==
    \A sees, heeds \in BOOLEAN :
      (sees <=> "first" \in watching) /\ (heeds => "pattern" \in watching /\ ~ merged) =>
        Informed(list, child, first, pattern, batches, sees, heeds)

\* The next to be called is called once.
LEMMA QueueTail ==
    ASSUME NEW q \in Queues, q # <<>>
    PROVE  /\ Head(q) \in {"first", "pattern"} /\ Tail(q) \in Queues
           /\ Has(q, Head(q)) /\ ~ Has(Tail(q), Head(q))
           /\ \A o \in {"first", "pattern"} : o # Head(q) => (Has(Tail(q), o) <=> Has(q, o))
  <1>1. ASSUME NEW x \in {"first", "pattern"}, q = <<x>>
        PROVE  /\ Head(q) = x /\ Tail(q) = <<>>
               /\ Has(q, x) /\ \A o : o # x => ~ Has(q, o)
    BY <1>1 DEF Has
  <1>2. ASSUME NEW x \in {"first", "pattern"}, NEW y \in {"first", "pattern"}, x # y, q = <<x, y>>
        PROVE  /\ Head(q) = x /\ Tail(q) = <<y>> /\ Has(q, x) /\ Has(q, y)
    <2>1. /\ Head(q) = x /\ Tail(q) = <<y>> /\ DOMAIN q = 1 .. 2 /\ q[1] = x /\ q[2] = y
      <3>1. PICK t, s : t = Tail(q) /\ s = <<y>>
        OBVIOUS
      <3>2. /\ t \in Seq({"first", "pattern"}) /\ s \in Seq({"first", "pattern"})
            /\ Len(t) = 1 /\ Len(s) = 1 /\ t[1] = s[1]
        BY <1>2, <3>1
      <3>3. t = s
        BY <3>2, SeqEqual
      <3>4. QED
        BY <1>2, <3>1, <3>3
    <2>2. QED
      BY <2>1 DEF Has
  <1>3. /\ \A o : ~ Has(<<>>, o)
        /\ \A y, o : Has(<<y>>, o) <=> o = y
    BY DEF Has
  <1>4. CASE q \in {<<"first">>, <<"pattern">>}
    <2>1. PICK x \in {"first", "pattern"} : q = <<x>>
      BY <1>4
    <2>2. QED
      BY <1>1, <1>3, <2>1 DEF Queues
  <1>5. CASE q \in {<<"first", "pattern">>, <<"pattern", "first">>}
    <2>1. PICK x \in {"first", "pattern"}, y \in {"first", "pattern"} : x # y /\ q = <<x, y>>
      BY <1>5
    <2>2. /\ Head(q) = x /\ Tail(q) = <<y>> /\ Has(q, x) /\ Has(q, y)
      BY <1>2, <2>1
    <2>3. Tail(q) \in Queues
      BY <2>2 DEF Queues
    <2>4. QED
      BY <1>3, <2>1, <2>2, <2>3
  <1>6. QED
    BY <1>4, <1>5 DEF Queues

\* A call begins at rest, knowing what is known.
LEMMA TellingBegins ==
    ASSUME NEW sees, NEW heeds, Watched(sees, heeds), Idle,
           Informed(list, child, first, pattern, batches, sees, heeds)
    PROVE  \E v : v = start(View) /\ Telling(v, <<>>, <<>>, <<>>, sees, heeds) /\ v.list = list
  <1>1. PICK v : v = start(View)
    OBVIOUS
  <1>2. /\ IsView(v) /\ v.list = list /\ v.child = child /\ v.first = first
        /\ v.pattern = pattern /\ v.batches = <<NewBatch>>
    BY <1>1 DEF start, View, IsView, Idle
  <1>3. Calling(v, <<>>, <<>>, <<>>)
    BY <1>2 DEF Calling, Stack, NewBatch, CallBatch
  <1>4. <<>> \in Queues /\ <<>> \in Deferreds /\ ~ Has(<<>>, "first") /\ ~ Has(<<>>, "pattern")
    BY DEF Queues, Deferreds, Has
  <1>5. (sees => ~ first.dirty) /\ (heeds => ~ pattern.dirty)
    <2>1. ASSUME NEW outer, NEW b
          PROVE  Stack(outer, b) # <<>>
      BY DEF Stack
    <2>2. QED
      BY <2>1 DEF Informed, Waiting, Idle
  <1>6. FirstWell(sees, v.first, v.child[0], <<>>, <<>>)
    BY <1>2, <1>4, <1>5 DEF Informed, FirstWell, FirstIn
  <1>7. heeds => /\ Knows(v.pattern, PresentIn(v.list), v.child)
                 /\ PatternIn(v.pattern, <<>>, <<>>)
    BY <1>2, <1>4, <1>5 DEF Informed, PatternIn
  <1>8. Under(v, <<>>, <<>>, <<>>)
    BY <1>2, <1>3, <1>4 DEF Under, Informed
  <1>9. QED
    BY <1>1, <1>2, <1>6, <1>7, <1>8 DEF Telling, Informed

\* The step that leaves the innermost batch as `c` and does the rest of `u`.
LEMMA StackBecomes ==
    ASSUME NEW u, IsView(u), NEW outer, NEW b, u.batches = Stack(outer, b), NEW c,
           Becomes(SetTop(u, c))
    PROVE  /\ list' = u.list /\ child' = u.child /\ first' = u.first /\ pattern' = u.pattern
           /\ batches' = Stack(outer, c)
  <1>1. PICK w : w = SetTop(u, c)
    OBVIOUS
  <1>2. [u.batches EXCEPT ![Len(u.batches)] = c] = Stack(outer, c)
    BY DEF Stack
  <1>3. /\ w.list = u.list /\ w.child = u.child /\ w.first = u.first /\ w.pattern = u.pattern
        /\ w.batches = Stack(outer, c)
    BY <1>1, <1>2 DEF SetTop, IsView
  <1>4. /\ list' = w.list /\ child' = w.child /\ first' = w.first /\ pattern' = w.pattern
        /\ batches' = w.batches
    BY <1>1 DEF Becomes
  <1>5. QED
    BY <1>3, <1>4

\* A call ends by beginning to flush.
LEMMA TellingFlushes ==
    ASSUME NEW sees, NEW heeds, Watched(sees, heeds), NEW outer \in Outers, NEW w, NEW q, NEW d,
           Telling(w, outer, q, d, sees, heeds), Becomes(flushChanges(w))
    PROVE  Informed(list', child', first', pattern', batches', sees, heeds)
  <1>1. /\ IsView(w) /\ Calling(w, outer, q, d) /\ q \in Queues /\ d \in Deferreds
        /\ IsFirst(w.first) /\ IsPattern(w.pattern)
    BY DEF Telling, Under, Calling
  <1>2. PICK b \in CallBatch(q, d) : w.batches = Stack(outer, b) /\ Top(w) = b
    <2>1. PICK b \in CallBatch(q, d) : w.batches = Stack(outer, b)
      BY <1>1 DEF Calling
    <2>2. w.batches[Len(w.batches)] = b
      BY <2>1 DEF Stack
    <2>3. QED
      BY <2>1, <2>2 DEF Top
  <1>3. PICK c : c = [b EXCEPT !.which = b.immediate, !.immediate = <<>>]
    OBVIOUS
  <1>4. c \in FlushBatch /\ c.which = q /\ c.calling = None
    BY <1>1, <1>3 DEF CallBatch, FlushBatch
  <1>5. Becomes(SetTop(w, c))
    BY <1>2, <1>3 DEF flushChanges
  <1>6. /\ list' = w.list /\ child' = w.child /\ first' = w.first /\ pattern' = w.pattern
        /\ batches' = Stack(outer, c)
    BY <1>1, <1>2, <1>5, StackBecomes
  <1>7. None # "first"
    BY DistinctAssumption DEF Observers
  <1>8. FirstQueued(sees, w.first, outer, c) /\ (sees => FirstKnows(w.first, w.child[0]))
    BY <1>4, <1>7 DEF Telling, FirstWell, FirstQueued
  <1>9. Waiting(Stack(outer, c), w.first, w.pattern, sees, heeds)
    BY <1>4, <1>8 DEF Waiting, Telling
  <1>10. Informed(w.list, w.child, w.first, w.pattern, Stack(outer, c), sees, heeds)
    BY <1>1, <1>8, <1>9 DEF Informed, Telling
  <1>11. QED
    BY <1>6, <1>10

\* The same, of the state there is.
Now(sees, heeds) == Informed(list, child, first, pattern, batches, sees, heeds)

\* At the beginning there is nothing to know.
LEMMA TellInit == Init => TellInv
  <1> SUFFICES ASSUME Init, NEW sees \in BOOLEAN, NEW heeds \in BOOLEAN
               PROVE  Informed(list, child, first, pattern, batches, sees, heeds)
    BY DEF TellInv
  <1>1. /\ list = Absent /\ child = [k \in Keys |-> None] /\ batches = <<>>
        /\ first = [dirty |-> FALSE, oldValue |-> None, newValue |-> None, told |-> None]
        /\ pattern = [dirty |-> FALSE, changed |-> {}, newValues |-> Nothing,
                      oldValues |-> Nothing, partial |-> FALSE, told |-> Nothing]
    BY DEF Init
  <1>2. list \in Lists /\ child = Models(list) /\ PresentIn(list) = {}
    BY <1>1 DEF Lists, Models, PresentIn
  <1>3. 0 \in Keys
    BY BoundAssumption DEF Keys
  <1>4. IsFirst(first) /\ FirstKnows(first, child[0]) /\ ~ first.dirty
    BY <1>1, <1>3 DEF IsFirst, FirstKnows
  <1>5. IsPattern(pattern) /\ ~ pattern.dirty
    BY <1>1 DEF IsPattern
  <1>6. Knows(pattern, {}, child)
    <2>1. DOMAIN Nothing = {}
      BY DEF Nothing
    <2>2. QED
      BY <1>1, <2>1 DEF Knows, ToldOld
  <1>7. Waiting(batches, first, pattern, sees, heeds)
    BY <1>1, <1>4, <1>5 DEF Waiting
  <1>8. QED
    BY <1>2, <1>4, <1>5, <1>6, <1>7 DEF Informed

\* A call of an array method,
LEMMA MethodInforms ==
    ASSUME NEW sees, NEW heeds, Watched(sees, heeds), Now(sees, heeds), NEW method \in Methods,
           NEW begin \in Int, NEW drop \in Nat, NEW added \in Seq(Items), Len(added) <= 1,
           Len(Content(list)) + Len(added) <= MaxLength,
           MethodStep(method, begin, drop, added)
    PROVE  Now(sees, heeds)'
  <1>1. Idle /\ Becomes(flushChanges(arrayMethod(start(View), method, begin, drop, added)))
    BY DEF MethodStep, Call
  <1>2. PICK v : v = start(View) /\ Telling(v, <<>>, <<>>, <<>>, sees, heeds) /\ v.list = list
    BY <1>1, TellingBegins DEF Now
  <1>3. Len(Content(v.list)) + Len(added) <= MaxLength
    BY <1>2
  <1>4. PICK w, q, d : /\ w = arrayMethod(v, method, begin, drop, added)
                       /\ Telling(w, <<>>, q, d, sees, heeds)
    BY <1>2, <1>3, MethodTells
  <1>5. Becomes(flushChanges(w))
    BY <1>1, <1>2, <1>4
  <1>6. PICK outer \in Outers : outer = <<>>
    BY DEF Outers
  <1>7. Telling(w, outer, q, d, sees, heeds)
    BY <1>4, <1>6
  <1>8. QED
    BY <1>5, <1>7, TellingFlushes DEF Now

\* one that sets the list as a whole,
LEMMA ValueInforms ==
    ASSUME NEW sees, NEW heeds, Watched(sees, heeds), Now(sees, heeds), NEW value \in Lists,
           Call(applyValue(start(View), value))
    PROVE  Now(sees, heeds)'
  <1>1. Idle /\ Becomes(flushChanges(applyValue(start(View), value)))
    BY DEF Call
  <1>2. PICK v : v = start(View) /\ Telling(v, <<>>, <<>>, <<>>, sees, heeds) /\ v.list = list
    BY <1>1, TellingBegins DEF Now
  <1>3. PICK w, q, d : w = applyValue(v, value) /\ Telling(w, <<>>, q, d, sees, heeds)
    BY <1>2, ValueTells
  <1>4. Becomes(flushChanges(w))
    BY <1>1, <1>2, <1>3
  <1>5. PICK outer \in Outers : outer = <<>>
    BY DEF Outers
  <1>6. Telling(w, outer, q, d, sees, heeds)
    BY <1>3, <1>5
  <1>7. QED
    BY <1>4, <1>6, TellingFlushes DEF Now

\* one that sets an element,
LEMMA ElementInforms ==
    ASSUME NEW sees, NEW heeds, Watched(sees, heeds), Now(sees, heeds), NEW k \in Keys,
           NEW x \in Items, SetElement(k, x)
    PROVE  Now(sees, heeds)'
  <1>1. Idle /\ Becomes(flushChanges(applyChildValue(start(View), k, x)))
    BY DEF SetElement, Call
  <1>2. PICK v : v = start(View) /\ Telling(v, <<>>, <<>>, <<>>, sees, heeds) /\ v.list = list
    BY <1>1, TellingBegins DEF Now
  <1>3. k <= IF v.list = Absent THEN 0 ELSE Length(v.list)
    BY <1>2 DEF SetElement
  <1>4. PICK outer \in Outers : outer = <<>>
    BY DEF Outers
  <1>5. Telling(v, outer, <<>>, <<>>, sees, heeds)
    BY <1>2, <1>4
  <1>6. PICK w, q, d : w = applyChildValue(v, k, x) /\ Telling(w, outer, q, d, sees, heeds)
    BY <1>3, <1>4, <1>5, ChildTells
  <1>7. Becomes(flushChanges(w))
    BY <1>1, <1>2, <1>6
  <1>8. QED
    BY <1>6, <1>7, TellingFlushes DEF Now

\* and a merge.
LEMMA MergeInforms ==
    ASSUME NEW sees, NEW heeds, Watched(sees, heeds), Now(sees, heeds), NEW value \in Arrays,
           Merge(value), heeds => ~ Reshaped(merge(list, value).map, Length(value))
    PROVE  Now(sees, heeds)'
  <1>1. /\ Idle /\ list # Absent
        /\ Becomes(flushChanges(shuffle([start(View) EXCEPT !.list = value],
                                        merge(list, value), TRUE)))
    BY DEF Merge, Call
  <1>2. PICK v : v = start(View) /\ Telling(v, <<>>, <<>>, <<>>, sees, heeds) /\ v.list = list
    BY <1>1, TellingBegins DEF Now
  <1>3. v.list \in Arrays /\ v.list # Absent
    BY <1>1, <1>2 DEF Telling, Lists
  <1>4. value \in Lists /\ value # Absent
    BY DistinctAssumption DEF Lists
  <1>5. PICK new : new = merge(v.list, value)
    OBVIOUS
  <1>6. heeds => TellsAll(Spoken(new, value), v.list, value)
    <2>1. heeds => ~ Reshaped(merge(v.list, value).map, Length(value))
      BY <1>2
    <2>2. QED
      BY <1>3, <1>5, <2>1, MergeTellsAll
  <1>12. PICK unsafe : unsafe = TRUE
    OBVIOUS
  <1>7. PICK w, q, d : /\ w = shuffle(WithList(v, value), new, unsafe)
                       /\ Telling(w, <<>>, q, d, sees, heeds)
    <2>1. Telling(v, <<>>, <<>>, <<>>, sees, heeds) /\ v.list # Absent
      BY <1>2, <1>3
    <2>2. \E w, q, d : /\ w = shuffle(WithList(v, value), new, unsafe)
                       /\ Telling(w, <<>>, q, d, sees, heeds)
      BY <1>4, <1>6, <2>1, ShuffleTells
    <2>3. QED
      BY <2>2
  <1>8. Becomes(flushChanges(w))
    <2>1. new = merge(list, value) /\ WithList(v, value) = [start(View) EXCEPT !.list = value]
      BY <1>2, <1>5 DEF WithList
    <2>2. QED
      BY <1>1, <1>7, <1>12, <2>1
  <1>9. PICK outer \in Outers : outer = <<>>
    BY DEF Outers
  <1>10. Telling(w, outer, q, d, sees, heeds)
    BY <1>7, <1>9
  <1>11. QED
    BY <1>8, <1>10, TellingFlushes DEF Now

\* A batch being flushed, and who waits in it.
AtWork(sees, heeds, outer, b) ==
    /\ outer \in Outers /\ b \in FlushBatch /\ batches = Stack(outer, b)
    /\ FirstQueued(sees, first, outer, b)
    /\ heeds => PatternIn(pattern, outer, b.which)

LEMMA WorkBegins ==
    ASSUME NEW sees, NEW heeds, Now(sees, heeds), batches # <<>>
    PROVE  \E outer, b : AtWork(sees, heeds, outer, b)
  BY DEF Now, Informed, Waiting, AtWork

LEMMA WorkTop ==
    ASSUME NEW sees, NEW heeds, NEW outer, NEW b, AtWork(sees, heeds, outer, b)
    PROVE  Top(View) = b /\ IsView(View) /\ View.batches = Stack(outer, b)
  <1>1. View.batches = Stack(outer, b) /\ IsView(View)
    BY ViewIs DEF AtWork
  <1>2. PICK s : s = Stack(outer, b)
    OBVIOUS
  <1>3. s[Len(s)] = b
    BY <1>2 DEF Stack
  <1>4. QED
    BY <1>1, <1>2, <1>3 DEF Top

\* The batch becomes another in which the same wait.
LEMMA WorkGoesOn ==
    ASSUME NEW sees, NEW heeds, NEW outer \in Outers, NEW c \in FlushBatch,
           NEW f, NEW p, first' = f, pattern' = p, list' = list, child' = child,
           batches' = Stack(outer, c), Now(sees, heeds),
           IsFirst(f), IsPattern(p), sees => FirstKnows(f, child[0]),
           heeds => Knows(p, PresentIn(list), child) /\ PatternIn(p, outer, c.which),
           FirstQueued(sees, f, outer, c)
    PROVE  Now(sees, heeds)'
  <1>1. Waiting(Stack(outer, c), f, p, sees, heeds)
    BY DEF Waiting
  <1>2. Informed(list, child, f, p, Stack(outer, c), sees, heeds)
    BY <1>1 DEF Now, Informed
  <1>3. QED
    BY <1>2 DEF Now

\* The callback of the observer of list.0 has returned.
LEMMA ReturnedInforms ==
    ASSUME NEW sees, NEW heeds, Watched(sees, heeds), Now(sees, heeds), NEW outer, NEW b,
           AtWork(sees, heeds, outer, b), Returned
    PROVE  Now(sees, heeds)'
  <1>1. Top(View) = b /\ IsView(View) /\ View.batches = Stack(outer, b) /\ b \in FlushBatch
        /\ outer \in Outers
    BY WorkTop DEF AtWork
  <1>2. b.calling = "first"
    BY <1>1 DEF Returned
  <1>3. /\ sees /\ outer = <<>> /\ IsFirst(first) /\ first.dirty /\ first.told = first.newValue
        /\ ~ Has(b.which, "first") /\ first.newValue = child[0]
    <2>1. sees /\ outer = <<>> /\ FirstIn(first, <<b>>, b.which)
      BY <1>2 DEF AtWork, FirstQueued
    <2>2. FirstKnows(first, child[0]) /\ IsFirst(first)
      BY <2>1 DEF Now, Informed
    <2>3. <<b>> # <<>>
      OBVIOUS
    <2>4. QED
      BY <2>1, <2>2, <2>3 DEF FirstIn, FirstKnows
  <1>4. PICK f : f = [first EXCEPT !.oldValue = child[0], !.dirty = FALSE]
    OBVIOUS
  <1>5. /\ IsFirst(f) /\ ~ f.dirty /\ FirstKnows(f, child[0])
    BY <1>3, <1>4 DEF IsFirst, FirstKnows
  <1>6. PICK c : c = [b EXCEPT !.calling = None]
    OBVIOUS
  <1>7. c \in FlushBatch /\ c.which = b.which /\ c.calling = None
    BY <1>1, <1>6 DEF FlushBatch
  <1>8. PICK u : u = [View EXCEPT !.first.oldValue = child[0], !.first.dirty = FALSE]
    OBVIOUS
  <1>9. /\ IsView(u) /\ u.list = list /\ u.child = child /\ u.first = f /\ u.pattern = pattern
        /\ u.batches = Stack(outer, b)
    BY <1>1, <1>4, <1>8 DEF IsView, View
  <1>10. Becomes(SetTop(u, c))
    BY <1>1, <1>6, <1>8 DEF Returned
  <1>11. /\ list' = list /\ child' = child /\ first' = f /\ pattern' = pattern
         /\ batches' = Stack(outer, c)
    BY <1>9, <1>10, StackBecomes
  <1>12. FirstQueued(sees, f, outer, c)
    <2>1. None # "first"
      BY DistinctAssumption DEF Observers
    <2>2. QED
      BY <1>3, <1>5, <1>7, <2>1 DEF FirstQueued, FirstIn
  <1>13. PICK p : p = pattern
    OBVIOUS
  <1>14. /\ IsPattern(p)
         /\ heeds => Knows(p, PresentIn(list), child) /\ PatternIn(p, outer, c.which)
    BY <1>7, <1>13 DEF Now, Informed, AtWork
  <1>15. QED
    BY <1>1, <1>5, <1>7, <1>11, <1>12, <1>13, <1>14, WorkGoesOn

\* The pattern observer, told what it waits to be told.
PatternTold(p) ==
    LET new  == p.newValues
        old  == p.oldValues
        news == {k \in DOMAIN new : k \notin DOMAIN old \/ new[k] # old[k]}
    IN [p EXCEPT !.told = Over([k \in news |-> new[k]], @),
                 !.oldValues = IF p.partial THEN Over(new, @) ELSE new,
                 !.newValues = Nothing, !.dirty = FALSE]

\* It knows what it knew, and has been told it.
LEMMA ToldKnows ==
    ASSUME NEW p, IsPattern(p), NEW present, NEW child_, Knows(p, present, child_),
           NEW outer, NEW q, PatternIn(p, outer, q), Has(q, "pattern"),
           NEW t, ~ Has(t, "pattern")
    PROVE  /\ IsPattern(PatternTold(p)) /\ Knows(PatternTold(p), present, child_)
           /\ PatternIn(PatternTold(p), outer, t)
  <1> DEFINE new  == p.newValues
             old  == p.oldValues
             news == {k \in DOMAIN new : k \notin DOMAIN old \/ new[k] # old[k]}
             told == Over([k \in news |-> new[k]], p.told)
             kept == IF p.partial THEN Over(new, old) ELSE new
  <1>1. PICK r : r = [p EXCEPT !.told = told, !.oldValues = kept, !.newValues = Nothing,
                               !.dirty = FALSE]
    OBVIOUS
  <1>2. PatternTold(p) = r
    BY <1>1 DEF PatternTold
  <1>3. /\ IsPattern(r) /\ r.told = told /\ r.oldValues = kept /\ r.newValues = Nothing
        /\ ~ r.dirty /\ r.partial = p.partial /\ r.changed = p.changed
    BY <1>1 DEF IsPattern
  <1>4. ASSUME NEW k \in DOMAIN new
        PROVE  k \in DOMAIN kept /\ kept[k] = new[k]
    BY <1>4 DEF Over
  <1>5. ASSUME NEW k \in DOMAIN old, k \notin DOMAIN new, p.partial
        PROVE  k \in DOMAIN kept /\ kept[k] = old[k]
    BY <1>5 DEF Over
  <1>6. ASSUME NEW k \in DOMAIN kept
        PROVE  k \in DOMAIN told /\ told[k] = kept[k]
    <2>1. CASE k \in news
      BY <1>4, <2>1 DEF Over
    <2>2. CASE k \in DOMAIN new /\ k \notin news
      <3>1. k \in DOMAIN old /\ new[k] = old[k]
        BY <2>2
      <3>2. k \in DOMAIN p.told /\ p.told[k] = old[k]
        BY <3>1 DEF Knows, ToldOld
      <3>3. k \in DOMAIN told /\ told[k] = p.told[k]
        BY <2>2, <3>2 DEF Over
      <3>4. QED
        BY <1>4, <2>2, <3>1, <3>2, <3>3
    <2>3. CASE k \notin DOMAIN new
      <3>1. p.partial /\ k \in DOMAIN old /\ kept[k] = old[k]
        BY <1>6, <2>3 DEF Over
      <3>2. k \in DOMAIN p.told /\ p.told[k] = old[k]
        BY <3>1 DEF Knows, ToldOld
      <3>3. k \in DOMAIN told /\ told[k] = p.told[k]
        BY <2>3, <3>2 DEF Over
      <3>4. QED
        BY <3>1, <3>2, <3>3
    <2>4. QED
      BY <2>1, <2>2, <2>3
  <1>7. p.dirty \/ p.partial
    BY DEF PatternIn
  <1>8. ASSUME NEW k \in present
        PROVE  k \in DOMAIN kept /\ kept[k] = child_[k]
    <2>1. Sure(p, k, child_[k])
      BY DEF Knows
    <2>2. CASE k \in DOMAIN new
      BY <1>4, <2>1, <2>2 DEF Sure
    <2>3. CASE k \notin DOMAIN new
      <3>1. p.partial /\ k \in DOMAIN old /\ old[k] = child_[k]
        BY <1>7, <2>1, <2>3 DEF Sure
      <3>2. QED
        BY <1>5, <2>3, <3>1
    <2>4. QED
      BY <2>2, <2>3
  <1> HIDE DEF told, kept
  <1>9. DOMAIN Nothing = {}
    BY DEF Nothing
  <1>10. Knows(r, present, child_)
    <2>1. ToldOld(r)
      BY <1>3, <1>6 DEF ToldOld
    <2>2. ASSUME NEW k \in present
          PROVE  Sure(r, k, child_[k])
      BY <1>3, <1>8, <1>9 DEF Sure
    <2>3. QED
      BY <1>3, <2>1, <2>2 DEF Knows
  <1>11. PatternIn(r, outer, t)
    BY <1>3 DEF PatternIn
  <1>12. QED
    BY <1>2, <1>3, <1>10, <1>11

LEMMA PatternInforms ==
    ASSUME NEW sees, NEW heeds, Watched(sees, heeds), Now(sees, heeds), NEW outer, NEW b,
           AtWork(sees, heeds, outer, b), DispatchPattern
    PROVE  Now(sees, heeds)'
  <1>1. Top(View) = b /\ IsView(View) /\ View.batches = Stack(outer, b) /\ b \in FlushBatch
        /\ outer \in Outers
    BY WorkTop DEF AtWork
  <1>2. b.calling = None /\ b.which # <<>> /\ Head(b.which) = "pattern"
    BY <1>1 DEF DispatchPattern, Dispatching
  <1>3. b.which \in Queues
    <2>1. b.which # <<"array">>
      BY <1>2
    <2>2. QED
      BY <1>1, <2>1 DEF FlushBatch
  <1>4. /\ Tail(b.which) \in Queues /\ Has(b.which, "pattern") /\ ~ Has(Tail(b.which), "pattern")
        /\ Has(Tail(b.which), "first") <=> Has(b.which, "first")
    BY <1>2, <1>3, QueueTail
  <1>5. PICK c : c = [b EXCEPT !.which = Tail(b.which), !.calling = None]
    OBVIOUS
  <1>6. c \in FlushBatch /\ c.which = Tail(b.which) /\ c.calling = None
    BY <1>1, <1>4, <1>5 DEF FlushBatch
  <1>7. PICK p : p = PatternTold(pattern)
    OBVIOUS
  <1>8. PICK u : u = [View EXCEPT !.pattern = p]
    OBVIOUS
  <1>9. /\ IsView(u) /\ u.list = list /\ u.child = child /\ u.first = first /\ u.pattern = p
        /\ u.batches = Stack(outer, b)
    BY <1>1, <1>8 DEF IsView, View
  <1>10. Becomes(SetTop(u, c))
    <2>1. u = LET new  == pattern.newValues
                  old  == pattern.oldValues
                  news == {k \in DOMAIN new : k \notin DOMAIN old \/ new[k] # old[k]}
              IN [View EXCEPT !.pattern.told = Over([k \in news |-> new[k]], @),
                              !.pattern.oldValues = IF pattern.partial THEN Over(new, @) ELSE new,
                              !.pattern.newValues = Nothing,
                              !.pattern.dirty = FALSE]
      BY <1>7, <1>8, Zenon DEF PatternTold, View
    <2>2. Becomes(Taken(u, None))
      BY <2>1 DEF DispatchPattern
    <2>3. Top(u) = b
      <3>1. Top(View) = u.batches[Len(u.batches)]
        BY <1>1, <1>9 DEF Top
      <3>2. QED
        BY <1>1, <3>1 DEF Top
    <2>4. Taken(u, None) = SetTop(u, c)
      BY <1>5, <2>3 DEF Taken
    <2>5. QED
      BY <2>2, <2>4
  <1>11. /\ list' = list /\ child' = child /\ first' = first /\ pattern' = p
         /\ batches' = Stack(outer, c)
    BY <1>9, <1>10, StackBecomes
  <1>12. PICK f : f = first
    OBVIOUS
  <1>13. IsFirst(f) /\ (sees => FirstKnows(f, child[0]))
    BY <1>12 DEF Now, Informed
  <1>14. None # "first"
    BY DistinctAssumption DEF Observers
  <1>15. FirstQueued(sees, f, outer, c)
    BY <1>2, <1>4, <1>6, <1>12, <1>14 DEF AtWork, FirstQueued, FirstIn
  <1>16. IsPattern(p)
    <2>1. IsPattern(pattern)
      BY DEF Now, Informed
    <2>2. QED
      BY <1>7, <2>1 DEF PatternTold, IsPattern
  <1>17. heeds => Knows(p, PresentIn(list), child) /\ PatternIn(p, outer, c.which)
    <2>1. ASSUME heeds PROVE Knows(p, PresentIn(list), child) /\ PatternIn(p, outer, c.which)
      <3>1. /\ IsPattern(pattern) /\ Knows(pattern, PresentIn(list), child)
            /\ PatternIn(pattern, outer, b.which)
        BY <2>1 DEF Now, Informed, AtWork
      <3>2. QED
        BY <1>4, <1>6, <1>7, <3>1, ToldKnows
    <2>2. QED
      BY <2>1 DEF Watched
  <1>18. QED
    BY <1>1, <1>6, <1>11, <1>12, <1>13, <1>15, <1>16, <1>17, WorkGoesOn

\* A step of the flush that leaves these two observers and the data alone.
LEMMA QueueInforms ==
    ASSUME NEW sees, NEW heeds, Watched(sees, heeds), Now(sees, heeds), NEW outer, NEW b,
           AtWork(sees, heeds, outer, b), b.calling = None,
           NEW c \in FlushBatch, c.calling = None,
           Has(c.which, "first") <=> Has(b.which, "first"),
           Has(c.which, "pattern") <=> Has(b.which, "pattern"),
           list' = list, child' = child, first' = first, pattern' = pattern,
           batches' = Stack(outer, c)
    PROVE  Now(sees, heeds)'
  <1>1. PICK f, p : f = first /\ p = pattern
    OBVIOUS
  <1>2. /\ IsFirst(f) /\ IsPattern(p) /\ (sees => FirstKnows(f, child[0]))
        /\ heeds => Knows(p, PresentIn(list), child)
    BY <1>1 DEF Now, Informed
  <1>3. None # "first"
    BY DistinctAssumption DEF Observers
  <1>4. FirstQueued(sees, f, outer, c)
    BY <1>1, <1>3 DEF AtWork, FirstQueued, FirstIn
  <1>5. heeds => PatternIn(p, outer, c.which)
    BY <1>1 DEF AtWork, PatternIn
  <1>6. outer \in Outers
    BY DEF AtWork
  <1>7. QED
    BY <1>1, <1>2, <1>4, <1>5, <1>6, WorkGoesOn

LEMMA ArrayInforms ==
    ASSUME NEW sees, NEW heeds, Watched(sees, heeds), Now(sees, heeds), NEW outer, NEW b,
           AtWork(sees, heeds, outer, b), DispatchArray
    PROVE  Now(sees, heeds)'
  <1>1. Top(View) = b /\ IsView(View) /\ View.batches = Stack(outer, b) /\ b \in FlushBatch
    BY WorkTop DEF AtWork
  <1>2. b.calling = None /\ b.which # <<>> /\ Head(b.which) = "array"
    BY <1>1 DEF DispatchArray, Dispatching
  <1>3. b.which = <<"array">> /\ Tail(b.which) = <<>>
    <2>1. b.which \notin Queues
      BY <1>2, QueueTail
    <2>2. b.which = <<"array">>
      BY <1>1, <2>1 DEF FlushBatch
    <2>3. QED
      BY <2>2
  <1>4. PICK c : c = [b EXCEPT !.which = Tail(b.which), !.calling = None]
    OBVIOUS
  <1>5. c \in FlushBatch /\ c.which = <<>> /\ c.calling = None
    BY <1>1, <1>3, <1>4 DEF FlushBatch, Queues
  <1>6. PICK told :
          Becomes(Taken([View EXCEPT !.mirror.told = told, !.mirror.pending = None], None))
    BY Zenon DEF DispatchArray
  <1>7. PICK u : u = [View EXCEPT !.mirror.told = told, !.mirror.pending = None]
    OBVIOUS
  <1>8. /\ IsView(u) /\ u.list = list /\ u.child = child /\ u.first = first
        /\ u.pattern = pattern /\ u.batches = Stack(outer, b) /\ u.batches = View.batches
    BY <1>1, <1>7 DEF IsView, View
  <1>9. Top(u) = b
    BY <1>1, <1>8 DEF Top
  <1>10. Becomes(SetTop(u, c))
    BY <1>4, <1>6, <1>7, <1>9 DEF Taken
  <1>11. /\ list' = list /\ child' = child /\ first' = first /\ pattern' = pattern
         /\ batches' = Stack(outer, c)
    BY <1>8, <1>10, StackBecomes
  <1>12. /\ Has(c.which, "first") <=> Has(b.which, "first")
         /\ Has(c.which, "pattern") <=> Has(b.which, "pattern")
    BY <1>3, <1>5 DEF Has
  <1>13. QED
    BY <1>2, <1>5, <1>11, <1>12, QueueInforms

LEMMA DrawingInforms ==
    ASSUME NEW sees, NEW heeds, Watched(sees, heeds), Now(sees, heeds), NEW outer, NEW b,
           AtWork(sees, heeds, outer, b), UpdateFragmentsOfBatch
    PROVE  Now(sees, heeds)'
  <1>1. Top(View) = b /\ IsView(View) /\ View.batches = Stack(outer, b) /\ b \in FlushBatch
    BY WorkTop DEF AtWork
  <1>2. b.calling = None /\ b.which = <<>>
    BY <1>1 DEF UpdateFragmentsOfBatch, Quiet
  <1>3. PICK c : c = [b EXCEPT !.fragments = FALSE, !.deferring = TRUE, !.which = b.deferred,
                               !.deferred = <<>>]
    OBVIOUS
  <1>4. c \in FlushBatch /\ c.which \in {<<>>, <<"array">>} /\ c.calling = None
    BY <1>1, <1>2, <1>3 DEF FlushBatch, Deferreds, Queues
  <1>5. PICK v : v = IF Top(View).fragments THEN UpdateView(View) ELSE View
    OBVIOUS
  <1>6. /\ IsView(v) /\ v.list = list /\ v.child = child /\ v.first = first
        /\ v.pattern = pattern /\ v.batches = View.batches
    <2>1. PICK s, f, n, t, i :
            UpdateView(View) = [View EXCEPT !.section = s, !.fragments = f, !.nodes = n,
                                            !.texts = t, !.indexes = i]
      BY Zenon DEF UpdateView, Redrawn
    <2>2. PICK u : u = [View EXCEPT !.section = s, !.fragments = f, !.nodes = n,
                                    !.texts = t, !.indexes = i]
      OBVIOUS
    <2>3. /\ IsView(u) /\ u.list = list /\ u.child = child /\ u.first = first
          /\ u.pattern = pattern /\ u.batches = View.batches
      BY <1>1, <2>2 DEF IsView, View
    <2>4. /\ View.list = list /\ View.child = child /\ View.first = first
          /\ View.pattern = pattern
      BY DEF View
    <2>5. v \in {u, View}
      BY <1>5, <2>1, <2>2
    <2>6. QED
      BY <1>1, <2>3, <2>4, <2>5
  <1>7. Top(v) = b
    BY <1>1, <1>6 DEF Top
  <1>8. Becomes(SetTop(v, c))
    BY <1>3, <1>5, <1>7 DEF UpdateFragmentsOfBatch
  <1>9. /\ list' = list /\ child' = child /\ first' = first /\ pattern' = pattern
        /\ batches' = Stack(outer, c)
    BY <1>1, <1>6, <1>8, StackBecomes
  <1>10. /\ Has(c.which, "first") <=> Has(b.which, "first")
         /\ Has(c.which, "pattern") <=> Has(b.which, "pattern")
    BY <1>2, <1>4 DEF Has
  <1>11. QED
    BY <1>2, <1>4, <1>9, <1>10, QueueInforms

\* The batch is flushed again, or over: the one around it goes on.
LEMMA EndInforms ==
    ASSUME NEW sees, NEW heeds, Watched(sees, heeds), Now(sees, heeds), NEW outer, NEW b,
           AtWork(sees, heeds, outer, b), EndFlush
    PROVE  Now(sees, heeds)'
  <1>1. Top(View) = b /\ IsView(View) /\ View.batches = Stack(outer, b) /\ b \in FlushBatch
        /\ outer \in Outers
    BY WorkTop DEF AtWork
  <1>2. b.calling = None /\ b.which = <<>> /\ b.immediate = <<>>
    BY <1>1 DEF EndFlush, Quiet, FlushBatch
  <1>3. CASE b.fragments \/ b.immediate # <<>> \/ b.deferred # <<>>
    <2>1. PICK e : e = [b EXCEPT !.deferring = FALSE]
      OBVIOUS
    <2>2. PICK u : u = SetTop(View, e)
      OBVIOUS
    <2>3. Becomes(flushChanges(u))
      BY <1>1, <1>3, <2>1, <2>2 DEF EndFlush
    <2>4. [View.batches EXCEPT ![Len(View.batches)] = e] = Stack(outer, e)
      <3>1. PICK s : s = Stack(outer, b)
        OBVIOUS
      <3>2. [s EXCEPT ![Len(s)] = e] = Stack(outer, e)
        BY <3>1 DEF Stack
      <3>3. QED
        BY <1>1, <3>1, <3>2
    <2>5. /\ IsView(u) /\ u.list = list /\ u.child = child /\ u.first = first
          /\ u.pattern = pattern /\ u.batches = Stack(outer, e)
      <3>1. PICK s : s = Stack(outer, e)
        OBVIOUS
      <3>2. u = [View EXCEPT !.batches = s]
        BY <1>1, <2>2, <2>4, <3>1 DEF SetTop
      <3>3. QED
        BY <1>1, <3>1, <3>2 DEF IsView, View
    <2>6. Top(u) = e
      <3>1. PICK s : s = Stack(outer, e)
        OBVIOUS
      <3>2. s[Len(s)] = e
        BY <3>1 DEF Stack
      <3>3. QED
        BY <2>5, <3>1, <3>2 DEF Top
    <2>7. PICK c : c = [e EXCEPT !.which = e.immediate, !.immediate = <<>>]
      OBVIOUS
    <2>8. Becomes(SetTop(u, c))
      BY <2>3, <2>6, <2>7 DEF flushChanges
    <2>9. c \in FlushBatch /\ c.which = b.which /\ c.calling = None
      BY <1>1, <1>2, <2>1, <2>7 DEF FlushBatch
    <2>10. /\ list' = list /\ child' = child /\ first' = first /\ pattern' = pattern
           /\ batches' = Stack(outer, c)
      BY <2>5, <2>8, StackBecomes
    <2>11. QED
      BY <1>2, <2>9, <2>10, QueueInforms
  <1>4. CASE ~ (b.fragments \/ b.immediate # <<>> \/ b.deferred # <<>>)
    <2>1. Becomes([View EXCEPT !.batches = Front(@)])
      BY <1>1, <1>4 DEF EndFlush
    <2>2. /\ list' = list /\ child' = child /\ first' = first /\ pattern' = pattern
          /\ batches' = Front(batches)
      BY <2>1 DEF Becomes, View
    <2>3. batches = Stack(outer, b) /\ FirstQueued(sees, first, outer, b)
          /\ (heeds => PatternIn(pattern, outer, b.which))
      BY DEF AtWork
    <2>4. None # "first"
      BY DistinctAssumption DEF Observers
    <2>5. PICK f, p : f = first /\ p = pattern
      OBVIOUS
    <2>6. /\ IsFirst(f) /\ IsPattern(p) /\ (sees => FirstKnows(f, child[0]))
          /\ heeds => Knows(p, PresentIn(list), child)
      BY <2>5 DEF Now, Informed
    <2>7. ~ Has(b.which, "first") /\ ~ Has(b.which, "pattern")
      BY <1>2 DEF Has
    <2>8. CASE outer = <<>>
      <3>1. Front(batches) = <<>>
        BY <2>3, <2>8, SubSeqEmpty DEF Front, Stack
      <3>2. (sees => ~ f.dirty) /\ (heeds => ~ p.dirty)
        BY <1>2, <2>3, <2>4, <2>5, <2>7, <2>8 DEF FirstQueued, FirstIn, PatternIn
      <3>3. Waiting(<<>>, f, p, sees, heeds)
        BY <3>2 DEF Waiting
      <3>4. Informed(list, child, f, p, <<>>, sees, heeds)
        BY <2>6, <3>3 DEF Now, Informed
      <3>5. QED
        BY <2>2, <2>5, <3>1, <3>4 DEF Now
    <2>9. CASE outer # <<>>
      <3>1. PICK c \in FlushBatch : /\ outer = <<c>> /\ c.calling = "first"
                                    /\ ~ Has(c.which, "first")
        BY <1>1, <2>9 DEF Outers
      <3>2. Front(batches) = <<c>>
        <4>1. PICK s, t : s = <<c, b>> /\ t = <<c>>
          OBVIOUS
        <4>2. batches = s /\ Len(s) = 2 /\ s[1] = c
          BY <2>3, <2>9, <3>1, <4>1 DEF Stack
        <4>3. PICK one \in Nat : one = 1
          OBVIOUS
        <4>4. PICK r : r = SubSeq(s, one, one)
          OBVIOUS
        <4>5. \A i \in one .. one : s[i] \in {c}
          BY <4>2, <4>3
        <4>6. r \in Seq({c}) /\ Len(r) = 1 /\ r[1] = c
          <5>1. /\ SubSeq(s, one, one) \in Seq({c})
                /\ Len(SubSeq(s, one, one)) = IF one <= one THEN one - one + 1 ELSE 0
                /\ \A i \in 1 .. one - one + 1 : SubSeq(s, one, one)[i] = s[one + i - 1]
            BY <4>5, SubSeqProperties
          <5>2. QED
            BY <4>2, <4>3, <4>4, <5>1
        <4>7. t \in Seq({c}) /\ Len(t) = 1 /\ t[1] = c
          BY <4>1
        <4>8. r = t
          BY <4>6, <4>7, SeqEqual
        <4>9. Front(batches) = SubSeq(s, 1, 1)
          BY <4>2 DEF Front
        <4>10. QED
          BY <4>1, <4>3, <4>8, <4>9, <4>4
      <3>3. PICK none \in Outers : none = <<>>
        BY DEF Outers
      <3>4. Stack(none, c) = <<c>>
        BY <3>3 DEF Stack
      <3>5. sees /\ f.dirty /\ f.told = f.newValue
        BY <1>2, <2>3, <2>4, <2>5, <2>9 DEF FirstQueued, FirstIn
      <3>6. FirstQueued(sees, f, none, c)
        <4>1. <<c>> # <<>>
          OBVIOUS
        <4>2. FirstIn(f, <<c>>, c.which)
          BY <3>1, <3>5, <4>1 DEF FirstIn
        <4>3. QED
          BY <3>1, <3>3, <3>5, <4>2 DEF FirstQueued
      <3>7. heeds => PatternIn(p, none, c.which)
        BY <2>3, <2>5, <2>7, <3>1, <3>3 DEF PatternIn
      <3>8. batches' = Stack(none, c)
        BY <2>2, <3>2, <3>4
      <3>9. QED
        BY <2>2, <2>5, <2>6, <3>6, <3>7, <3>8, WorkGoesOn
    <2>10. QED
      BY <2>8, <2>9
  <1>5. QED
    BY <1>3, <1>4

\* The callback of the observer of list.0 is called, and may set another element
\* before it returns.
LEMMA FirstInforms ==
    ASSUME NEW sees, NEW heeds, Watched(sees, heeds), Now(sees, heeds), NEW outer, NEW b,
           AtWork(sees, heeds, outer, b), "shift" \notin NestedCalls, DispatchFirst
    PROVE  Now(sees, heeds)'
  <1>1. Top(View) = b /\ IsView(View) /\ View.batches = Stack(outer, b) /\ b \in FlushBatch
        /\ outer \in Outers
    BY WorkTop DEF AtWork
  <1>2. b.calling = None /\ b.which # <<>> /\ Head(b.which) = "first"
    BY <1>1 DEF DispatchFirst, Dispatching
  <1>3. b.which \in Queues
    <2>1. b.which # <<"array">>
      BY <1>2
    <2>2. QED
      BY <1>1, <2>1 DEF FlushBatch
  <1>4. /\ Tail(b.which) \in Queues /\ Has(b.which, "first") /\ ~ Has(Tail(b.which), "first")
        /\ Has(Tail(b.which), "pattern") <=> Has(b.which, "pattern")
    BY <1>2, <1>3, QueueTail
  <1>5. None # "first"
    BY DistinctAssumption DEF Observers
  <1>6. sees /\ outer = <<>> /\ first.dirty
    BY <1>2, <1>4, <1>5 DEF AtWork, FirstQueued, FirstIn
  <1>7. /\ IsFirst(first) /\ first.newValue = child[0] /\ IsPattern(pattern)
        /\ list \in Lists /\ child = Models(list)
        /\ heeds => Knows(pattern, PresentIn(list), child)
    BY <1>6 DEF Now, Informed, FirstKnows
  <1>8. PICK f : f = [first EXCEPT !.told = first.newValue]
    OBVIOUS
  <1>9. /\ IsFirst(f) /\ f.dirty /\ f.told = f.newValue /\ FirstKnows(f, child[0])
    BY <1>6, <1>7, <1>8 DEF IsFirst, FirstKnows
  <1>10. PICK c : c = [b EXCEPT !.which = Tail(b.which), !.calling = "first"]
    OBVIOUS
  <1>11. c \in FlushBatch /\ c.which = Tail(b.which) /\ c.calling = "first"
    BY <1>1, <1>4, <1>10 DEF FlushBatch
  <1>12. PICK u : u = [View EXCEPT !.first.told = first.newValue]
    OBVIOUS
  <1>13. /\ IsView(u) /\ u.list = list /\ u.child = child /\ u.first = f /\ u.pattern = pattern
         /\ u.batches = Stack(outer, b) /\ u.batches = View.batches
    BY <1>1, <1>8, <1>12 DEF IsView, View
  <1>14. Taken(u, "first") = SetTop(u, c)
    <2>1. Top(u) = b
      BY <1>1, <1>13 DEF Top
    <2>2. QED
      BY <1>10, <2>1 DEF Taken
  <1>15. CASE Becomes(Taken(u, "first"))
    <2>1. /\ list' = list /\ child' = child /\ first' = f /\ pattern' = pattern
          /\ batches' = Stack(outer, c)
      BY <1>13, <1>14, <1>15, StackBecomes
    <2>2. FirstQueued(sees, f, outer, c)
      <3>1. <<c>> # <<>>
        OBVIOUS
      <3>2. QED
        BY <1>4, <1>6, <1>9, <1>11, <3>1 DEF FirstQueued, FirstIn
    <2>3. PICK p : p = pattern
      OBVIOUS
    <2>4. /\ IsPattern(p)
          /\ heeds => Knows(p, PresentIn(list), child) /\ PatternIn(p, outer, c.which)
      BY <1>4, <1>7, <1>11, <2>3 DEF AtWork, PatternIn
    <2>5. QED
      BY <1>1, <1>9, <1>11, <2>1, <2>2, <2>3, <2>4, WorkGoesOn
  <1>16. ASSUME list # Absent, 0 \in DOMAIN list, 1 \in Keys, NEW x \in Items,
                Becomes(flushChanges(applyChildValue(start(Taken(u, "first")), 1, x)))
         PROVE  Now(sees, heeds)'
    <2>1. PICK inside \in Outers : inside = <<c>>
      BY <1>4, <1>11 DEF Outers
    <2>2. PICK v : v = start(SetTop(u, c))
      OBVIOUS
    <2>3. /\ IsView(v) /\ v.list = list /\ v.child = child /\ v.first = f /\ v.pattern = pattern
          /\ v.batches = Stack(inside, NewBatch)
      <3>1. PICK t : t = SetTop(u, c)
        OBVIOUS
      <3>2. /\ IsView(t) /\ t.list = list /\ t.child = child /\ t.first = f
            /\ t.pattern = pattern /\ t.batches = <<c>>
        <4>1. [u.batches EXCEPT ![Len(u.batches)] = c] = <<c>>
          BY <1>6, <1>13 DEF Stack
        <4>2. PICK s : s = <<c>>
          OBVIOUS
        <4>3. t = [u EXCEPT !.batches = s]
          BY <3>1, <4>1, <4>2 DEF SetTop
        <4>4. QED
          BY <1>13, <4>2, <4>3 DEF IsView
      <3>3. Append(<<c>>, NewBatch) = <<c, NewBatch>>
        <4>1. PICK e, S : e = NewBatch /\ S = {c, e}
          OBVIOUS
        <4>2. PICK a, y : a = Append(<<c>>, e) /\ y = <<c, e>>
          OBVIOUS
        <4>3. /\ a \in Seq(S) /\ y \in Seq(S) /\ Len(a) = 2 /\ Len(y) = 2
              /\ a[1] = y[1] /\ a[2] = y[2]
          BY <4>1, <4>2
        <4>4. a = y
          BY <4>3, SeqEqual
        <4>5. QED
          BY <4>1, <4>2, <4>4
      <3>4. PICK s : s = <<c, NewBatch>>
        OBVIOUS
      <3>5. v = [t EXCEPT !.batches = s]
        BY <2>2, <3>1, <3>2, <3>3, <3>4 DEF start
      <3>6. s = Stack(inside, NewBatch)
        BY <2>1, <3>4 DEF Stack
      <3>7. QED
        BY <3>2, <3>5, <3>6 DEF IsView
    <2>4. NewBatch \in CallBatch(<<>>, <<>>)
      BY DEF NewBatch, CallBatch
    <2>5. Under(v, inside, <<>>, <<>>)
      <3>1. Calling(v, inside, <<>>, <<>>)
        BY <2>3, <2>4 DEF Calling
      <3>2. QED
        BY <1>7, <1>9, <2>3, <3>1 DEF Under, Queues, Deferreds
    <2>6. ~ Has(<<>>, "first") /\ ~ Has(<<>>, "pattern") /\ inside # <<>> /\ inside[1] = c
      BY <2>1 DEF Has
    <2>7. FirstWell(sees, v.first, v.child[0], inside, <<>>)
      BY <1>6, <1>9, <2>3, <2>6 DEF FirstWell, FirstIn
    <2>8. heeds => /\ Knows(v.pattern, PresentIn(v.list), v.child)
                   /\ PatternIn(v.pattern, inside, <<>>)
      BY <1>4, <1>6, <1>7, <1>11, <2>3, <2>6 DEF AtWork, PatternIn
    <2>9. Telling(v, inside, <<>>, <<>>, sees, heeds)
      BY <1>7, <2>3, <2>5, <2>7, <2>8 DEF Telling
    <2>10. PICK one \in Keys : one = 1
      BY <1>16
    <2>11. one <= IF v.list = Absent THEN 0 ELSE Length(v.list)
      <3>1. PICK n \in Nat : n = Len(Content(list)) /\ Length(list) = n /\ DOMAIN list = 0 .. n - 1
        BY <1>7, <1>16, ContentType, BoundAssumption
      <3>2. 0 \in 0 .. n - 1
        BY <1>16, <3>1
      <3>3. 1 <= n
        BY <3>2
      <3>4. QED
        BY <1>16, <2>3, <2>10, <3>1, <3>3
    <2>12. v.list # Absent /\ one # 0
      BY <1>16, <2>3, <2>10
    <2>13. PICK w, q, d : /\ w = applyChildValue(v, one, x)
                          /\ Telling(w, inside, q, d, sees, heeds)
      BY <2>9, <2>11, <2>12, ChildTells
    <2>14. Becomes(flushChanges(w))
      BY <1>14, <1>16, <2>2, <2>10, <2>13
    <2>15. QED
      BY <2>13, <2>14, TellingFlushes DEF Now
  <1>17. \/ Becomes(Taken(u, "first"))
         \/ /\ list # Absent /\ 0 \in DOMAIN list /\ 1 \in Keys
            /\ \E x \in Items :
                 Becomes(flushChanges(applyChildValue(start(Taken(u, "first")), 1, x)))
    BY <1>12 DEF DispatchFirst
  <1>18. QED
    BY <1>15, <1>16, <1>17

LEMMA WorkInforms ==
    ASSUME NEW sees, NEW heeds, Watched(sees, heeds), Now(sees, heeds),
           "shift" \notin NestedCalls, Work
    PROVE  Now(sees, heeds)'
  <1>1. batches # <<>>
    BY DEF Work, DispatchFirst, Returned, DispatchPattern, DispatchArray,
           UpdateFragmentsOfBatch, EndFlush, Dispatching, Quiet
  <1>2. PICK outer, b : AtWork(sees, heeds, outer, b)
    BY <1>1, WorkBegins
  <1>3. CASE DispatchFirst
    BY <1>2, <1>3, FirstInforms
  <1>4. CASE Returned
    BY <1>2, <1>4, ReturnedInforms
  <1>5. CASE DispatchPattern
    BY <1>2, <1>5, PatternInforms
  <1>6. CASE DispatchArray
    BY <1>2, <1>6, ArrayInforms
  <1>7. CASE UpdateFragmentsOfBatch
    BY <1>2, <1>7, DrawingInforms
  <1>8. CASE EndFlush
    BY <1>2, <1>8, EndInforms
  <1>9. QED
    BY <1>3, <1>4, <1>5, <1>6, <1>7, <1>8 DEF Work

\* A merge that moves elements among others is remembered.
LEMMA MergedStays == ASSUME [Next]_vars, merged PROVE merged'
  BY DEF Next, Push, Unshift, Pop, Shift, Splice, Rearrange, SetList, SetElement, Merge, Stays,
         Work, DispatchFirst, Returned, DispatchPattern, DispatchArray, UpdateFragmentsOfBatch,
         EndFlush, vars

\* Every step keeps the invariant.
LEMMA TellNext ==
    ASSUME "shift" \notin NestedCalls, TellInv, [Next]_vars
    PROVE  TellInv'
  <1>1. watching' = watching /\ (~ merged' => ~ merged)
    BY SameObservers, MergedStays
  <1> SUFFICES ASSUME NEW sees \in BOOLEAN, NEW heeds \in BOOLEAN, sees <=> "first" \in watching,
                      heeds => "pattern" \in watching /\ ~ merged'
               PROVE  Now(sees, heeds)'
    BY <1>1 DEF TellInv, Now
  <1>2. Watched(sees, heeds) /\ Now(sees, heeds)
    BY <1>1 DEF Watched, TellInv, Now
  <1>3. list \in Lists /\ <<>> \in Seq(Items) /\ Len(<<>>) = 0
    BY <1>2, EmptySeq DEF Now, Informed
  <1>4. Len(Content(list)) + Len(<<>>) <= MaxLength /\ Len(<<>>) <= 1
    BY <1>3, ContentType, BoundAssumption
  <1>5. PICK zero \in Nat : zero = 0
    OBVIOUS
  <1>6. zero \in Int
    BY <1>5
  <1>7. ASSUME NEW x \in Items
        PROVE  <<x>> \in Seq(Items) /\ Len(<<x>>) = 1 /\ Len(<<x>>) <= 1
    OBVIOUS
  <1>8. ASSUME NEW x \in Items, Push(x) PROVE Now(sees, heeds)'
    <2>1. Len(Content(list)) + Len(<<x>>) <= MaxLength
      BY <1>3, <1>7, <1>8, RoomIs DEF Push
    <2>2. MethodStep("push", zero, zero, <<x>>) /\ "push" \in Methods
      BY <1>5, <1>8 DEF Push, MethodStep, Methods
    <2>3. QED
      BY <1>2, <1>6, <1>7, <2>1, <2>2, MethodInforms
  <1>9. ASSUME NEW x \in Items, Unshift(x) PROVE Now(sees, heeds)'
    <2>1. Len(Content(list)) + Len(<<x>>) <= MaxLength
      BY <1>3, <1>7, <1>9, RoomIs DEF Unshift
    <2>2. MethodStep("unshift", zero, zero, <<x>>) /\ "unshift" \in Methods
      BY <1>5, <1>9 DEF Unshift, MethodStep, Methods
    <2>3. QED
      BY <1>2, <1>6, <1>7, <2>1, <2>2, MethodInforms
  <1>10. CASE Pop
    <2>1. MethodStep("pop", zero, zero, <<>>) /\ "pop" \in Methods
      BY <1>5, <1>10 DEF Pop, MethodStep, Methods
    <2>2. QED
      BY <1>2, <1>3, <1>4, <1>6, <2>1, MethodInforms
  <1>11. CASE Shift
    <2>1. MethodStep("shift", zero, zero, <<>>) /\ "shift" \in Methods
      BY <1>5, <1>11 DEF Shift, MethodStep, Methods
    <2>2. QED
      BY <1>2, <1>3, <1>4, <1>6, <2>1, MethodInforms
  <1>12. ASSUME NEW begin \in -(MaxLength + 1) .. MaxLength + 1, NEW drop \in 0 .. MaxLength,
                NEW added \in {<<>>} \cup {<<x>> : x \in Items}, Splice(begin, drop, added)
         PROVE  Now(sees, heeds)'
    <2>1. begin \in Int /\ drop \in Nat
      BY BoundAssumption
    <2>2. added \in Seq(Items) /\ Len(added) \in Nat /\ Len(added) <= 1
      <3>1. CASE added = <<>>
        BY <1>3, <3>1
      <3>2. CASE added # <<>>
        <4>1. PICK x \in Items : added = <<x>>
          BY <3>2
        <4>2. QED
          BY <1>7, <4>1
      <3>3. QED
        BY <3>1, <3>2
    <2>3. Len(Content(list)) + Len(added) <= MaxLength
      BY <1>3, <1>12, <2>2, RoomIs DEF Splice
    <2>4. MethodStep("splice", begin, drop, added) /\ "splice" \in Methods
      BY <1>12 DEF Splice, MethodStep, Methods
    <2>5. QED
      BY <1>2, <2>1, <2>2, <2>3, <2>4, MethodInforms
  <1>13. CASE Rearrange
    <2>1. PICK order \in [DOMAIN list -> DOMAIN list] :
            Call(applyValue(start(View), [i \in DOMAIN list |-> list[order[i]]]))
      BY <1>13 DEF Rearrange
    <2>2. PICK value \in Lists : value = [i \in DOMAIN list |-> list[order[i]]]
      BY <1>3, <1>13, Rearranged DEF Rearrange
    <2>3. QED
      BY <1>2, <2>1, <2>2, ValueInforms
  <1>14. ASSUME NEW value \in Lists, SetList(value) PROVE Now(sees, heeds)'
    BY <1>2, <1>14, ValueInforms DEF SetList
  <1>15. ASSUME NEW x \in Items, NEW k \in Keys, SetElement(k, x) PROVE Now(sees, heeds)'
    BY <1>2, <1>15, ElementInforms
  <1>16. ASSUME NEW new \in Arrays, Merge(new) PROVE Now(sees, heeds)'
    <2>1. heeds => ~ Reshaped(merge(list, new).map, Length(new))
      BY <1>16 DEF Merge
    <2>2. QED
      BY <1>2, <1>16, <2>1, MergeInforms
  <1>17. CASE Work
    BY <1>2, <1>17, WorkInforms
  <1>18. CASE UNCHANGED vars
    BY <1>2, <1>18 DEF vars, Now
  <1>19. QED
    BY <1>8, <1>9, <1>10, <1>11, <1>12, <1>13, <1>14, <1>15, <1>16, <1>17, <1>18 DEF Next

\* At rest nobody waits: what is known has been told.
LEMMA ToldThen == TellInv => ObserversTold
  <1> SUFFICES ASSUME TellInv, Idle
               PROVE  /\ "first" \in watching =>
                           first.told = (IF list = Absent THEN None ELSE At(list, 0))
                      /\ "pattern" \in watching /\ ~ merged =>
                           \A k \in Present(View) : k \in DOMAIN pattern.told
                                                    /\ pattern.told[k] = list[k]
    BY DEF ObserversTold
  <1>1. PICK sees \in BOOLEAN : sees <=> "first" \in watching
    OBVIOUS
  <1>2. PICK heeds \in BOOLEAN : heeds <=> "pattern" \in watching /\ ~ merged
    OBVIOUS
  <1>3. Informed(list, child, first, pattern, batches, sees, heeds)
    BY <1>1, <1>2 DEF TellInv
  <1>4. (sees => ~ first.dirty) /\ (heeds => ~ pattern.dirty)
    <2>1. ASSUME NEW outer, NEW b
          PROVE  Stack(outer, b) # <<>>
      BY DEF Stack
    <2>2. QED
      BY <1>3, <2>1 DEF Informed, Waiting, Idle
  <1>5. list \in Lists /\ child = Models(list)
    BY <1>3 DEF Informed
  <1>6. ASSUME "first" \in watching
        PROVE  first.told = (IF list = Absent THEN None ELSE At(list, 0))
    <2>1. first.told = child[0]
      BY <1>1, <1>3, <1>4, <1>6 DEF Informed, FirstKnows
    <2>2. 0 \in Keys
      BY BoundAssumption DEF Keys
    <2>3. QED
      BY <1>5, <2>1, <2>2 DEF Models
  <1>7. ASSUME "pattern" \in watching /\ ~ merged, NEW k \in Present(View)
        PROVE  k \in DOMAIN pattern.told /\ pattern.told[k] = list[k]
    <2>1. k \in PresentIn(list) /\ list # Absent /\ k \in DOMAIN list
      BY <1>7 DEF Present, PresentIn, View
    <2>2. Knows(pattern, PresentIn(list), child) /\ ~ pattern.dirty
      BY <1>2, <1>3, <1>4, <1>7 DEF Informed
    <2>3. Sure(pattern, k, child[k]) /\ pattern.newValues = Nothing /\ ToldOld(pattern)
      BY <2>1, <2>2 DEF Knows, ToldOld
    <2>4. DOMAIN Nothing = {}
      BY DEF Nothing
    <2>5. k \in DOMAIN pattern.told /\ pattern.told[k] = child[k]
      <3>1. k \in DOMAIN pattern.oldValues /\ pattern.oldValues[k] = child[k]
        BY <2>3, <2>4 DEF Sure
      <3>2. QED
        BY <2>3, <3>1 DEF ToldOld
    <2>6. k \in Keys
      <3>1. PICK n \in 0 .. MaxLength : list \in [0 .. n - 1 -> Items]
        BY <1>5, <2>1 DEF Lists, Arrays
      <3>2. k \in 0 .. n - 1
        BY <2>1, <3>1
      <3>3. QED
        BY <3>2, BoundAssumption DEF Keys
    <2>7. child[k] = list[k]
      BY <1>5, <2>1, <2>6 DEF Models, At
    <2>8. QED
      BY <2>5, <2>7
  <1>8. QED
    BY <1>6, <1>7

\* ObserversTold for lists of any length and of any items, with any observers: an
\* observer is told what has become of the list by the time a call is over.  The
\* callback of the observer of list.0 may set another element meanwhile, but not
\* shift the list: its own dispatch would not see what came to be in its place.
THEOREM ObserversAlwaysTold ==
    ASSUME "shift" \notin NestedCalls
    PROVE  Spec => []ObserversTold
  <1>1. Init => TellInv
    BY TellInit
  <1>2. TellInv /\ [Next]_vars => TellInv'
    BY TellNext
  <1>3. TellInv => ObserversTold
    BY ToldThen
  <1>4. QED
    BY <1>1, <1>2, <1>3, PTL DEF Spec
===============================================================================
