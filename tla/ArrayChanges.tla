---------------------------- MODULE ArrayChanges ----------------------------
(***************************************************************************)
(* What the array methods of Ractive say of a change: for every old index *)
(* the new one, so that a list can be shuffled and not drawn again.        *)
(* Arrays are functions on 0 .. n-1, as JavaScript counts them.            *)
(***************************************************************************)
EXTENDS Integers, Sequences, FiniteSets, SequencesExt

CONSTANT None \* JavaScript's undefined

Gone == -1
Length(array) == Cardinality(DOMAIN array)
At(array, i) == IF i \in DOMAIN array THEN array[i] ELSE None
Least(a, b) == IF a < b THEN a ELSE b
Most(a, b) == IF a > b THEN a ELSE b
AsArray(seq) == [i \in 0 .. Len(seq) - 1 |-> seq[i + 1]]
AsSeq(array) == [i \in 1 .. Length(array) |-> array[i - 1]]

\* Array.prototype.splice, which clamps what it is given.
Spliced(array, start, drop, added) ==
    LET from == Least(start, Length(array))
        to   == Least(from + Most(drop, 0), Length(array))
    IN AsArray(SubSeq(AsSeq(array), 1, from) \o added \o SubSeq(AsSeq(array), to + 1, Length(array)))

\* Every method but sort and reverse is a splice; a splice that counts from
\* the end or removes more than there is has its arguments put right.  The
\* amount removed is negative when the start is beyond the end.
getSpliceEquivalent(length, method, start, drop, added) ==
    LET from == IF start < 0 THEN length + Most(start, -length) ELSE start IN
    CASE method = "splice"  -> [start |-> from, drop |-> Least(drop, length - from), added |-> added]
      [] method = "pop"     -> [start |-> IF length = 0 THEN 0 ELSE length - 1,
                                drop |-> Least(length, 1), added |-> <<>>]
      [] method = "push"    -> [start |-> length, drop |-> 0, added |-> added]
      [] method = "shift"   -> [start |-> 0, drop |-> Least(length, 1), added |-> <<>>]
      [] method = "unshift" -> [start |-> 0, drop |-> 0, added |-> added]

\* Mutant: what is added is not counted.
getNewIndices_Balance(length, splice) ==
    LET from == Least(length, splice.start) IN
    [ map         |-> [i \in 0 .. length - 1 |->
                         CASE i < from                -> i
                           [] i \in from .. from + splice.drop - 1 -> Gone
                           [] OTHER                   -> i - splice.drop],
      startIndex  |-> from,
      touchedFrom |-> IF Len(splice.added) = splice.drop THEN length ELSE splice.start ]

\* Where each element goes, -1 if it is removed; the first index touched; the
\* index from which every element has moved.
getNewIndices(length, splice) ==
    LET from    == Least(length, splice.start)
        balance == Len(splice.added) - splice.drop
    IN [ map         |-> [i \in 0 .. length - 1 |->
                            CASE i < from                           -> i
                              [] i \in from .. from + splice.drop - 1 -> Gone
                              [] OTHER                              -> i + balance],
         startIndex  |-> from,
         touchedFrom |-> IF balance = 0 THEN length ELSE splice.start ]

\* The search for old element `item`: from firstUnused on, the first place in
\* the new array that is not used; but the search also ends, with a place
\* that is used, once it has come as far as the old array was long.
Place(new, item, used, firstUnused, oldLength) ==
    LET places  == {i \in DOMAIN new : i >= firstUnused /\ new[i] = item}
        last(i) == i \notin used \/ i + 1 >= oldLength
        ends    == {i \in places : last(i)}
    IN IF ends = {} THEN Gone ELSE CHOOSE i \in ends : \A j \in ends : i <= j

\* The place of the next element, and what is used once it is found.
Taking(new, item, found, oldLength) ==
    LET i == Place(new, item, found.used, found.firstUnused, oldLength) IN
    [ map         |-> Append(found.map, i),
      used        |-> IF i = Gone THEN found.used ELSE found.used \cup {i},
      firstUnused |-> IF i = found.firstUnused THEN found.firstUnused + 1
                                               ELSE found.firstUnused ]

\* Model.merge without a comparator: the old elements in turn.
Merging(old, new) ==
    LET found[n \in 0 .. Length(old)] ==
          IF n = 0 THEN [map |-> <<>>, used |-> {}, firstUnused |-> 0]
                   ELSE Taking(new, old[n - 1], found[n - 1], Length(old))
    IN found
merge(old, new) == [ map         |-> AsArray(Merging(old, new)[Length(old)].map),
                     startIndex  |-> None,
                     touchedFrom |-> None ]
=============================================================================
