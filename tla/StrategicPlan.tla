---------------------------- MODULE StrategicPlan ----------------------------
(***************************************************************************)
(* One strategic plan: its priorities and the four classes indexed below   *)
(* them (planned results, outcomes, activities, performance indicators).   *)
(*                                                                         *)
(* A priority carries a priority_level the user chooses; every row below   *)
(* it carries an index (the numbers printed before its description), an    *)
(* array whose prefix should be its parent's index.  The rows are numbered *)
(* by ActiveRecord callbacks that read and rewrite the rows around them,   *)
(* each inside the transaction of the save or destroy that triggers it.    *)
(* Requests are taken one at a time here.                                  *)
(***************************************************************************)
EXTENDS Integers, Sequences, SequencesExt, FiniteSets

CONSTANTS
    Priorities,  \* ids a StrategicPriority row can have
    Items,       \* ids a row of one of the four indexed classes can have, finitely many
    MaxRoot,     \* bound: no level is edited once an index starts with this
    MinLast,     \* bound: no row is deleted that would number a sibling below this
    MaxLevel,    \* largest priority_level the form offers (10 in the code)
    Depth        \* classes nested below a priority (4 in the code)

ASSUME MaxLevelAssumption == MaxLevel \in Nat \ {0}
ASSUME DepthAssumption == Depth \in Nat \ {0}
ASSUME IdsAssumption == Priorities \cap Items = {}
ASSUME FiniteAssumption == IsFiniteSet(Items)

VARIABLES
    priority_level, \* [Priorities -> Nat], 0 when there is no such row
    path,           \* the ids above an item, priority first; <<>>: no such row
    index,          \* the item's index column
    relevelled      \* history: some priority's level was edited

vars == <<priority_level, path, index, relevelled>>

-----------------------------------------------------------------------------
\* Reading the rows

Plan == {p \in Priorities : priority_level[p] # 0}
Rows == {i \in Items : path[i] # <<>>}

parent(i) == path[i][Len(path[i])]

\* The `index` method of either kind of row.
IndexOf(x) == IF x \in Priorities THEN <<priority_level[x]>> ELSE index[x]

PathTo(x) == IF x \in Priorities THEN <<x>> ELSE Append(path[x], x)

siblings(i) == {j \in Rows : parent(j) = parent(i)}
children(x) == {j \in Rows : parent(j) = x}

\* Mutant of Below: the rows right below x only.
Below_ChildrenOnly(x) == {j \in Rows : parent(j) = x}

Below(x) == {j \in Rows : \E k \in DOMAIN path[j] : path[j][k] = x}

\* Array#<=> on two indexes of the same length, tested for 0 or 1.
Geq(a, b) ==
    \/ a = b
    \/ \E k \in DOMAIN a : /\ a[k] > b[k]
                           /\ \A j \in 1..(k - 1) : a[j] = b[j]

\* Mutant of lower_priority_siblings: the rows before i instead of after it.
lower_priority_siblings_Reversed(i) ==
    {j \in siblings(i) \ {i} : Geq(index[i], index[j])}

lower_priority_siblings(i) == {j \in siblings(i) \ {i} : Geq(index[j], index[i])}

-----------------------------------------------------------------------------
\* Rewriting indexes

lastOf(i) == index[i][Len(index[i])]

\* decrement_index_prefix run down the tree from x, whose own index is now
\* top: each row keeps its last number and takes its parent's new index.
Rebased(x, top, d) ==
    LET chain == PathTo(d)
        at    == CHOOSE k \in DOMAIN chain : chain[k] = x
    IN  top \o [k \in 1..(Len(chain) - at) |-> lastOf(chain[at + k])]

\* decrement_index of one sibling and the rows below it.
Decremented(s) == [index[s] EXCEPT ![Len(index[s])] = @ - 1]

\* The index before_create gives a new row below x: one more than the last
\* sibling's, unless that sibling's prefix is not the parent's index.
create_index(x) ==
    LET prev == CHOOSE j \in children(x) :
                   \A o \in children(x) : Geq(index[j], index[o])
    IN  IF children(x) # {} /\ Front(index[prev]) = IndexOf(x)
        THEN Append(IndexOf(x), lastOf(prev) + 1)
        ELSE Append(IndexOf(x), 1)

\* Mutant of Run: only the row on level L moves (a write that skips callbacks).
Run_FirstOnly(L) == {q \in Plan : priority_level[q] = L}

\* The priorities that the before_create/before_update cascade moves down one
\* level to free level L: the unbroken run of occupied levels starting at L.
\* The rows are read from the database, so the run can reach the old level of
\* the row that is being saved.
Run(L) == {q \in Plan : /\ priority_level[q] >= L
                        /\ \A l \in L..priority_level[q] :
                              \E r \in Plan : priority_level[r] = l}

\* Mutant of RootIncremented: the first row on each level of the tree only.
RootIncremented_First(Q) ==
    [i \in Items |-> IF i \in Rows /\ path[i][1] \in Q /\ lastOf(i) = 1
                     THEN [index[i] EXCEPT ![1] = @ + 1]
                     ELSE index[i]]

\* increment_index_root of everything below the priorities in Q.
RootIncremented(Q) ==
    [i \in Items |-> IF i \in Rows /\ path[i][1] \in Q
                     THEN [index[i] EXCEPT ![1] = @ + 1]
                     ELSE index[i]]

-----------------------------------------------------------------------------
Init ==
    /\ priority_level = [p \in Priorities |-> 0]
    /\ path = [i \in Items |-> <<>>]
    /\ index = [i \in Items |-> <<>>]
    /\ relevelled = FALSE

\* StrategicPriority.new(...).save
CreatePriority(p, L) ==
    /\ p \notin Plan
    /\ priority_level' = [q \in Priorities |->
                            IF q = p THEN L
                            ELSE priority_level[q] + (IF q \in Run(L) THEN 1 ELSE 0)]
    /\ index' = RootIncremented(Run(L))
    /\ UNCHANGED <<path, relevelled>>

\* strategic_priority.update(priority_level: L).  Saving a row with the level
\* it already has moves nothing; otherwise the row is written last, after the
\* cascade, which may have moved the row itself and what is below it.
UpdatePriority(p, L) ==
    /\ p \in Plan
    /\ priority_level[p] # L
    /\ \A i \in Rows : index[i][1] < MaxRoot
    /\ priority_level' = [q \in Priorities |->
                            IF q = p THEN L
                            ELSE priority_level[q] + (IF q \in Run(L) THEN 1 ELSE 0)]
    /\ index' = RootIncremented(Run(L))
    /\ relevelled' = TRUE
    /\ UNCHANGED path

\* strategic_priority.destroy: everything below goes with it, then each lower
\* priority is decremented and the indexes below it are written anew.
DestroyPriority(p) ==
    /\ p \in Plan
    /\ LET lower == {q \in Plan : priority_level[q] > priority_level[p]}
       IN  /\ priority_level' = [q \in Priorities |->
                                    IF q = p THEN 0
                                    ELSE priority_level[q] - (IF q \in lower THEN 1 ELSE 0)]
           /\ path' = [i \in Items |-> IF i \in Below(p) THEN <<>> ELSE path[i]]
           /\ index' = [i \in Items |->
                          IF i \in Below(p) THEN <<>>
                          ELSE IF i \in Rows /\ path[i][1] \in lower
                          THEN Rebased(path[i][1], <<priority_level[path[i][1]] - 1>>, i)
                          ELSE index[i]]
    /\ UNCHANGED relevelled

\* create of a planned result, outcome, activity or performance indicator
CreateItem(i, x) ==
    /\ i \notin Rows
    /\ x \in Plan \cup Rows
    /\ Len(IndexOf(x)) <= Depth
    /\ path' = [path EXCEPT ![i] = PathTo(x)]
    /\ index' = [index EXCEPT ![i] = create_index(x)]
    /\ UNCHANGED <<priority_level, relevelled>>

\* destroy of such a row: what is below it goes first, then after_destroy
\* decrements the siblings that are not before it and rebases their rows.
DestroyItem(i) ==
    /\ i \in Rows
    /\ \A j \in lower_priority_siblings(i) : lastOf(j) > MinLast
    /\ LET gone == {i} \cup Below(i)
           lower == lower_priority_siblings(i)
           under(j) == {s \in lower : j \in Below(s)}
       IN  /\ path' = [j \in Items |-> IF j \in gone THEN <<>> ELSE path[j]]
           /\ index' = [j \in Items |->
                          CASE j \in gone -> <<>>
                            [] j \in lower -> Decremented(j)
                            [] under(j) # {} ->
                                 LET s == CHOOSE s \in under(j) : TRUE
                                 IN  Rebased(s, Decremented(s), j)
                            [] OTHER -> index[j]]
    /\ UNCHANGED <<priority_level, relevelled>>

Next ==
    \/ \E p \in Priorities, L \in 1..MaxLevel : CreatePriority(p, L)
    \/ \E p \in Priorities, L \in 1..MaxLevel : UpdatePriority(p, L)
    \/ \E p \in Priorities : DestroyPriority(p)
    \/ \E i \in Items, x \in Priorities \cup Items : CreateItem(i, x)
    \/ \E i \in Items : DestroyItem(i)

Spec == Init /\ [][Next]_vars

-----------------------------------------------------------------------------
\* Every row has the shape its class needs: its chain of parents is a chain of
\* existing rows that starts at a priority, and its index is one number longer
\* than its parent's.  An index may reach 0 or below once levels were edited.
TypeOK ==
    /\ priority_level \in [Priorities -> Nat]
    /\ path \in [Items -> Seq(Priorities \cup Items)]
    /\ index \in [Items -> Seq(Int)]
    /\ relevelled \in BOOLEAN
    /\ \A i \in Items :
          IF i \in Rows
          THEN /\ Len(path[i]) <= Depth
               /\ Len(index[i]) = Len(path[i]) + 1
               /\ path[i][1] \in Plan
               /\ \A k \in 2..Len(path[i]) :
                     path[i][k] \in Rows /\ path[path[i][k]] = SubSeq(path[i], 1, k - 1)
          ELSE index[i] = <<>>

\* Whatever levels users pick on creation or edit, the cascade of saves leaves
\* no two priorities of the plan on one level.
LevelsUnique ==
    \A p, q \in Plan : p # q => priority_level[p] # priority_level[q]

\* The rows below x are numbered 1, 2, ... after the index x shows.
NumberedBelow(x) ==
    /\ \A i \in children(x) : Front(index[i]) = IndexOf(x)
    /\ {lastOf(i) : i \in children(x)} = 1..Cardinality(children(x))

\* While nobody has edited a level, every row shows its parent's index followed
\* by its own place among its siblings, with no number missing or used twice,
\* whatever priorities were slipped in above and whatever was deleted.
Numbered == ~relevelled => \A x \in Plan \cup Rows : NumberedBelow(x)

\* The same without the condition, as planned_result_spec.rb has it: a planned
\* result of the priority with level 2 is shown as "2.n".
IndexFollowsParent ==
    \A x \in Plan : \A i \in children(x) : Front(index[i]) = IndexOf(x)

\* No request changes the order in which two priorities that survive it are
\* shown, unless it edits the level of one of the two, however far the cascade
\* of level changes runs.
PriorityOrderKept ==
    [][\A p, q \in Plan :
          (p \in Plan' /\ q \in Plan' /\ priority_level[p] < priority_level[q])
              => \/ priority_level'[p] < priority_level'[q]
                 \/ \E L \in 1..MaxLevel : UpdatePriority(p, L) \/ UpdatePriority(q, L)]_vars

\* While nobody has edited a level, no request changes the order in which two
\* rows below one parent that survive it are shown.
SiblingOrderKept ==
    [][~relevelled' =>
          \A i, j \in Rows :
             (i \in Rows' /\ j \in Rows' /\ parent(i) = parent(j) /\ ~Geq(index[i], index[j]))
                 => ~Geq(index'[i], index'[j])]_vars
=============================================================================
