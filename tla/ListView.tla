------------------------------ MODULE ListView ------------------------------
(***************************************************************************)
(* A list on a page, {{#each list:i}}{{i}} {{.}}{{/each}}, in the build of *)
(* Ractive that every page of the application runs on.  The data is an     *)
(* array with one model below it for each index; an iteration of the list  *)
(* is a fragment with two texts, each registered with the model it shows.  *)
(* An array method does not draw the list again: it shuffles fragments and *)
(* registrations.  Three observers watch: one list.0, one list.*, one the  *)
(* array's insertions and deletions.                                       *)
(*                                                                         *)
(* A call changes the data and notes what is dirty; the runloop then calls *)
(* the observers, whose callbacks may call again (a batch inside a batch), *)
(* brings the fragments up to date and calls the deferred observers.       *)
(***************************************************************************)
EXTENDS ArrayChanges, TLC

CONSTANTS Items,        \* what a list may hold
          MaxLength,    \* of a list (bound)
          Absent,       \* the list before there is one
          Watching,     \* the sets of observers a page may have
          NestedCalls,  \* what the callback of the observer of list.0 may call
          Mergeable(_, _) \* the arrays the application merges into which

Keys == 0 .. MaxLength - 1
Fragments == 1 .. 3 * MaxLength
Arrays == UNION {[0 .. n - 1 -> Items] : n \in 0 .. MaxLength}
Lists == Arrays \cup {Absent}
Values == Items \cup {None}
Reports == [deleted : Nat, inserted : Seq(Items), start : Nat] \* to the array's observer
Observers == {"first", "pattern", "array"}
defer == {"array"} \* the observers that ask to be called after the page is drawn
Parts == {"text", "index"}
Nothing == [k \in {} |-> None]
Over(new, old) == [k \in DOMAIN new \cup DOMAIN old |-> IF k \in DOMAIN new THEN new[k] ELSE old[k]]

ASSUME BoundAssumption == MaxLength \in Nat \ {0}
ASSUME DistinctAssumption == /\ None \notin Items \cup Nat \cup Reports \cup Observers
                             /\ Absent \notin Items \cup Arrays

VARIABLES
    list,    \* the data
    child,   \* child[k]: the value the model of list.k has seen
    texts,   \* texts[k]: the fragments whose {{.}} is registered with list.k
    indexes, \* indexes[k]: the fragments whose {{i}} is registered with key k
    section, \* the section: iterations, what is dirty, shuffles not yet drawn
    fragments,
    nodes,   \* what is on the page: fragments, in the order of their nodes
    batches, \* the runloop's batches, the innermost last
    watching,              \* which observers there are
    first, pattern, mirror, \* the observers
    merged,  \* a merge has moved elements among others that came or went
    patched  \* an element was set, or the list merged, since it was last set whole

View == [list |-> list, child |-> child, texts |-> texts, indexes |-> indexes,
         section |-> section, fragments |-> fragments, nodes |-> nodes,
         batches |-> batches, first |-> first, pattern |-> pattern, mirror |-> mirror]
vars == <<list, child, texts, indexes, section, fragments, nodes, batches,
          watching, first, pattern, mirror, merged, patched>>

Becomes(view) == \E v \in {view} :
    /\ list' = v.list /\ child' = v.child /\ texts' = v.texts /\ indexes' = v.indexes
    /\ section' = v.section /\ fragments' = v.fragments /\ nodes' = v.nodes
    /\ batches' = v.batches
    /\ first' = v.first /\ pattern' = v.pattern /\ mirror' = v.mirror
-------------------------------------------------------------------------------
\* The runloop's queues.

NewBatch == [immediate |-> <<>>, deferred |-> <<>>, fragments |-> FALSE,
             which |-> <<>>, deferring |-> FALSE, calling |-> None]
Top(v) == v.batches[Len(v.batches)]
SetTop(v, batch) == [v EXCEPT !.batches[Len(v.batches)] = batch]

addToArray(seq, x) == IF Contains(seq, x) THEN seq ELSE Append(seq, x)

addObserver(v, o) ==
    SetTop(v, IF o \in defer
              THEN [Top(v) EXCEPT !.deferred = addToArray(@, o)]
              ELSE [Top(v) EXCEPT !.immediate = addToArray(@, o)])

\* The section and the root fragment above it become dirty together, and the
\* root is queued in the batch that first makes it dirty.
BubbleSection(v) ==
    IF v.section.dirty THEN v
    ELSE SetTop([v EXCEPT !.section.dirty = TRUE], [Top(v) EXCEPT !.fragments = TRUE])

BubbleList(v, index) == BubbleSection([v EXCEPT !.section.bubbled = @ \cup {index}])

\* The text, or the index, that the fragments of `set` show has changed.
BubbleAll(v, set, part) ==
    LET fresh == {f \in set : ~ v.fragments[f].dirty}
        w     == [v EXCEPT !.fragments = [f \in Fragments |->
                    IF f \in set THEN [v.fragments[f] EXCEPT !.parts = @ \cup {part}, !.dirty = TRUE]
                                 ELSE v.fragments[f]]]
    IN IF fresh = {} THEN w
       ELSE BubbleSection([w EXCEPT !.section.bubbled = @ \cup {v.fragments[f].index : f \in fresh}])
-------------------------------------------------------------------------------
\* The observers.

\* An observer that is dirty is in a queue and does not look again.
FirstChanged(v) ==
    IF "first" \notin watching \/ v.first.dirty \/ v.child[0] = v.first.oldValue THEN v
    ELSE addObserver([v EXCEPT !.first.newValue = v.child[0], !.first.dirty = TRUE], "first")

Present(v) == IF v.list = Absent THEN {} ELSE DOMAIN v.list

\* A pattern observer looks at the keys it was notified of, at all if none.
PatternChanged(v) ==
    LET o       == v.pattern
        base    == IF o.dirty THEN o.newValues ELSE Nothing
        partial == o.changed # {}
        keys    == IF partial THEN o.changed \cap Present(v) ELSE Present(v)
        dirty   == [o EXCEPT !.newValues = Over([k \in keys |-> v.child[k]], base),
                             !.partial = partial, !.changed = {}, !.dirty = TRUE]
    IN IF "pattern" \notin watching \/ (o.dirty /\ ~ partial) \/ (partial /\ keys = {})
       THEN v
       ELSE addObserver([v EXCEPT !.pattern = dirty], "pattern")

PatternNotified(v, keys) ==
    IF "pattern" \in watching THEN [v EXCEPT !.pattern.changed = @ \cup keys] ELSE v

\* Mutant: only elements that moved, and not what came to be beside them.
PatternShuffled_Moved(v, new) ==
    PatternNotified(v, {i \in DOMAIN new.map : new.map[i] \notin {Gone, i}})

PatternShuffled(v, new) ==
    PatternNotified(v,
        {i \in DOMAIN new.map : new.map[i] \notin {Gone, i}} \cup
        {i \in Present(v) : new.touchedFrom # None /\ i >= new.touchedFrom})

\* The report to the array's observer, which replaces one not yet dispatched:
\* what was deleted, what inserted, and from where.
ArrayShuffled(v, map) ==
    LET now   == IF v.list = Absent THEN <<>> ELSE AsSeq(v.list)
        kept  == {map[i] : i \in DOMAIN map}
        moved == {i \in DOMAIN map : map[i] # i}
    IN IF "array" \notin watching THEN v ELSE
       [v EXCEPT !.mirror.sliced = now,
                 !.mirror.pending =
                    [ deleted  |-> Cardinality({i \in DOMAIN map : map[i] = Gone}),
                      inserted |-> [n \in 1 .. Cardinality({i \in 1 .. Len(now) : i - 1 \notin kept}) |->
                                      now[CHOOSE i \in 1 .. Len(now) :
                                            /\ i - 1 \notin kept
                                            /\ Cardinality({j \in 1 .. i : j - 1 \notin kept}) = n]],
                      start    |-> IF moved = {} THEN Cardinality(DOMAIN map)
                                   ELSE CHOOSE i \in moved : \A j \in moved : i <= j ]]

\* Mutant: a change of the whole array is no news, only a pending report is.
ArrayChanged_Pending(v, path) ==
    IF v.mirror.pending = None THEN v ELSE addObserver(v, "array")

\* Told of a path, the observer has nothing to say but what is pending; told
\* of none, that everything has gone.
ArrayChanged(v, path) ==
    LET all == ArrayShuffled(v, [i \in 0 .. Len(v.mirror.sliced) - 1 |-> Gone]) IN
    CASE "array" \notin watching                -> v
      [] v.mirror.pending # None                 -> addObserver(v, "array")
      [] v.mirror.pending = None /\ path # None  -> v
      [] OTHER                                  -> addObserver(all, "array")
-------------------------------------------------------------------------------
\* The models.

retrieve(v, k) == IF v.list = Absent THEN None ELSE At(v.list, k)

\* Model.mark of the array, and what applyValue does once the value is there:
\* the models below look at their values, then the array's dependants hear.
mark(v) ==
    LET now     == [k \in Keys |-> retrieve(v, k)]
        changed == {k \in Keys : now[k] # v.child[k]}
        marked  == BubbleAll([v EXCEPT !.child = now], UNION {v.texts[k] : k \in changed}, "text")
        told    == IF 0 \in changed THEN FirstChanged(marked) ELSE marked
    IN ArrayChanged(PatternChanged(BubbleSection(told)), None)

\* Two arrays are never equal; what is not there equals what was not there.
applyValue(v, value) ==
    IF value = Absent /\ v.list = Absent THEN v ELSE mark([v EXCEPT !.list = value])

\* The same for the model of one element.  The array comes to be when it has
\* to, and everything above is notified.
applyChildValue(v, k, value) ==
    LET there == IF v.list = Absent THEN applyValue(v, Nothing) ELSE v
        set   == [there EXCEPT !.list = [i \in DOMAIN @ \cup {k} |-> IF i = k THEN value ELSE @[i]],
                               !.child[k] = value]
        deps  == BubbleAll(set, set.texts[k], "text")
        told  == IF k = 0 THEN FirstChanged(deps) ELSE deps
    IN IF value = v.child[k] THEN v
       ELSE ArrayChanged(PatternChanged(BubbleSection(PatternNotified(told, {k}))), k)

\* Mutant: the registration that is moved is not removed.
Moved_Stays(regs, map) == regs

\* Registrations move with their elements: they leave at once and come back
\* when the values have been marked, so that nothing that only moved is told.
Moved(regs, map) ==
    [k \in Keys |-> IF k \in DOMAIN map /\ map[k] # k THEN {} ELSE regs[k]]
Arrived(regs, old, map) ==
    [k \in Keys |-> regs[k] \cup UNION {old[i] : i \in {j \in DOMAIN map : map[j] = k /\ j # k}}]
To(map, k) == IF k \in DOMAIN map THEN (IF map[k] = Gone THEN None ELSE map[k]) ELSE k

Rebind(v, map, unsafe) ==
    LET leaving(regs) == UNION {regs[k] : k \in {j \in DOMAIN map : map[j] # j}}
        rebound == [v EXCEPT !.texts = Moved(@, map), !.indexes = Moved(@, map),
                             !.fragments = [f \in Fragments |->
                               [v.fragments[f] EXCEPT !.text = IF @ = None THEN @ ELSE To(map, @),
                                                      !.key = IF @ = None THEN @ ELSE To(map, @)]]]
        indexed == BubbleAll(rebound, leaving(v.indexes), "index")
    IN IF unsafe THEN BubbleAll(indexed, leaving(v.texts), "text") ELSE indexed

\* RepeatedFragment.shuffle: what is drawn is kept until the list is updated.
ShuffleList(v, new) ==
    LET s     == v.section
        moved == {i \in DOMAIN s.iterations \cap DOMAIN new.map : new.map[i] # Gone}
        put   == {new.map[i] : i \in moved}
        at(k) == CHOOSE i \in moved : new.map[i] = k /\ \A j \in moved : new.map[j] = k => j <= i
    IN BubbleList(
         [v EXCEPT !.section.previous = IF s.pending = <<>> THEN s.iterations ELSE @,
                   !.section.pending = Append(@, new),
                   !.section.iterations = [k \in put |-> s.iterations[at(k)]],
                   !.fragments = [f \in Fragments |->
                      IF \E i \in moved : s.iterations[i] = f /\ new.map[i] # i
                      THEN [v.fragments[f] EXCEPT !.dirty = TRUE] ELSE v.fragments[f]]],
         None)

shuffle(v, new, unsafe) ==
    LET rebound  == Rebind(v, new.map, unsafe)
        listed   == ShuffleList(rebound, new)
        shuffled == ArrayShuffled(PatternShuffled(listed, new), new.map)
        marked   == mark(shuffled)
    IN [marked EXCEPT !.texts = Arrived(@, v.texts, new.map),
                      !.indexes = Arrived(@, v.indexes, new.map)]
-------------------------------------------------------------------------------
\* Drawing.

Iterations(v) == {v.section.iterations[i] : i \in DOMAIN v.section.iterations}
Previous(v) == {v.section.previous[i] : i \in DOMAIN v.section.previous}
Free(v) == Fragments \ (ToSet(v.nodes) \cup Iterations(v) \cup Previous(v))
Data(v, k) == IF k = None THEN None ELSE v.child[k]
Blank == [index |-> None, text |-> None, key |-> None, dirty |-> FALSE, parts |-> {},
          shown |-> None, number |-> None]

detach(nodes_, f) == Remove(nodes_, f)
InsertBefore(nodes_, doc, f) ==
    LET i == CHOOSE n \in 1 .. Len(nodes_) : nodes_[n] = f
    IN SubSeq(nodes_, 1, i - 1) \o doc \o SubSeq(nodes_, i, Len(nodes_))

\* A new fragment for index i, bound and drawn but not yet on the page.
createIteration(v, i, f) ==
    [v EXCEPT !.section.iterations = (i :> f) @@ @,
              !.texts[i] = @ \cup {f}, !.indexes[i] = @ \cup {f},
              !.fragments[f] = [Blank EXCEPT !.index = i, !.text = i, !.key = i,
                                             !.shown = v.child[i], !.number = i]]
NewFragment(v) == CHOOSE f \in Free(v) : \A g \in Free(v) : f <= g

\* unbind and unrender: nothing is registered and nothing on the page.
Discard(v, set) ==
    [v EXCEPT !.texts = [k \in Keys |-> @[k] \ set], !.indexes = [k \in Keys |-> @[k] \ set],
              !.nodes = SelectSeq(@, LAMBDA f : f \notin set),
              !.fragments = [f \in Fragments |-> IF f \in set THEN Blank ELSE @[f]]]

\* Fragment.update of the fragments in `set`, those that are dirty.
UpdateFragments(v, set) ==
    [v EXCEPT !.fragments = [f \in Fragments |->
        LET frag == v.fragments[f] IN
        IF f \in set /\ frag.dirty
        THEN [frag EXCEPT !.dirty = FALSE, !.parts = {},
                          !.shown = IF "text" \in frag.parts THEN Data(v, frag.text) ELSE @,
                          !.number = IF "index" \in frag.parts THEN frag.key ELSE @]
        ELSE frag]]

\* RepeatedFragment.update when nothing was shuffled: iterations beyond the
\* end go, those that bubbled are updated, new ones are drawn at the end.
UpdateInPlace(v) ==
    LET s     == v.section
        now   == v.list # Absent
        reset == ~ (now /\ s.isArray)
        kept  == IF reset THEN {} ELSE {i \in DOMAIN s.iterations : i \in DOMAIN v.list}
        gone  == {s.iterations[i] : i \in DOMAIN s.iterations \ kept}
        trimmed == [Discard(v, gone) EXCEPT
                      !.section.isArray = now,
                      !.section.iterations = [i \in kept |-> s.iterations[i]]]
        some    == ~ reset /\ s.bubbled # {}
        updated == IF some
                   THEN [UpdateFragments(trimmed, {s.iterations[i] : i \in kept \cap s.bubbled})
                           EXCEPT !.section.bubbled = {}]
                   ELSE UpdateFragments(trimmed, Iterations(trimmed))
        grow(w, n) ==
            LET f == NewFragment(w) IN
            [createIteration(w, n - 1, f) EXCEPT !.nodes = Append(@, f)]
        have    == Cardinality(kept)
        want    == IF now THEN Length(v.list) ELSE 0
    IN FoldLeft(grow, updated, [n \in 1 .. Most(0, want - have) |-> have + n])

\* The shuffles since the last update as one, mapped through in turn.
Composed(pending) ==
    LET through(new, next) ==
          [new EXCEPT !.map = [i \in DOMAIN @ |-> IF @[i] \in DOMAIN next.map
                                                  THEN next.map[@[i]] ELSE None]]
    IN FoldLeft(through, Head(pending), Tail(pending))

\* RepeatedFragment.updatePostShuffle: fragments take their new index, those
\* removed are noted by their old one, and the nodes from the first index
\* touched are taken off the page and put back in order.
UpdatePostShuffle(v) ==
    LET s       == v.section
        new     == Composed(s.pending)
        len     == Length(v.list)
        stays   == {i \in DOMAIN s.previous \cap DOMAIN new.map : new.map[i] # Gone}
        removed == [i \in DOMAIN s.previous \ stays |-> s.previous[i]]
        gone    == {removed[i] : i \in DOMAIN removed}
        indexed == [v EXCEPT !.fragments = [f \in Fragments |->
                      IF \E i \in stays : s.previous[i] = f
                      THEN [v.fragments[f] EXCEPT
                              !.index = new.map[CHOOSE i \in stays : s.previous[i] = f]]
                      ELSE v.fragments[f]]]
        contiguous == new.startIndex # None
        start   == IF contiguous THEN new.startIndex ELSE 0
        lift(a, i) == IF i \in DOMAIN removed
                      THEN [a EXCEPT !.v.nodes = detach(@, removed[i]), !.doc = Append(@, removed[i])]
                      ELSE a
        place(a, n) ==
            LET i    == n - 1
                here == i \in DOMAIN a.v.section.iterations
                w    == lift(IF here THEN a
                             ELSE [a EXCEPT !.v = createIteration(@, i, NewFragment(a.v))], i)
                f    == w.v.section.iterations[i]
            IN IF here /\ contiguous
               THEN [w EXCEPT !.v.nodes = InsertBefore(@, w.doc, f), !.doc = <<>>]
               ELSE [w EXCEPT !.v.nodes = detach(@, f), !.doc = Append(@, f)]
        placed  == FoldLeft(place, [v |-> indexed, doc |-> <<>>],
                            [n \in 1 .. Most(0, len - start) |-> start + n])
        rest    == FoldLeft(LAMBDA a, n : lift(a, n - 1), placed,
                            [n \in 1 .. Most(0, Cardinality(DOMAIN s.previous) - len) |-> len + n])
        drawn   == Discard([rest.v EXCEPT !.nodes = @ \o rest.doc], gone)
    IN [UpdateFragments(drawn, Iterations(drawn)) EXCEPT
          !.section.pending = <<>>, !.section.previous = Nothing, !.section.bubbled = {}]

\* The names of fragments mean nothing: those of the list are named 1, 2, ...
\* again, unless something still knows a fragment that is not of the list.
Renamed(v) ==
    LET at       == v.section.iterations
        known    == ToSet(v.nodes) \cup UNION {v.texts[k] \cup v.indexes[k] : k \in Keys}
        name(f)  == 1 + CHOOSE i \in DOMAIN at : at[i] = f
        named(S) == {name(f) : f \in S}
    IN IF known # Iterations(v) \/ Cardinality(known) # Cardinality(DOMAIN at) THEN v
       ELSE [v EXCEPT !.section.iterations = [i \in DOMAIN at |-> i + 1],
                      !.nodes = [n \in DOMAIN @ |-> name(@[n])],
                      !.texts = [k \in Keys |-> named(v.texts[k])],
                      !.indexes = [k \in Keys |-> named(v.indexes[k])],
                      !.fragments = [f \in Fragments |->
                         IF f - 1 \in DOMAIN at THEN v.fragments[at[f - 1]] ELSE Blank]]

\* What drawing changes: the data and the observers are left alone.
Redrawn(v, drawn) ==
    [v EXCEPT !.section = drawn.section, !.fragments = drawn.fragments, !.nodes = drawn.nodes,
              !.texts = drawn.texts, !.indexes = drawn.indexes]

\* RepeatedFragment.update.
UpdateView(v) ==
    Redrawn(v, Renamed([IF v.section.pending = <<>> THEN UpdateInPlace(v) ELSE UpdatePostShuffle(v)
                          EXCEPT !.section.dirty = FALSE]))
-------------------------------------------------------------------------------
\* Calls.  Each starts a batch, changes the data and begins to flush.

start(v) == [v EXCEPT !.batches = Append(@, NewBatch)]
flushChanges(v) == SetTop(v, [Top(v) EXCEPT !.which = Top(v).immediate, !.immediate = <<>>])

\* What an array method makes of the list: changed in place, then shuffled.
\* A list that is not there is an empty one, set whole.
arrayMethod(v, method, begin, drop, added) ==
    LET array == IF v.list = Absent THEN Nothing ELSE v.list
        splice == getSpliceEquivalent(Length(array), method, begin, drop, added)
        result == Spliced(array, splice.start, splice.drop, splice.added)
    IN IF v.list = Absent THEN applyValue(v, result)
       ELSE shuffle([v EXCEPT !.list = result], getNewIndices(Length(array), splice), FALSE)

Room(n) == (IF list = Absent THEN 0 ELSE Length(list)) + n <= MaxLength
Idle == batches = <<>>
Call(v) == Idle /\ Becomes(flushChanges(v))
Stays == UNCHANGED <<watching, merged>>

Push(x) == Room(1) /\ Call(arrayMethod(start(View), "push", 0, 0, <<x>>)) /\ UNCHANGED patched /\ Stays
Unshift(x) == Room(1) /\ Call(arrayMethod(start(View), "unshift", 0, 0, <<x>>)) /\ UNCHANGED patched /\ Stays
Pop == Call(arrayMethod(start(View), "pop", 0, 0, <<>>)) /\ UNCHANGED patched /\ Stays
Shift == Call(arrayMethod(start(View), "shift", 0, 0, <<>>)) /\ UNCHANGED patched /\ Stays

\* From before the beginning, counted from the end, to beyond the end.
Splice(begin, drop, added) ==
    /\ Room(Len(added))
    /\ Call(arrayMethod(start(View), "splice", begin, drop, added))
    /\ UNCHANGED patched /\ Stays

\* sort and reverse: the array is put in another order and set as a whole, as
\* update does with an array changed behind Ractive's back.
Rearrange ==
    /\ list # Absent
    /\ \E order \in {o \in [DOMAIN list -> DOMAIN list] : \A i, j \in DOMAIN list : o[i] = o[j] => i = j} :
         Call(applyValue(start(View), [i \in DOMAIN list |-> list[order[i]]]))
    /\ patched' = FALSE /\ Stays

SetList(value) == Call(applyValue(start(View), value)) /\ patched' = FALSE /\ Stays

SetElement(k, x) ==
    /\ k <= (IF list = Absent THEN 0 ELSE Length(list))
    /\ Call(applyChildValue(start(View), k, x))
    /\ patched' = TRUE /\ Stays

\* A merge that moves elements and is no mere exchange of them.
Reshaped(map, length) ==
    /\ \E i \in DOMAIN map : map[i] \notin {Gone, i}
    /\ Length(map) # length \/ \E i \in DOMAIN map : map[i] = Gone

\* set with shuffle: no longer told what moved, it is worked out.
Merge(new) ==
    /\ list # Absent
    /\ Mergeable(list, new)
    /\ Call(shuffle([start(View) EXCEPT !.list = new], merge(list, new), TRUE))
    /\ merged' = (merged \/ Reshaped(merge(list, new).map, Length(new)))
    /\ patched' = TRUE
    /\ UNCHANGED watching
-------------------------------------------------------------------------------
\* The flush.

Dispatching(o) == batches # <<>> /\ Top(View).calling = None /\ Top(View).which # <<>> /\ Head(Top(View).which) = o
Taken(v, calling) == SetTop(v, [Top(v) EXCEPT !.which = Tail(@), !.calling = calling])

\* The callback of the observer of list.0 may call before it returns.
DispatchFirst ==
    /\ Dispatching("first")
    /\ LET told == Taken([View EXCEPT !.first.told = first.newValue], "first") IN
       \/ Becomes(told) /\ UNCHANGED patched
       \/ /\ "set" \in NestedCalls /\ list # Absent /\ 0 \in DOMAIN list /\ 1 \in Keys
          /\ \E x \in Items : Becomes(flushChanges(applyChildValue(start(told), 1, x)))
          /\ patched' = TRUE
       \/ /\ "shift" \in NestedCalls /\ list # Absent
          /\ Becomes(flushChanges(arrayMethod(start(told), "shift", 0, 0, <<>>)))
          /\ UNCHANGED patched
    /\ Stays

\* The callback has returned: what is there now counts as told.
Returned ==
    /\ batches # <<>> /\ Top(View).calling = "first"
    /\ Becomes(SetTop([View EXCEPT !.first.oldValue = child[0], !.first.dirty = FALSE],
                      [Top(View) EXCEPT !.calling = None]))
    /\ UNCHANGED patched /\ Stays

\* Each key whose value is not the one last told is told.
DispatchPattern ==
    /\ Dispatching("pattern")
    /\ LET new  == pattern.newValues
           old  == pattern.oldValues
           news == {k \in DOMAIN new : k \notin DOMAIN old \/ new[k] # old[k]}
       IN Becomes(Taken([View EXCEPT !.pattern.told = Over([k \in news |-> new[k]], @),
                                     !.pattern.oldValues = IF pattern.partial THEN Over(new, @) ELSE new,
                                     !.pattern.newValues = Nothing,
                                     !.pattern.dirty = FALSE], None))
    /\ UNCHANGED patched /\ Stays

\* The callback keeps a copy and replays the report on it.
DispatchArray ==
    /\ Dispatching("array")
    /\ LET report == mirror.pending IN
       Becomes(Taken([View EXCEPT
         !.mirror.told = AsSeq(Spliced(AsArray(@), report.start, report.deleted, report.inserted)),
         !.mirror.pending = None], None))
    /\ UNCHANGED patched /\ Stays

Quiet(deferring) ==
    /\ batches # <<>> /\ Top(View).calling = None /\ Top(View).which = <<>>
    /\ Top(View).deferring = deferring

\* Once the immediate observers have been called, the page; then the others.
UpdateFragmentsOfBatch ==
    /\ Quiet(FALSE)
    /\ LET v == IF Top(View).fragments THEN UpdateView(View) ELSE View IN
       Becomes(SetTop(v, [Top(v) EXCEPT !.fragments = FALSE, !.deferring = TRUE,
                                        !.which = Top(v).deferred, !.deferred = <<>>]))
    /\ UNCHANGED patched /\ Stays

\* Round again if the flush has made work, else the batch is over.
EndFlush ==
    /\ Quiet(TRUE)
    /\ LET b == Top(View) IN
       IF b.fragments \/ b.immediate # <<>> \/ b.deferred # <<>>
       THEN Becomes(flushChanges(SetTop(View, [b EXCEPT !.deferring = FALSE])))
       ELSE Becomes([View EXCEPT !.batches = Front(@)])
    /\ UNCHANGED patched /\ Stays
-------------------------------------------------------------------------------
Init ==
    /\ list = Absent
    /\ child = [k \in Keys |-> None]
    /\ texts = [k \in Keys |-> {}] /\ indexes = [k \in Keys |-> {}]
    /\ section = [dirty |-> FALSE, isArray |-> FALSE, iterations |-> Nothing,
                  previous |-> Nothing, pending |-> <<>>, bubbled |-> {}]
    /\ fragments = [f \in Fragments |-> Blank]
    /\ nodes = <<>> /\ batches = <<>>
    /\ watching \in Watching
    /\ first = [dirty |-> FALSE, oldValue |-> None, newValue |-> None, told |-> None]
    /\ pattern = [dirty |-> FALSE, changed |-> {}, newValues |-> Nothing,
                  oldValues |-> Nothing, partial |-> FALSE, told |-> Nothing]
    /\ mirror = [pending |-> None, sliced |-> <<>>, told |-> <<>>]
    /\ merged = FALSE /\ patched = FALSE

Work == \/ DispatchFirst \/ Returned \/ DispatchPattern \/ DispatchArray
        \/ UpdateFragmentsOfBatch \/ EndFlush

Next ==
    \/ \E x \in Items : Push(x) \/ Unshift(x) \/ \E k \in Keys : SetElement(k, x)
    \/ Pop \/ Shift \/ Rearrange
    \/ \E begin \in -(MaxLength + 1) .. MaxLength + 1, drop \in 0 .. MaxLength,
          added \in {<<>>} \cup {<<x>> : x \in Items} : Splice(begin, drop, added)
    \/ \E value \in Lists : SetList(value)
    \/ \E new \in Arrays : Merge(new)
    \/ Work

Spec == Init /\ [][Next]_vars
-------------------------------------------------------------------------------
TypeOK ==
    /\ list \in Lists /\ child \in [Keys -> Values]
    /\ texts \in [Keys -> SUBSET Fragments] /\ indexes \in [Keys -> SUBSET Fragments]
    /\ ToSet(nodes) \subseteq Fragments
    /\ section.dirty \in BOOLEAN /\ Iterations(View) \subseteq Fragments
    /\ DOMAIN section.iterations \subseteq Keys
    /\ \A f \in Fragments : fragments[f].shown \in Values
    /\ Len(batches) <= 2
    /\ watching \subseteq Observers

\* At rest the page and the models agree one for one: the nodes are those of
\* the iterations, in order; each fragment knows its place; exactly its two
\* texts are registered with the models of that place; and no model holds a
\* text of a fragment that has gone.  A registration that was moved twice, or
\* not at all, would show up here long before it showed on the page.
Aligned ==
    Idle =>
      /\ nodes = [n \in 1 .. Len(nodes) |-> section.iterations[n - 1]]
      /\ DOMAIN section.iterations = DOMAIN (IF list = Absent THEN Nothing ELSE list)
      /\ \A k \in Keys :
           LET here == IF k \in DOMAIN section.iterations THEN {section.iterations[k]} ELSE {} IN
           /\ texts[k] = here /\ indexes[k] = here
           /\ \A f \in here : fragments[f].index = k /\ fragments[f].text = k /\ fragments[f].key = k

\* When a call is over, an observer knows the value of what it observes, and
\* the pattern observer that of every element there is, whether elements were
\* set, moved from under it or moved into its place: but for a merge that moves
\* some elements and removes or adds others, which tells it of no more than the
\* places of those that moved.
ObserversTold ==
    Idle =>
      /\ "first" \in watching => first.told = (IF list = Absent THEN None ELSE At(list, 0))
      /\ "pattern" \in watching /\ ~ merged =>
           \A k \in Present(View) : k \in DOMAIN pattern.told /\ pattern.told[k] = list[k]

\* What the copy needs of the page: the observer of list.0, whose callback may
\* call while the array's is queued and queue it again in the batch inside, is
\* not beside it, and a list that is merged holds no element twice.
Apart == \A observers \in Watching : ~ {"first", "array"} \subseteq observers
Unrepeated == \A old, new \in Arrays :
    Mergeable(old, new) => \A i, j \in DOMAIN old : old[i] = old[j] => i = j

\* A copy kept by replaying what the array's observer is told is the array,
\* but for elements that were set and merges, which the reports do not tell.
ArrayReplayed ==
    Idle /\ "array" \in watching /\ ~ patched =>
      mirror.told = (IF list = Absent THEN <<>> ELSE AsSeq(list))

\* "trigger removal on old nodes": whatever the observers' callbacks do, a
\* node whose element was removed has left the page when the call is over.
RemovedLeavePage == Idle => ToSet(nodes) \subseteq Iterations(View)

\* The page the reader sees, and what the template makes of a list.
Shown == [n \in 1 .. Len(nodes) |-> <<fragments[nodes[n]].number, fragments[nodes[n]].shown>>]
Drawn(value) == IF value = Absent THEN <<>>
                ELSE [n \in 1 .. Length(value) |-> <<n - 1, value[n - 1]>>]

\* The list on the page implements a page that shows its data: it is brought
\* up to date before the call that changed the data is over.
Page == INSTANCE PageShowsData WITH AllData <- Lists, data <- list, shown <- Shown, busy <- batches # <<>>
ShowsData == Page!PageSpec
=============================================================================
