-------------------------------- MODULE Forms --------------------------------
(***************************************************************************)
(* The fields of a form that a page binds to its data both ways, in the     *)
(* build of Ractive that every page runs on: a text, check boxes that share *)
(* an array and appear and disappear, radio buttons, and a select whose     *)
(* options are a list in the data.  What the user does to a field is put    *)
(* into the data, what is put into the data is drawn, and a select whose    *)
(* value is not among its options puts what the browser then selects into   *)
(* the data, while it is drawn.  The attribute of the field that the user   *)
(* changed is locked until its batch is over.                               *)
(***************************************************************************)
EXTENDS Integers, Sequences, SequencesExt, TLC

CONSTANTS Boxes,         \* the values of the check boxes
          Radios,        \* those of the radio buttons, in their order
          Settings(_),   \* what the program sets a model to
          Typed,         \* what is typed into the text
          Reaction(_, _) \* what an observer of a model sets, when told a value

none == "none"     \* undefined
prompt == "prompt" \* the value of the option that cannot be chosen
Models == {"text", "marks", "choice", "place", "list", "shown"}
Lists == {"marks", "list", "shown"} \* never taken to be what they were

VARIABLES data,     \* the models
          typed, box, radio, options, selected, \* the nodes, as the browser has them
          last      \* the value each binding saw last

vars == <<data, typed, box, radio, options, selected, last>>

\* What is in flight within a call: locked attributes, the observers to be
\* called and those being called, what is to be drawn, and, of the batch, whether
\* drawing the page is up to it (the one in which it first had to be drawn) and
\* which attributes it will unlock.
View == [data |-> data, typed |-> typed, box |-> box, radio |-> radio, options |-> options,
         selected |-> selected, last |-> last, locked |-> {}, queue |-> <<>>, busy |-> {},
         dirty |-> {}, fragments |-> FALSE, tasks |-> {}]
Becomes(view) == \E v \in {view} :
    /\ data' = v.data /\ typed' = v.typed /\ box' = v.box /\ radio' = v.radio
    /\ options' = v.options /\ selected' = v.selected /\ last' = v.last

Shown(value) == IF value = none THEN "" ELSE value
Holds(seq, value) == Contains(seq, value)
Enabled(opts) == {k \in DOMAIN opts : opts[k] # prompt}
Least(S) == CHOOSE k \in S : \A j \in S : k <= j
-------------------------------------------------------------------------------
\* The data.

applyValue(v, m, x) ==
    IF m \notin Lists /\ v.data[m] = x THEN v
    ELSE [v EXCEPT !.data[m] = x, !.dirty = @ \cup {m},
                   !.fragments = @ \/ v.dirty = {},
                   !.queue = IF m \in v.busy THEN @ ELSE Append(@, [m |-> m, x |-> x]),
                   !.busy = @ \cup {m}]
-------------------------------------------------------------------------------
\* The browser's part.

\* A select with nothing selected selects its first option that can be.
Reset(opts, k) == IF k # 0 THEN k ELSE IF Enabled(opts) = {} THEN 0 ELSE Least(Enabled(opts))

\* The options are changed where they are: their nodes stay as long as there is
\* one at that place, and the browser looks again only if some come or go.
Replaced(v) ==
    LET opts == <<prompt>> \o v.data.list
        kept == IF v.selected <= Len(opts) THEN v.selected ELSE 0
    IN [v EXCEPT !.options = opts,
                 !.selected = IF Len(opts) = Len(v.options) THEN kept ELSE Reset(opts, kept)]
-------------------------------------------------------------------------------
\* Drawing.

DrawText(v) == IF "text" \in v.locked THEN v
               ELSE [v EXCEPT !.typed = Shown(v.data.text), !.last.text = v.data.text]

\* Those that appear are told what they are when they are rendered.
updateCheckboxName(v) ==
    [v EXCEPT !.box = [b \in ToSet(v.data.shown) |-> Holds(v.data.marks, b)]]

updateRadioName(v) ==
    [v EXCEPT !.radio = IF Holds(Radios, v.data.choice) THEN v.data.choice ELSE none,
              !.last.choice = IF \E r \in ToSet(Radios) : r \notin v.locked THEN v.data.choice ELSE @]

\* Mutant: the binding is not told what its attribute was changed to.
updateSelectValue_Untold(v) ==
    LET at == {k \in DOMAIN v.options : v.options[k] = v.data.place} IN
    CASE "place" \in v.locked -> v
      [] at # {} -> [v EXCEPT !.selected = Least(at)]
      [] OTHER -> [v EXCEPT !.selected = IF @ # 0 /\ v.options[@] = prompt THEN @ ELSE 0]

updateSelectValue(v) ==
    LET at   == {k \in DOMAIN v.options : v.options[k] = v.data.place}
        told == [v EXCEPT !.last.place = v.data.place]
    IN CASE "place" \in v.locked -> v
         [] at # {} -> [told EXCEPT !.selected = Least(at)]
         [] OTHER -> [told EXCEPT !.selected = IF @ # 0 /\ v.options[@] = prompt THEN @ ELSE 0]

forceUpdate(v) ==
    IF v.selected \notin Enabled(v.options) THEN v
    ELSE applyValue([v EXCEPT !.locked = @ \cup {"place"}, !.tasks = @ \cup {"place"}],
                    "place", v.options[v.selected])

sync(v) ==
    LET at == {k \in DOMAIN v.options : v.options[k] = v.data.place} IN
    CASE v.data.place = none -> forceUpdate(v)
      [] v.data.place # none /\ at # {} -> [v EXCEPT !.selected = Least(at)]
      [] OTHER -> forceUpdate([v EXCEPT !.selected = Reset(v.options, 0)])

\* Mutant: only a new value is looked for among the options.
UpdateSelect_Value(v) ==
    LET valued == IF "place" \in v.dirty THEN updateSelectValue(v) ELSE v
        listed == IF "list" \in v.dirty THEN Replaced(valued) ELSE valued
        drawn  == [listed EXCEPT !.dirty = {}]
    IN IF "place" \in v.dirty THEN sync(drawn) ELSE drawn

UpdateSelect(v) ==
    LET valued == IF "place" \in v.dirty THEN updateSelectValue(v) ELSE v
        listed == IF "list" \in v.dirty THEN Replaced(valued) ELSE valued
        drawn  == [listed EXCEPT !.dirty = {}]
    IN IF v.dirty \cap {"place", "list"} # {} THEN sync(drawn) ELSE drawn

Draw(v) ==
    LET text   == IF "text" \in v.dirty THEN DrawText(v) ELSE v
        boxes  == IF v.dirty \cap {"marks", "shown"} # {} THEN updateCheckboxName(text) ELSE text
        radios == IF "choice" \in v.dirty THEN updateRadioName(boxes) ELSE boxes
    IN UpdateSelect([radios EXCEPT !.fragments = FALSE])
-------------------------------------------------------------------------------
\* Batches: an observer that sets something does so in a batch of its own.

RECURSIVE flushChanges(_), Inner(_, _)

dispatch(v, call) ==
    LET sets   == Reaction(call.m, call.x)
        called == IF sets = <<>> THEN v ELSE Inner(v, sets)
    IN [called EXCEPT !.busy = @ \ {call.m}]

Inner(v, sets) ==
    LET begun == [v EXCEPT !.queue = <<>>, !.fragments = FALSE, !.tasks = {}]
        done  == flushChanges(FoldLeft(LAMBDA w, s : applyValue(w, s.m, s.x), begun, sets))
    IN [done EXCEPT !.queue = v.queue, !.fragments = v.fragments, !.tasks = v.tasks]

\* "If updating the view caused some model blowback ... then we start over".
flushChanges(v) ==
    LET told     == FoldLeft(dispatch, [v EXCEPT !.queue = <<>>], v.queue)
        drawn    == IF told.fragments THEN Draw(told) ELSE told
        unlocked == [drawn EXCEPT !.locked = @ \ drawn.tasks, !.tasks = {}]
    IN IF unlocked.fragments \/ unlocked.queue # <<>> THEN flushChanges(unlocked) ELSE unlocked

\* The last value is noted only when it is another one.
handleChange(v, m, x, attribute) ==
    IF m \in DOMAIN last /\ v.last[m] = x THEN v
    ELSE LET set == applyValue([v EXCEPT !.locked = {attribute}, !.tasks = {attribute}], m, x)
         IN flushChanges(IF m \in DOMAIN last THEN [set EXCEPT !.last[m] = x] ELSE set)
-------------------------------------------------------------------------------
\* What the user does: the browser changes the node, then the binding is told.

Type(x) == Becomes(handleChange([View EXCEPT !.typed = x], "text", x, "text"))

handleBlur == \E v \in {handleChange(View, "text", typed, "text")} :
    Becomes([v EXCEPT !.typed = Shown(v.data.text)])

Tick(b) ==
    /\ b \in DOMAIN box
    /\ LET v == [View EXCEPT !.box[b] = ~ @]
           m == CASE v.box[b] /\ ~ Holds(data.marks, b) -> Append(data.marks, b)
                  [] ~ v.box[b] -> SelectSeq(data.marks, LAMBDA c : c # b)
                  [] OTHER -> data.marks
       IN Becomes(handleChange(v, "marks", m, b))

Pick(r) ==
    /\ r # radio
    /\ Becomes(handleChange([View EXCEPT !.radio = r], "choice", r, r))

Select(k) ==
    /\ k \in Enabled(options) \ {selected}
    /\ Becomes(handleChange([View EXCEPT !.selected = k], "place", options[k], "place"))

\* What the program does.
Set == \E m \in Models : \E x \in Settings(m) : Becomes(flushChanges(applyValue(View, m, x)))
SetTwo == \E m, n \in Models : \E x \in Settings(m), y \in Settings(n) :
    m # n /\ Becomes(flushChanges(applyValue(applyValue(View, m, x), n, y)))

\* Bound, fields that have no value get their initial one; a select that shows
\* its prompt has none.
Init ==
    /\ data = [text |-> "", marks |-> <<>>, choice |-> none, place |-> none, list |-> <<>>, shown |-> <<>>]
    /\ typed = "" /\ box = <<>> /\ radio = none
    /\ options = <<prompt>> /\ selected = 1
    /\ last = [text |-> "", choice |-> none, place |-> none]

Next ==
    \/ \E x \in Typed : Type(x)
    \/ handleBlur
    \/ \E b \in Boxes : Tick(b)
    \/ \E r \in ToSet(Radios) : Pick(r)
    \/ \E k \in DOMAIN options : Select(k)
    \/ Set
    \/ SetTwo

Spec == Init /\ [][Next]_vars
-------------------------------------------------------------------------------
\* After a call every field shows its data, and a select never shows a choice
\* that is not the one in the data: where the value is an option that option is
\* selected, where it is not nothing that could be chosen is.
ShowsForm ==
    /\ typed = Shown(data.text)
    /\ DOMAIN box = ToSet(data.shown) /\ \A b \in DOMAIN box : box[b] <=> Holds(data.marks, b)
    /\ radio = IF Holds(Radios, data.choice) THEN data.choice ELSE none
    /\ IF Holds(options, data.place) THEN selected # 0 /\ options[selected] = data.place
       ELSE selected \notin Enabled(options)

\* What the user does to a field is in the data afterwards, however often it
\* was done and undone before, unless an observer of that field sets it; a tick
\* changes what is said of that box alone, and no box is in the array twice.
Own(m, x) == \E k \in DOMAIN Reaction(m, x) : Reaction(m, x)[k].m = m
UserDecides == [][
    /\ \A x \in Typed : Type(x) => data'.text = x
    /\ \A b \in Boxes : Tick(b) =>
         /\ ToSet(data'.marks) = IF b \in ToSet(data.marks) THEN ToSet(data.marks) \ {b}
                                 ELSE ToSet(data.marks) \cup {b}
         /\ IsInjective(data.marks) => IsInjective(data'.marks)
    /\ \A r \in ToSet(Radios) : Pick(r) /\ ~ Own("choice", r) => data'.choice = r
    /\ \A k \in DOMAIN options : Select(k) => data'.place = options[k]]_vars
=============================================================================
