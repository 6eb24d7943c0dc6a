------------------------------ MODULE Computed ------------------------------
(***************************************************************************)
(* What a page shows that is worked out of its data, in the build of        *)
(* Ractive that every page runs on: computed properties, which get what     *)
(* they need and so find out what they depend on; expressions in mustaches, *)
(* which depend on their references; and {{list[index]}}, which stands for  *)
(* one model or another.  Each keeps its value until something it depends   *)
(* on has changed.  A change runs through those that are registered with    *)
(* what changed, one after the other; an observer on the way asks for a     *)
(* value at once, when some of what it depends on has not heard yet.        *)
(***************************************************************************)
EXTENDS Integers, Sequences, SequencesExt, TLC

CONSTANTS Computations,  \* computed properties
          Expressions,   \* expressions in mustaches
          Getter(_, _),  \* what one of them does next, given what it got so far
          PartOf,        \* a part of a computed property, and which it is of
          Settings(_),    \* values a model may be set to
          Templates,     \* what is on the page, in its order
          Observable,    \* what may be observed
          Together       \* whether a call may set two models

Item(k) == IF k = 1 THEN "list.0" ELSE "list.1"
ItemName(k) == IF k = 1 THEN "list.0.name" ELSE "list.1.name"
Leaves == {"title", "file", "index", "list.0.name", "list.1.name"}
Below == ("list" :> <<"list.0", "list.1">>) @@ ("list.0" :> <<"list.0.name">>) @@ ("list.1" :> <<"list.1.name">>)
Above == ("list.0" :> <<"list">>) @@ ("list.1" :> <<"list">>)
           @@ ("list.0.name" :> <<"list.0", "list">>) @@ ("list.1.name" :> <<"list.1", "list">>)
Models == Leaves \cup DOMAIN Below
Children(m) == IF m \in DOMAIN Below THEN Below[m] ELSE <<>>
Parents(m) == IF m \in DOMAIN Above THEN Above[m] ELSE <<>>

Parts == DOMAIN PartOf
Proxies == {"element", "element.name"} \* {{list[index]}}, and {{name}} inside it
Nodes == Models \cup Computations \cup Expressions \cup Parts \cup Proxies

VARIABLES
    template,
    val,     \* the values of the models, as far as they have been marked
    deps,    \* who is registered with what, in that order
    node,    \* what is worked out: its value, whether it may be old, and what it used
    target,  \* the model {{list[index]}} stands for
    shown, stale, \* what the page shows, and which of it is to be drawn
    watch,   \* the observers
    queue,   \* those to be called
    told     \* what they were told in the last call

View == [template |-> template, val |-> val, deps |-> deps, node |-> node, target |-> target,
         shown |-> shown, stale |-> stale, watch |-> watch, queue |-> queue, told |-> told]
vars == <<template, val, deps, node, target, shown, stale, watch, queue, told>>

Becomes(view) == \E v \in {view} :
    /\ template' = v.template /\ val' = v.val /\ deps' = v.deps /\ node' = v.node
    /\ target' = v.target /\ shown' = v.shown /\ stale' = v.stale
    /\ watch' = v.watch /\ queue' = v.queue /\ told' = v.told

\* Those that are told of changes.
Worked(n) == [t |-> "node", n |-> n]
TextOf(n) == [t |-> "text", n |-> n]
Watcher(n) == [t |-> "watch", n |-> n]
intermediary == [t |-> "member", n |-> "index"] \* of {{list[index]}}, for its index

register(v, n, dep) == [v EXCEPT !.deps[n] = Append(@, dep)]
Without(seq, x) == IF Contains(seq, x) THEN RemoveAt(seq, CHOOSE i \in DOMAIN seq :
    seq[i] = x /\ \A j \in 1 .. i - 1 : seq[j] # x) ELSE seq
unregister(v, n, dep) == [v EXCEPT !.deps[n] = Without(@, dep)]
Got(v, x) == [v |-> v, x |-> x]
-------------------------------------------------------------------------------
\* What a model is: a list has the objects that its items have, and they the
\* names.

Retrieved(values, m) ==
    CASE m = "list.0" -> values["list"][1]
      [] m = "list.1" -> values["list"][2]
      [] m = "list.0.name" -> values["list.0"]
      [] m = "list.1.name" -> values["list.1"]
      [] OTHER -> values[m]

\* What is put into an object is in what that is in.
Stored(values, m, x) ==
    LET k  == IF m \in {"list.0", "list.0.name"} THEN 1 ELSE 2
        in == [values EXCEPT ![m] = x]
    IN IF Parents(m) = <<>> THEN in
       ELSE [in EXCEPT ![Item(k)] = x, !["list"] = [@ EXCEPT ![k] = x]]
-------------------------------------------------------------------------------
\* Getting a value, and telling of a change, which call each other.

RECURSIVE handleChange(_, _), get(_, _), Evaluate(_, _, _, _), HandleNode(_, _), HandleElement(_)

\* forEach, of an array that may change meanwhile: it looks at as many places
\* as there were, where there still are.
RECURSIVE Each(_, _, _, _)
Each(v, n, k, length) ==
    IF k > length \/ k > Len(v.deps[n]) THEN v
    ELSE Each(handleChange(v, v.deps[n][k]), n, k + 1, length)
Notify(v, n) == Each(v, n, 1, Len(v.deps[n]))

\* Registered with what is used now and was not before, in one order for
\* computed properties and in the other for expressions.
setDependencies(v, n, uses) ==
    LET old     == v.node[n].uses
        ordered == n \in Computations
        gone    == SelectSeq(IF ordered THEN Reverse(old) ELSE old, LAMBDA m : ~ Contains(uses, m))
        fresh   == SelectSeq(IF ordered THEN Reverse(uses) ELSE uses, LAMBDA m : ~ Contains(old, m))
        left    == FoldLeft(LAMBDA w, m : unregister(w, m, Worked(n)), v, gone)
        kept    == IF ordered THEN uses ELSE SelectSeq(old, LAMBDA m : Contains(uses, m)) \o fresh
    IN FoldLeft(LAMBDA w, m : register(w, m, Worked(n)), [left EXCEPT !.node[n].uses = kept], fresh)

\* The getter runs; what it gets is captured.
Evaluate(v, n, seen, uses) ==
    LET next == Getter(n, seen) IN
    IF "value" \in DOMAIN next
    THEN Got([setDependencies(v, n, uses) EXCEPT !.node[n].value = next.value], next.value)
    ELSE LET r == get(v, next.get) IN Evaluate(r.v, n, Append(seen, r.x), Append(uses, next.get))

GetPart(v, n) ==
    LET r == get([v EXCEPT !.node[n].dirty = FALSE], PartOf[n]) IN
    Got([r.v EXCEPT !.node[n].value = r.x], r.x)

\* The child of {{list[index]}} looks at what its parent is now.
RetrieveName(v) ==
    IF ~ v.node["element.name"].dirty THEN Got(v, v.node["element.name"].value)
    ELSE LET r == get([v EXCEPT !.node["element.name"].dirty = FALSE], "element") IN
         Got([r.v EXCEPT !.node["element.name"].value = r.x], r.x)
MarkName(v) ==
    LET r == RetrieveName([v EXCEPT !.node["element.name"].dirty = TRUE]) IN
    CASE ~ Contains(v.template, "element.name") -> v
      [] r.x = v.node["element.name"].value -> r.v
      [] OTHER -> Notify(r.v, "element.name")
MarkElement(v) == MarkName(IF v.node["element"].dirty THEN Notify(v, "element") ELSE v)

\* Mutant: it stays registered with the model it stood for.
Resolved_Stays(v, model) ==
    IF model = v.target THEN v ELSE register([v EXCEPT !.target = model], model, Worked("element"))

Resolved(v, model) ==
    IF model = v.target THEN v
    ELSE register([IF v.target \in Models THEN unregister(v, v.target, Worked("element")) ELSE v
                     EXCEPT !.target = model], model, Worked("element"))

GetElement(v) ==
    LET k == IF v.val["index"] = <<"0">> THEN 1 ELSE 2
        w == Resolved(v, Item(k))
    IN Got(MarkElement([w EXCEPT !.node["element"].value = w.val[Item(k)], !.node["element"].dirty = FALSE]),
           w.val[Item(k)])

get(v, n) ==
    CASE n \in Models -> Got(v, v.val[n])
      [] n = "element.name" -> RetrieveName(v)
      [] n = "element" /\ ~ v.node[n].dirty -> Got(v, v.val[v.target])
      [] n = "element" /\ v.node[n].dirty -> GetElement(v)
      [] n \in Parts /\ v.node[n].dirty -> GetPart(v, n)
      [] n \in Computations \cup Expressions /\ v.node[n].dirty ->
           Evaluate([v EXCEPT !.node[n].dirty = FALSE], n, <<>>, <<>>)
      [] OTHER -> Got(v, v.node[n].value)

\* An observer that is not queued asks for the value now.
Watched(v, n) ==
    IF v.watch[n].dirty THEN v
    ELSE LET r == get(v, n) IN
         IF r.x = v.watch[n].old THEN r.v
         ELSE [r.v EXCEPT !.watch[n].new = r.x, !.watch[n].dirty = TRUE, !.queue = Append(@, n)]

HandleNode(v, n) ==
    LET w == Notify([v EXCEPT !.node[n].dirty = TRUE], n)
    IN FoldLeft(LAMBDA u, p : IF PartOf[p] = n THEN HandleNode(u, p) ELSE u, w, SetToSeq(Parts))

HandleElement(v) == MarkElement([v EXCEPT !.node["element"].dirty = TRUE])

handleChange(v, dep) ==
    CASE dep.t = "text" -> [v EXCEPT !.stale = @ \cup {dep.n}]
      [] dep.t = "watch" -> Watched(v, dep.n)
      [] dep = intermediary \/ dep = Worked("element") -> HandleElement(v)
      [] OTHER -> HandleNode(v, dep.n)
-------------------------------------------------------------------------------
\* A call sets models, then the runloop calls observers and draws.

RECURSIVE mark(_, _)
mark(v, m) ==
    LET x == Retrieved(v.val, m) IN
    IF m \in Leaves /\ v.val[m] = x THEN v
    ELSE Notify(FoldLeft(mark, [v EXCEPT !.val[m] = x], Children(m)), m)

\* Mutant: those above are not told.
applyValue_Down(v, m, x) ==
    IF m \in Leaves /\ v.val[m] = x THEN v
    ELSE Notify(FoldLeft(mark, [v EXCEPT !.val = Stored(@, m, x)], Children(m)), m)

applyValue(v, m, x) ==
    IF m \in Leaves /\ v.val[m] = x THEN v
    ELSE FoldLeft(Notify, Notify(FoldLeft(mark, [v EXCEPT !.val = Stored(@, m, x)], Children(m)), m), Parents(m))

\* Mutant: it keeps what it was told.
dispatch_Told(v, n) ==
    [v EXCEPT !.told = Append(@, [n |-> n, x |-> v.watch[n].new]),
              !.watch[n].old = v.watch[n].new, !.watch[n].dirty = FALSE]

\* An observer is called with what it found when it was queued, and keeps
\* what the value is after its callback.
dispatch(v, n) ==
    LET told_ == [v EXCEPT !.told = Append(@, [n |-> n, x |-> v.watch[n].new])]
        r     == get(told_, n)
    IN [r.v EXCEPT !.watch[n].old = r.x, !.watch[n].dirty = FALSE]

Draw(v, n) ==
    LET r == get([v EXCEPT !.stale = @ \ {n}], n) IN
    IF n \in v.stale THEN [r.v EXCEPT !.shown[n] = r.x] ELSE v

flushChanges(v) ==
    FoldLeft(Draw, FoldLeft(dispatch, [v EXCEPT !.queue = <<>>, !.told = <<>>], v.queue), v.template)

set(m, x) == Becomes(flushChanges(applyValue(View, m, x)))

SetOne == \E m \in Models : \E x \in Settings(m) : set(m, x)
SetTwo ==
    /\ Together
    /\ \E m, n \in Models : \E x \in Settings(m), y \in Settings(n) :
          m # n /\ Becomes(flushChanges(applyValue(applyValue(View, m, x), n, y)))

\* What is put into {{list[index]}}, or the name in it, as an input that is
\* bound to it does, goes to the model it stands for.
SetThrough == \E n \in Proxies \cap ToSet(template) :
    LET k == IF target = Item(1) THEN 1 ELSE 2
        m == IF n = "element" THEN Item(k) ELSE ItemName(k)
    IN \E x \in Settings(m) : ~ (n = "element.name" /\ x = node[n].value) /\ set(m, x)

\* ractive.observe, which calls back at once, and its cancel.
observe == \E n \in Observable \ DOMAIN watch :
    LET r == get(View, n) IN
    Becomes(register([r.v EXCEPT !.watch = @ @@ (n :> [old |-> r.x, new |-> r.x, dirty |-> FALSE]),
                                 !.told = <<[n |-> n, x |-> r.x]>>], n, Watcher(n)))
cancel == \E n \in DOMAIN watch :
    Becomes(unregister([View EXCEPT !.watch = [m \in DOMAIN watch \ {n} |-> watch[m]], !.told = <<>>],
                       n, Watcher(n)))

\* A mustache that is bound makes what it shows, gets it and registers.
Bind(v, n) ==
    LET w == IF n = "element" THEN register(v, "index", intermediary) ELSE v
        r == get(w, n)
    IN register([r.v EXCEPT !.shown = @ @@ (n :> r.x)], n, TextOf(n))

First(m) ==
    CASE m \in {"title", "file"} -> <<>>
      [] m = "index" -> <<"0">>
      [] m = "list" -> <<<<"x">>, <<"x">>>>
      [] OTHER -> <<"x">>

Unbound(t) ==
    [template |-> t, val |-> [m \in Models |-> First(m)], deps |-> [n \in Nodes |-> <<>>],
     node |-> [n \in Nodes \ Models |-> [dirty |-> TRUE, value |-> <<>>, uses |-> <<>>]],
     target |-> "none", shown |-> <<>>, stale |-> {}, watch |-> <<>>, queue |-> <<>>, told |-> <<>>]

Init == \E t \in Templates : \E v \in {FoldLeft(Bind, Unbound(t), t)} :
    /\ template = v.template /\ val = v.val /\ deps = v.deps /\ node = v.node
    /\ target = v.target /\ shown = v.shown /\ stale = v.stale
    /\ watch = v.watch /\ queue = v.queue /\ told = v.told

Next == SetOne \/ SetTwo \/ SetThrough \/ observe \/ cancel

Spec == Init /\ [][Next]_vars
-------------------------------------------------------------------------------
\* What each is, of the data alone.

RECURSIVE ValueOf(_, _), Run(_, _, _)
Run(values, n, seen) ==
    LET next == Getter(n, seen) IN
    IF "value" \in DOMAIN next THEN [x |-> next.value, uses |-> {}]
    ELSE LET r == Run(values, n, Append(seen, ValueOf(values, next.get)))
         IN [r EXCEPT !.uses = @ \cup {next.get}]
ValueOf(values, n) ==
    CASE n \in Models -> values[n]
      [] n \in Parts -> ValueOf(values, PartOf[n])
      [] n \in Proxies -> values[IF values["index"] = <<"0">> THEN "list.0" ELSE "list.1"]
      [] OTHER -> Run(values, n, <<>>).x

\* "notify dependants": after a call the page shows what its data say, each
\* computed property, part, expression and element of it.
ShowsValues == stale = {} /\ \A n \in ToSet(template) : shown[n] = ValueOf(val, n)

\* What is taken for up to date is, and will hear of every change: it is
\* registered with all that its value was made from, whatever that was before.
Listening ==
    /\ \A n \in Computations \cup Expressions : ~ node[n].dirty =>
         /\ node[n].value = ValueOf(val, n)
         /\ \A m \in Run(val, n, <<>>).uses : Contains(deps[m], Worked(n))
    /\ \A n \in Parts : ~ node[n].dirty => node[n].value = ValueOf(val, n)
    /\ ~ node["element"].dirty => /\ target = Item(IF val["index"] = <<"0">> THEN 1 ELSE 2)
                                  /\ \A m \in Models : Contains(deps[m], Worked("element")) <=> m = target

\* "if ( !this.dirty )": of all the ways a change reaches an observer it is
\* called once, in the call that changed the value, and what it will compare
\* the next change with is the value in the end, whatever it was told on the way.
ToldOnce == [][\A n \in DOMAIN watch \cap DOMAIN watch' :
    LET calls == SelectSeq(told', LAMBDA c : c.n = n) IN
    /\ Len(calls) <= 1
    /\ ValueOf(val', n) # ValueOf(val, n) => Len(calls) = 1
    /\ watch'[n].old = ValueOf(val', n) /\ ~ watch'[n].dirty]_vars
=============================================================================
