--------------------------- MODULE PageTransitions ---------------------------
(***************************************************************************)
(* Showing and hiding with transitions, in the build of Ractive that every *)
(* page runs on: {{#if outer}}<div fade-in-out as-d>{{#if inner}}          *)
(* <p fade-in-out as-d>..{{/if}}</div>{{/if}}.  A call of set makes a      *)
(* batch with a transition manager; a callback that calls set while the    *)
(* batch is flushed, a deferred observer or a decorator, makes a batch     *)
(* inside it, with a manager below the first.  A node that is hidden stays *)
(* on the page until the outros that touch it are over, its decorator is   *)
(* then torn down, and the promise that set returned is fulfilled when all *)
(* is done.  The call and the start of the transitions are one task; what  *)
(* comes later, the end of an animation, its promise, the handlers of the  *)
(* call's promise, is a task each and meets other calls.                   *)
(***************************************************************************)
EXTENDS Integers, Sequences, FiniteSets, SequencesExt

CONSTANTS Elements,   \* names of elements (bound)
          Managers,   \* names of batches and their managers (bound)
          MaxNested,  \* calls inside a call (bound)
          Templates,  \* which directives the template has, on which place
          Crossing,   \* a call may hide an element whose intro it has not begun
          None

Places == {"outer", "inner"}
Ways == {"intro", "outro"}
Runs == 1 .. 3 \* a transition is started at most for an intro and two outros

ASSUME NoneAssumption == None \notin Elements \cup Managers

VARIABLES
    template,  \* the directives of each place, whether its transition is there, nestedTransitions
    data,      \* what the conditions of the sections say
    element,
    manager,
    tasks,     \* decorators to be called, in the root batch
    animating, \* animations whose promise is not yet kept: of which element, which start
    crossed,   \* an element was hidden before its intro began
    early      \* a node was detached before an outro on it was over

View == [data |-> data, element |-> element, manager |-> manager, tasks |-> tasks,
         animating |-> animating, crossed |-> crossed, early |-> early]
vars == <<template, data, element, manager, tasks, animating, crossed, early>>

Becomes(view) == \E v \in {view} :
    /\ data' = v.data /\ element' = v.element /\ manager' = v.manager /\ tasks' = v.tasks
    /\ animating' = v.animating /\ crossed' = v.crossed
    /\ early' = v.early

\* An element and its transition, one object for intro and outro; the start
\* it is at, and those that are complete.  For the properties, how far its
\* outro is and the manager of the call that removed it.
NoElement ==
    [place |-> None, parent |-> None, rendered |-> FALSE, attached |-> FALSE, removed |-> "no",
     isIntro |-> FALSE, starting |-> FALSE, manager |-> None, start |-> 0, complete |-> {},
     handle |-> "none", shouldDestroy |-> FALSE, outro |-> "none", remover |-> None]

\* A batch's transition manager, and the promise that its call returns with
\* the handler the page gave it.
NoManager ==
    [parent |-> None, intros |-> <<>>, outros |-> <<>>, children |-> <<>>, totalChildren |-> 0,
     outroChildren |-> 0, detachQueue |-> <<>>, outrosComplete |-> FALSE, notifiedTotal |-> FALSE,
     promise |-> "none", handlers |-> 0, waits |-> 0, told |-> 0]
-------------------------------------------------------------------------------
\* Elements.

Shown(v, place) == {e \in Elements : v.element[e].place = place /\ v.element[e].rendered}
Inside(v, e) == {f \in Elements : v.element[f].parent = e}
Least(S) == CHOOSE x \in S : \A y \in S : x <= y
Touches(v, e, f) == f = e \/ f \in Inside(v, e) \/ e \in Inside(v, f)

\* Mutant: a decorator that is not there yet is left alone.
Destroyed_There(v, e) == [v EXCEPT !.element[e].handle = IF @ = "on" THEN "off" ELSE @]

\* destroyed(), of a decorator: its handle is torn down, or will be as soon
\* as there is one.
Destroyed(v, e) ==
    [v EXCEPT !.element[e].handle = IF @ = "on" THEN "off" ELSE @,
              !.element[e].shouldDestroy = TRUE]

\* Managers above and beside this one, of one call.
Top(v, m) == LET up[n \in Managers \cup {None}] ==
                   IF n = None \/ v.manager[n].parent = None THEN n ELSE up[v.manager[n].parent]
             IN up[m]
Tree(v, m) == {n \in Managers : v.manager[n].promise # "none" /\ Top(v, n) = Top(v, m)}

\* detach(), of an element that is no longer rendered: it is destroyed, with
\* what was inside it when it was unrendered.
Detach(v, e) ==
    LET with  == {e} \cup {f \in Inside(v, e) : v.element[f].removed = "within"}
        due   == {f \in {e} \cup Inside(v, e) :
                    /\ v.element[f].outro = "due"
                    /\ v.element[f].manager \in Tree(v, v.element[e].remover)}
    IN FoldLeft(Destroyed, [v EXCEPT !.element[e].attached = FALSE, !.early = @ \/ due # {}],
                SetToSeq(with))
-------------------------------------------------------------------------------
\* Transition managers.

RECURSIVE DetachNodes(_, _), Check(_, _), Start(_, _)

DetachNodes(v, m) ==
    [FoldLeft(DetachNodes, FoldLeft(Detach, v, v.manager[m].detachQueue), v.manager[m].children)
       EXCEPT !.manager[m].detachQueue = <<>>]

\* The call's promise is fulfilled, once; its handlers are called later.
Fulfil(v, m) ==
    IF v.manager[m].promise # "pending" THEN v
    ELSE [v EXCEPT !.manager[m].promise = "fulfilled",
                   !.manager[m].waits = IF v.manager[m].parent = None THEN @ + 1 ELSE @]

\* The outros of a manager and of those below it are over: the manager above
\* is told, which detaches what both have, or the nodes are detached.
CheckOutros(v, m, up) ==
    CASE v.manager[m].outrosComplete -> v
      [] ~ v.manager[m].outrosComplete /\ up # None /\ ~ v.manager[up].outrosComplete
           -> Check([v EXCEPT !.manager[m].outrosComplete = TRUE, !.manager[up].outroChildren = @ - 1], up)
      [] OTHER -> DetachNodes([v EXCEPT !.manager[m].outrosComplete = TRUE], m)

\* Then everything is, the intros too.
CheckTotal(v, m, up) ==
    IF v.manager[m].intros # <<>> \/ v.manager[m].totalChildren # 0 THEN v
    ELSE IF up = None \/ v.manager[m].notifiedTotal THEN Fulfil(v, m)
    ELSE Check([Fulfil(v, m) EXCEPT !.manager[m].notifiedTotal = TRUE, !.manager[up].totalChildren = @ - 1], up)

Check(v, m) ==
    IF v.manager[m].outros # <<>> \/ v.manager[m].outroChildren # 0 THEN v
    ELSE CheckTotal(CheckOutros(v, m, v.manager[m].parent), m, v.manager[m].parent)

\* Mutant: always from the outros.
Removed_Outro(v, e) ==
    LET m == v.element[e].manager IN Check([v EXCEPT !.manager[m].outros = Remove(@, e)], m)

\* TransitionManager.remove: from the list that the transition is on now.
Removed(v, e) ==
    LET m == v.element[e].manager IN
    Check(IF v.element[e].isIntro THEN [v EXCEPT !.manager[m].intros = Remove(@, e)]
                                  ELSE [v EXCEPT !.manager[m].outros = Remove(@, e)], m)

\* complete(), as made by start number n: it counts once.
Complete(v, e, n) ==
    IF n \in v.element[e].complete THEN [v EXCEPT !.element[e].starting = FALSE]
    ELSE [Removed([v EXCEPT !.element[e].starting = FALSE,
                            !.element[e].outro = IF @ = "due" THEN "over" ELSE @], e)
            EXCEPT !.element[e].complete = @ \cup {n}]

\* The transition's function sets the styles off and returns a promise, which
\* is kept after some time, or soon if nothing changes or nobody sees the page.
animateStyle(v, e, n) == [v EXCEPT !.animating = @ \cup {<<e, n>>}]

\* Transition.start; a function that is not there completes it at once.
StartTransition(v, e) ==
    LET n == v.element[e].start + 1 IN
    IF template.missing THEN Complete([v EXCEPT !.element[e].start = n], e, n)
    ELSE animateStyle([v EXCEPT !.element[e].start = n], e, n)

StartOwn(v, m) == FoldLeft(StartTransition, v, v.manager[m].intros \o v.manager[m].outros)

Start(v, m) == Check(StartOwn(FoldLeft(Start, v, v.manager[m].children), m), m)

\* Mutant: only the outros of the batch itself are looked at.
Ready_Own(v, m) ==
    LET outros   == ToSet(v.manager[m].outros)
        stays(e) == \E f \in outros : Touches(v, e, f)
        queue    == v.manager[m].detachQueue
    IN [FoldLeft(Detach, v, SelectSeq(queue, LAMBDA e : ~ stays(e)))
          EXCEPT !.manager[m].detachQueue = SelectSeq(queue, stays)]

\* detachImmediate: what no outro of the whole call touches goes at once.
Ready(v, m) ==
    LET outros   == UNION {ToSet(v.manager[n].outros) : n \in Tree(v, m)}
        stays(e) == \E f \in outros : Touches(v, e, f)
        queue    == v.manager[m].detachQueue
    IN [FoldLeft(Detach, v, SelectSeq(queue, LAMBDA e : ~ stays(e)))
          EXCEPT !.manager[m].detachQueue = SelectSeq(queue, stays)]
-------------------------------------------------------------------------------
\* Drawing.

\* Whether the element's transition is for this, and is not one that a
\* transition of the element around it stands for.
ShouldFire(v, e, way) ==
    LET up == v.element[e].parent IN
    /\ way \in template.directives[v.element[e].place]
    /\ \/ up = None
       \/ template.nested
       \/ ~ (way \in template.directives[v.element[up].place] /\ v.element[up].starting)

\* runloop.registerTransition.
Registered(v, e, m, way) ==
    IF ~ ShouldFire(v, e, way) THEN v ELSE
    LET w == [v EXCEPT !.element[e].isIntro = (way = "intro"), !.element[e].starting = TRUE,
                       !.element[e].manager = m]
    IN IF way = "intro" THEN [w EXCEPT !.manager[m].intros = Append(@, e)]
       ELSE [w EXCEPT !.manager[m].outros = Append(@, e), !.element[e].outro = "due"]

\* Element.render; the decorator is called after everything else.
Render(v, place, parent, m) ==
    LET e    == Least({e \in Elements : v.element[e] = NoElement})
        made == [v EXCEPT !.element[e] = [NoElement EXCEPT
                   !.place = place, !.parent = parent, !.rendered = TRUE, !.attached = TRUE,
                   !.handle = "task"], !.tasks = Append(@, e)]
    IN Registered(made, e, m, "intro")

\* Element.unrender: an intro that still runs is complete now; the node is
\* detached when it may be, the outermost for all in it.
Unrender(v, e, m, removed) ==
    LET intro == "intro" \in template.directives[v.element[e].place] /\ v.element[e].start > 0
        Aborted(w) == IF intro THEN Complete(w, e, w.element[e].start) ELSE w
        Queued(w)  == IF removed = "self" THEN [w EXCEPT !.manager[m].detachQueue = Append(@, e)] ELSE w
    IN Registered(Queued(Aborted(
         [v EXCEPT !.element[e].rendered = FALSE, !.element[e].removed = removed, !.element[e].remover = m,
                   !.crossed = @ \/ (v.element[e].start = 0 /\ v.element[e].starting)])), e, m, "outro")

Only(S) == CHOOSE x \in S : TRUE

\* The sections of the template brought up to date, the outer one first.
Hide(v, e, m, removed) == IF e = {} THEN v ELSE Unrender(v, Only(e), m, removed)
HideOuter(v, m) == Hide(v, Shown(v, "outer"), m, "self")
UpdateOuter(v, m) ==
    IF v.data["outer"] /\ Shown(v, "outer") = {} THEN Render(v, "outer", None, m)
    ELSE IF v.data["outer"] THEN v ELSE HideOuter(v, m)
UpdateInner(v, m) ==
    IF v.data["outer"] /\ v.data["inner"] /\ Shown(v, "inner") = {}
    THEN Render(v, "inner", Only(Shown(v, "outer")), m)
    ELSE IF v.data["outer"] /\ v.data["inner"] THEN v
    ELSE Hide(v, Shown(v, "inner"), m, IF v.data["outer"] THEN "self" ELSE "within")
UpdateView(v, m) == UpdateInner(UpdateOuter(v, m), m)
-------------------------------------------------------------------------------
\* Calls.

\* runloop.start: a batch, inside another or not.
Batch(v, m, up) ==
    LET new == [v EXCEPT !.manager[m] = [NoManager EXCEPT !.parent = up, !.promise = "pending"]] IN
    IF up = None THEN new
    ELSE [new EXCEPT !.manager[up].children = Append(@, m),
                     !.manager[up].totalChildren = @ + 1, !.manager[up].outroChildren = @ + 1]

Free(v) == Least({m \in Managers : v.manager[m] = NoManager})

\* set, and the flush as far as the deferred observers.
Flushed(v, m, up, target) == Ready(UpdateView([Batch(v, m, up) EXCEPT !.data = target], m), m)

\* A decorator's handle is there when its function has returned; if the
\* element was destroyed before that, it is torn down.
Decorated(v, e) ==
    LET made == [v EXCEPT !.element[e].handle = "on"]
    IN IF v.element[e].shouldDestroy THEN Destroyed(made, e) ELSE made

\* The tasks of the root batch.
Decorate(v) == [FoldLeft(Decorated, v, v.tasks) EXCEPT !.tasks = <<>>]

\* The whole of a call, with the calls made inside it, by a deferred observer
\* or by a decorator: its handle is there only when its own call is over, so
\* both make them before any handle is.
Tasked(v, root, nested) == Decorate(FoldLeft(LAMBDA w, n : Flushed(w, Free(w), root, n), v, nested))
Returned(v, root) ==
    [v EXCEPT !.manager[root].handlers = 1,
              !.manager[root].waits = IF v.manager[root].promise = "pending" THEN @ ELSE @ + 1]
Called(v, root, target, nested) ==
    Returned(Start(Tasked(Flushed(v, root, None, target), root, nested), root), root)

\* An element that has left and that nothing knows any more is forgotten, and
\* so is a call that is over.
Detached(v, e) ==
    \/ v.element[e].removed = "self" /\ ~ v.element[e].attached
    \/ v.element[e].removed = "within" /\ ~ v.element[v.element[e].parent].attached
Unfinished(v, e) ==
    v.element[e].manager # None /\ (v.element[e].starting \/ v.element[e].start \notin v.element[e].complete)

Forgotten(v) ==
    LET listed  == UNION {ToSet(v.manager[m].intros) \cup ToSet(v.manager[m].outros)
                            \cup ToSet(v.manager[m].detachQueue) : m \in Managers}
        playing == {p[1] : p \in v.animating}
        gone    == {e \in Elements \ (listed \cup playing) :
                      v.element[e].place # None /\ Detached(v, e) /\ v.element[e].handle = "off"}
        last    == {e \in gone : Inside(v, e) \subseteq gone}
        known   == {Top(v, v.element[e].manager) : e \in {f \in Elements : Unfinished(v, f)}}
                     \cup {Top(v, v.element[e].remover) : e \in {f \in Elements \ last : v.element[f].remover # None}}
        over    == {m \in Managers : LET root == Top(v, m) IN
                      /\ root \notin known
                      /\ v.manager[root].told = 1 /\ v.manager[root].waits = 0
                      /\ \A n \in Tree(v, m) : v.manager[n].promise = "fulfilled"}
    IN [v EXCEPT
          !.element = [e \in Elements |->
             IF e \in last THEN NoElement
             ELSE IF Unfinished(v, e) THEN v.element[e] ELSE [v.element[e] EXCEPT !.manager = None]],
          !.manager = [m \in Managers |-> IF m \in over THEN NoManager ELSE v.manager[m]]]
-------------------------------------------------------------------------------
\* Actions.

Targets == [Places -> BOOLEAN]
Holds(target, place) == target["outer"] /\ target[place]

\* Elements that a sequence of settings of the data makes.
Made(before, targets) ==
    LET all == <<before>> \o targets IN
    Cardinality({<<i, p>> \in (1 .. Len(targets)) \X Places :
                   Holds(all[i + 1], p) /\ ~ Holds(all[i], p)})

\* ractive.set, whose observers and decorators may set again.
Set(target, nested) ==
    /\ Made(data, <<target>> \o nested)
         <= Cardinality({e \in Elements : element[e] = NoElement})
    /\ Len(nested) < Cardinality({m \in Managers : manager[m] = NoManager})
    /\ \E v \in {Called(View, Free(View), target, nested)} :
         /\ v.crossed => Crossing
         /\ Becomes(Forgotten(v))
    /\ UNCHANGED template

\* transitionend, or the timeout that is there in case it never comes, and
\* then .then(t.complete).
AnimationOver(e, n) ==
    /\ <<e, n>> \in animating
    /\ Becomes(Forgotten(Complete([View EXCEPT !.animating = @ \ {<<e, n>>}], e, n)))
    /\ UNCHANGED template

\* A dispatch of the handlers of the call's promise: each is taken and called.
PromiseThen(m) ==
    /\ manager[m].waits > 0
    /\ Becomes(Forgotten([View EXCEPT !.manager[m].waits = @ - 1,
                                      !.manager[m].told = @ + manager[m].handlers,
                                      !.manager[m].handlers = 0]))
    /\ UNCHANGED template

Init ==
    /\ template \in Templates
    /\ data = [place \in Places |-> FALSE]
    /\ element = [e \in Elements |-> NoElement]
    /\ manager = [m \in Managers |-> NoManager]
    /\ tasks = <<>> /\ animating = {}
    /\ crossed = FALSE /\ early = FALSE

Nested == UNION {[1 .. n -> Targets] : n \in 0 .. MaxNested}

Next ==
    \/ \E target \in Targets, nested \in Nested : Set(target, nested)
    \/ \E e \in Elements, n \in Runs : AnimationOver(e, n)
    \/ \E m \in Managers : PromiseThen(m)

Spec == Init /\ [][Next]_vars

\* Timers fire: an animation is over some time, by AnimationOver as nothing
\* else ends one.  But one whose transition was completed for it has no timer
\* left and may never report.
Over(e, n) ==
    /\ <<e, n>> \in animating /\ n \notin element[e].complete
    /\ animating' = animating \ {<<e, n>>}

Fairness == \A e \in Elements, n \in Runs : WF_animating(Over(e, n))

FairSpec == Spec /\ Fairness
-------------------------------------------------------------------------------
TypeOK ==
    /\ data \in Targets
    /\ \A e \in Elements :
         /\ element[e].place \in Places \cup {None}
         /\ element[e].parent \in Elements \cup {None}
         /\ element[e].manager \in Managers \cup {None}
         /\ element[e].start \in 0 .. 3 /\ element[e].complete \subseteq Runs
         /\ element[e].handle \in {"none", "task", "on", "off"}
         /\ element[e].outro \in {"none", "due", "over"}
    /\ \A m \in Managers :
         /\ manager[m].promise \in {"none", "pending", "fulfilled"}
         /\ manager[m].totalChildren \in 0 .. MaxNested
         /\ manager[m].outroChildren \in 0 .. MaxNested
         /\ manager[m].waits \in 0 .. 2 /\ manager[m].told \in 0 .. 1
    /\ tasks = <<>> /\ animating \subseteq Elements \X Runs

\* A node is not taken off the page while an outro that its own call began,
\* on it or inside it, is not over, whatever other calls hide and show.
LeavesAfterOutros == ~ early

\* What has left the page has had its decorator torn down, although the
\* decorator may have been called only after the element was destroyed.
Torn(e) == Detached(View, e) => element[e].handle = "off"

\* Once the promise of a call is fulfilled, every transition it began, the
\* calls inside it included, is over, and what it hid has left the page.
PromiseAfterAll ==
    \A m \in Managers : manager[m].parent = None /\ manager[m].promise = "fulfilled" =>
        \A e \in Elements :
            /\ element[e].manager \in Tree(View, m) => ~ Unfinished(View, e)
            /\ element[e].remover \in Tree(View, m) /\ element[e].removed # "no" =>
                 Detached(View, e) /\ Torn(e)

\* "Once everything is done, we can notify parent transition manager and call
\* the callback": with nothing left to wait for, no call is still pending.
NothingPending ==
    animating = {} => \A m \in Managers : manager[m].promise # "pending"

\* The promise of every call is fulfilled, however its transitions are cut
\* short by other calls.
EveryCallEnds ==
    \A m \in Managers : manager[m].promise = "pending" ~> manager[m].promise # "pending"
=============================================================================
