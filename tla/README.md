# NHRI Hub in TLA+

NHRI Hub is a Ruby on Rails application (Rails 6.0, PostgreSQL, puma with two
workers of up to six threads) with which a national human rights institution
keeps its register of complaints, its strategic plan, its documents, reminders
and reports.  Its logic is in two places.  On the server it is in ActiveRecord
models, spread over engines under `vendor/gems`: what is hard there is not an
algorithm but the *callbacks*, where one save reads and rewrites the rows around
it, from objects that were loaded earlier, in a database that has no unique
index and takes no lock.  In the browser it is in Ractive pages, and the
application carries in `app/assets/javascripts` the build of Ractive it was
written against, `ractive-1.0.0-build-64.js`, pinned and never released in that
form: every page runs on it, nobody else maintains it, and half of what a page
does (which row moves, what a computed property shows, when a dialog may leave)
is decided in it.

This directory models those parts, checks them with TLC and proves with TLAPS,
for every value of the constants, some of what TLC found on small instances.
`PROJECT.json` lists the runs, what they check, which source lines each
definition stands for, the hazards, the finding and the theorems.

    tlc -config StrategicPlan.cfg MCStrategicPlan.tla
    tlapm StrategicPlanProofs.tla

## The system

| Component | State | Operations | What is hard | What makes it correct |
|---|---|---|---|---|
| Strategic plan numbering (`strategic_plans`) | `priority_level` of a priority, `index` array of planned results, outcomes, activities, performance indicators | create, edit, destroy of each; callbacks renumber siblings and descendants | cascades of saves that read what the others wrote; an index stored four classes below the level it starts with | one priority per level; an index is the parent's plus a place, no gap or repetition; nothing changes places unasked |
| Strategic plan records | plans | create, as a copy or empty; destroy | a copy renumbers as it saves | a copy is numbered like its original |
| Duplicate and linked complaints (`complaints`) | group column of a complaint, counter cache of a group | create, update, destroy of a complaint; `cleanup` of groups | a counter kept by several paths and trusted; creates outside a transaction | a group in use is never dissolved; a group of one is |
| Complaint register (`complaints`) | case references, status changes, assigns | create, update, destroy of a complaint | overlapping requests; order of attribute assignment, mail, save | references unique and in order; the status history has no gap or overlap; assignees are told |
| Reminders (`app/models/reminder.rb`) | start date, type, next date | save, destroy, daily task | time zones, failing mail, rows saved while loaded | each date mailed, once |
| Internal and accreditation documents (`internal_documents`, `nhri`) | document groups with a counter, revisions | upload, edit, move, destroy | groups that must go when empty; revision numbers worked out from rows read | no two documents of a group with one revision; no empty group |
| Advisory council documents (`nhri`) | revisions | upload, destroy | the next major revision is worked out from rows read | no two versions with one revision |
| Accounts, login, sessions (`authengine`) | user, session, previous passwords | sign-up, activation, login, failure, expiry, disabling | a count incremented in a loaded object; rows found or created | three failures disable; one open session per user |
| Roles and permissions (`authengine`) | action roles | bulk update, role downgrade | a loop of separate saves | what is checked is what is permitted |
| Browser pages | filters, forms, outstanding requests | query, validate, save | answers out of order, repeated clicks | the list shown is the one asked for; one save per complaint |
| Two-factor keys (`u2f-api.js`) | the port, callbacks that wait for it, a table of callbacks by request id, the version | `sign`, `register`, opening the port, an answer | calls before the port opens; answers out of order, twice, without data; the version learnt on the way | each call is answered once, with its own answer, in a format that is understood |
| Ractive: lists and observers | models with their registrations, fragments, the runloop's batches, observers | array methods, `set`, `merge`, callbacks that call again | elements are not drawn again but shuffled, with their registrations | the page shows the list; observers know what they watch |
| Ractive: transitions | elements, transition managers, promises, decorators | `set` that shows and hides, animations that end | calls that overlap calls, batches inside batches | nothing leaves before its outros are over; every promise is kept |
| Ractive: templates | a text of tokens, a tree | `parse`, clean-up | mutual recursion, implicit closing, look-ahead | what is read is what was written |
| Ractive: computed values | kept values, who is registered with what | `set`, getters that read other models each time | a change arrives on several paths, one after the other | nothing kept is old, each observer is told once |
| Ractive: forms | data, fields, what a binding saw last | user input, `set`, observers | two-way traffic, locks, options replaced under a value | the field shows the data, the user's act is in the data |
| Projects, media, NHRI headings, notes, areas, queries, reports | rows | create, read, update, destroy | nothing beyond single saves | |

On the server the components meet in three places: complaints, performance
indicators, media appearances and projects own *reminders* and *notes*; a
project and a media appearance refer to *performance indicators*, which the
strategic plan destroys and renumbers; and every request goes through *sessions*
and *permissions*.  None of these shares state beyond foreign keys, so those
modules do not compose.  In the browser everything meets in one page, through
the models of its data: `ListView` builds on `ArrayChanges`, the array methods,
and `Templates` on `Expressions`, the mustaches in it.

## Modules

Each component has its module, an `MC` module with the values of its constants
and one `.cfg` per question.  On the server next-state actions are request
handlers with all their callbacks; in the browser they are JavaScript tasks,
which run to their end, so that a call of `set` with everything the runloop does
is one step unless something can come in between.

| Module | Models | Abstract specification | Run | Proofs |
|---|---|---|---|---|
| `StrategicPlan` | numbering of one plan | | `strategic_plan` | `StrategicPlanProofs` on `BoundedSets` |
| `DuplicationGroups` | duplicate and linked complaints | | `duplicates` | `DuplicationGroupsProofs` |
| `ComplaintRegister` | references, status history, assigns | | `register` | `ComplaintRegisterProofs` on `BoundedSets` |
| `Reminders` | reminders and the daily task | | `reminders` | `RemindersProofs` on `BoundedSets` |
| `InternalDocuments` | internal and accreditation documents | | `documents`, `documents_destroyed` | `InternalDocumentsProofs` on `BoundedSets` |
| `U2fApi` | the page's end of a talk with a security key | `OneAnswer` | `security_key` | `U2fApiProofs` |
| `ListView` on `ArrayChanges` | a list on a page, its observers | `PageShowsData` | `page_list` | `ListViewProofs` on `BoundedSets` |
| `PageTransitions` | showing and hiding with transitions | | `page_transitions` | |
| `Templates` on `Expressions` | the template parser | | `templates` | |
| `Computed` | computed properties, expressions, `list[index]` | | `computed` | |
| `Forms` | fields bound both ways | | `forms` | |

*Fairness* is stated where the code's scheduling gives it, and nowhere else.  A
web application promises nobody that a request comes, so the five modules of the
server are safety only.  `U2fApi` assumes that the browser runs the tasks that
are due (the port's timeouts, the iframe's message, the loop that empties the
queue) and that an extension answers each request by the deadline that is posted
with it; it does not assume that a user makes a call.  `PageTransitions` assumes
that a timer fires, and only for an animation that still has one.

### StrategicPlan (`MCStrategicPlan`, `StrategicPlanProofs`)

One plan.  `priority_level` is the column (0: no row).  `path[i]` is the chain of
ids above an item, which stands for the foreign keys; `index[i]` is the column.
An item's class is its depth, so the four classes are one.  `CreatePriority`,
`UpdatePriority`, `DestroyPriority`, `CreateItem`, `DestroyItem` are the five
operations; edits of descriptions change no state that is modelled.

`before_create` and `before_update` of a priority move whoever has the level
down by one, which saves that priority and so moves the next.  The cascade is
an unbroken run of occupied levels, `Run(L)`.  The row that is saved is still in
the database at its old level, so the run may reach it: it is then moved like
the rest, with the rows below it, before it is written at the new level.
`Geq`, `lower_priority_siblings`, `Decremented`, `Rebased`, `RootIncremented`
and `create_index` are the methods of `StrategicPlanIndex`.

*Bounds.*  Three priorities, four items, three levels, two classes below a
priority: the smallest plan in which a cascade of two moves happens beside a
third class of rows to rebase, and a delete has siblings before and after.
`MaxRoot` stops edits of levels, and `MinLast` deletes, once an index ran away
from its parent's; without them numbers grow and shrink for ever.  Neither is
reached while indexes follow their parents.

*Shows* (`strategic_plan`): `LevelsUnique`, `PriorityOrderKept` for every
sequence of operations; `Numbered` and `SiblingOrderKept` as long as no level
was edited (`relevelled`).  Editing a level breaks the numbering below it:
see *What TLC refutes*.

### DuplicationGroups (`MCDuplicationGroups`, `DuplicationGroupsProofs`)

`duplication_group_id` and `complaints_count` are the columns, `groups` the rows
of `duplication_groups`.  `Find` and `Update` are an update: the complaint is
loaded, then one transaction runs `dupe_refs=`.  A create assigns its duplicates
in `klass.new`, before it is saved and outside any transaction
(`complaints_controller.rb:109`), so each `complaint.update` of the loop
(`complaint.rb:48`) commits by itself.  `BuildGroup` makes the new group and reads
what the loop goes over; `MoveRef` is one turn of it; `SaveNew` is the save.
`Abandon` ends a request anywhere: a create that stops in the middle of its loop
leaves what it has moved, and the group, behind.

What the loop goes over are *objects* (`Objects`): a complaint, the complaint it was
reached from, and the group it was in when it was loaded.  Each object counts one up
in the new group and one down in the group it was loaded with, wherever its
complaint is by then, so a complaint loaded twice counts twice.  `CountsAfter` is
all of this for an update, which nobody sees the inside of.
`LinkedComplaintsGroup` is line for line the same code.

`miscounted` is history, the groups that the code *loses count of*: those counted
down for a complaint that has left already, and those that a cleanup dissolved while
a create had begun to fill them (a new group counts 0).  A loop that runs to its end
takes every complaint of a group with it, so a group that is counted down too far
ends up with none; one that stops half-way may leave a group of two that counts one,
and the next cleanup parts them.  That needs five complaints, a group of four of
which a create names two and stops after three turns; with the four of the run TLC
finds `NeverParted` to hold of miscounted groups as well.

*Bounds.*  Four complaints are two groups of two to merge and to part, three
groups let an update happen while two exist.  One thread: with a second one, a
cleanup that runs between a create's steps destroys the new group, and
`NeverParted` fails; that hazard is recorded, and no text of the repository
contradicts it.  `CountCoversMembers` and `UpdateJoins` hold there too, by
`DuplicationGroupsOverlap.cfg` (two threads, three complaints; not a run) and by
proof.  `NamesSelf` lets users name a complaint as its own duplicate.  Not told
apart: the reads of one create for its loop are one step with the creation of its
group, and two transactions that are open at once do not meet.

*Shows* (`duplicates`): the counter errs on one side only
(`CountCoversMembers`), so cleanup parts nobody (`NeverParted`), and an update
joins what it names with what was grouped (`UpdateJoins`).  `NeverParted` excuses
the complaint that a request updates; in a create, complaints of which one has
moved and the other has not yet, and stays behind if the create stops there; and
groups the code lost count of.

### ComplaintRegister (`MCComplaintRegister`)

A create or an update is two steps, what it reads and its commit, with
`request[t]` for what a thread has read, so two threads interleave.
`InitParams` is the allocation of a reference, `BuildsChange` the test whether a
submitted status is new, which compares the memo as it was *submitted*
(`complaint.rb:186`), `Stored` what becomes of it in the row (187: `'undefined'`,
which is `Undefined` here, is no memo), `Closed` the callback that ends the previous row,
`Notifies` the test before the assignee's mail.  `Now` is the clock: dates are
only compared, so it is one more than any date in sight, which keeps the model
finite without a counter.  `contended` remembers complaints whose request
overlapped with another in a way the code does not order.

*Bounds.*  Three complaints so that one can be created, destroyed and created
again between two others; two years; two threads, two statuses, two memos and `Undefined`; four
clock readings at a time are three rows and one open request.

*Shows* (`register`): references in order across the turn of the year, destroys
and rollbacks (`RefsInOrder`); histories without gap or overlap, in which each row
differs from the one before it, but that a status without a memo may be repeated by
a page that submits `'undefined'` (`StatusHistory`; see `StatusChanging` below); rows
never rewritten whatever overlaps, but for their end dates (`HistoryKept`).

### Reminders (`MCReminders`)

`now` counts ticks, `DayLen` to a UTC day; a start date is the site's midnight,
`Midnight`, and cron runs the task at `CronTick`.  `StartTask` loads what is due,
`Remind` mails one reminder and saves it from the loaded object, `RemindRaises`
is a delivery that raises.  `calculate_next` is the callback of every save.
`mailed`, `since`, `disturbed` and `dropped` are history: the mails sent, when a
user last saved a reminder, and which reminders a failure or a save under the
task's feet concerns.

*Bounds.*  Two reminders, so that one can fail before the other; one-time,
daily and every-second-day types, so that a due date comes back twice in the
three days after the first; two ticks a day, so that saves come before and
after the task.

*Shows* (`reminders`): each date is mailed (`EveryDateMailed`), once
(`MailedOnce`), except for what a failing delivery dropped or a user saved while
the task had it loaded.
A mail and the save that follows it are one step: a save that fails after its mail
went out is not modelled.  Months of different lengths are not modelled, nor a day on which cron is down;
the README of the application asks for exactly one run a day.  The run has cron at
the site's midnight or later in the UTC day; otherwise dates are missed
(*What TLC refutes*).

### InternalDocuments (`MCInternalDocuments`)

`doc` and `groups` are the two tables; a group is plain or an accreditation
group, which has a title, and `archive_doc_count` is the counter cache.  A
revision is a number: the pair of major and minor is only compared and followed
by the next minor.  `BeginUpload` and `CommitUpload` are a create, up to the
INSERT and from it; `Find` loads a document and `CommitEdit` or `CommitDestroy`
is the transaction that follows, worked out from the *loaded* row
(`request[t].row`) and the tables as they are then.  `Joins` is what
`convert_to_accreditation_required_type`, `find_or_create_by` and
`assign_to_group` choose; `Retitled` is what happens to the archive when its
primary gets an accreditation title; `Emptied` and the count in `SaveEdited` are
the two `after_save` callbacks, `Dissolves` the `after_destroy`.  A save that
raises is a `Rollback`: so is every edit that would empty an accreditation group,
which the page offers and the second callback refuses (it looks for the group
the first one destroyed).  `ConfigureTitle` and `RemoveTitle` are the
administrator's.

Which document of a group is the *primary* is asked twice when one is saved
(`named_document_callbacks.rb`): of the database, with the order turned round and
`LIMIT 1` (20), and, for each document in turn, of the list that was loaded in
ascending order, whose last it is (28).  Neither order says which of two documents
with the same revision comes first, so `primary(g)` is the set of those with the
highest revision and `Archives` has every outcome of the two answers.  Where they
differ, the document saved is moved a second time as a document of its own archive,
and the other primary stays behind.

`disturbed` has the documents and groups that a request changed although
another had changed the document since it was loaded, documents whose group
went while they were uploaded, and the two groups of an edit that moved its document
twice; `chosen` the documents whose revision a user entered, that were brought to a
group with other documents, or whose upload was overtaken.  The properties leave
these out, because the code errs on them; see the finding.

*Bounds.*  Three documents and groups: an archive of one joins an accreditation
group that has a document, and a third group is there to be created.  Two
titles, either of which may be configured or not; two revisions, one of which
users enter, so that several primaries exist.  `MaxDisturbed` is 0: requests
begin only while nothing is disturbed, so after an overlap or a tie TLC follows the
requests that are open to their end and no further; the proofs have no such bound.
`MaxDrift` lets counters go to -1
and 4.

*Shows* (`documents`): counters are right and so groups go when, and only when,
they should (`GroupsCounted`, `GroupsKept`), documents stay
findable (`NoOrphan`) and in groups of their title (`SameTitle`), and revisions
the system assigns do not repeat (`AssignedRevisionsDistinct`), through uploads,
edits, moves with and without an archive, ties, removals and rollbacks, two
requests at a time.  `documents_destroyed`, with requests one at a time: an edit of
one of two primaries counts its group down twice, and the other primary is destroyed
with the group.

### U2fApi (`OneAnswer`, `MCU2fApi`, `U2fApiProofs`)

`waitingForPort_`, `callbackMap_`, `reqCounter_`, `js_api_version` are the
library's variables; `stage` is how far `getMessagePort` has come on the kind of
browser at hand, and `draining` the loop that empties `waitingForPort_`, one turn
to a step.  `Call` is `u2f.sign` or `u2f.register`, which ask for the version
first; `responseHandler_` is an answer that arrives.  `Answer`, `AnswerAgain` and
`AnswerWithoutData` are the extension, which is not under `src/`: it may answer in
any order and more than once, may be old, missing, or, on Android, answer with
nothing that a request id could be read from.

`OneAnswer` is what a page is promised: each call is decided once and its
callback called once, with that decision.  `KeepsPromise` says that `U2fApi`
implements it, with `decided` as the refinement mapping (the extension's first
answer to the call).

*Bounds.*  Two calls: one opens the port and one comes before, while or after;
they share the version and the table of callbacks.  Requests and answers need no
bound.  *Shows* (`security_key`): `FormatUnderstood`, `OnePlace`,
`EveryCallAnswered`, `KeepsPromise`, on every kind of browser.  Calls on iOS,
where the port never registers a listener (`WrappedIosPort_`), calls with nothing
to answer them, and calls that Android answers without data are left waiting;
`EveryCallAnswered` says so.

### ListView (`ArrayChanges`, `PageShowsData`, `MCListView`, `ListViewProofs`)

`{{#each list:i}}{{i}} {{.}}{{/each}}`.  `ArrayChanges` has the arithmetic of the
array methods, `getSpliceEquivalent`, `getNewIndices` and `merge`.  In `ListView`,
`texts` and `indexes` are the registrations of the fragments' two texts with the
models of the list's places; an array method moves registrations and fragments
(`section`) instead of drawing again.  `batches` is the runloop: a callback of an
observer may call again, which makes a batch inside the batch.  `first`,
`pattern`, `mirror` are observers of `list.0`, of `list.*` and of the array's
insertions and deletions, the last called after the page is drawn.

`PageShowsData` is what a template is for: data may change while the page is at
work, and when it rests it shows the data there is.  `ShowsData` says `ListView`
implements it, with the nodes' numbers and texts as what is shown.

*Bounds.*  Lists of up to three of two items: a removal has neighbours on both
sides, and the same item twice, which `merge` and the shuffles have to tell
apart.  Two sets of observers, so that the pattern observer meets both of the
others.  Callbacks set an element (`NestedCalls`); arrays that repeat an element
are not merged (see below).  *Shows* (`page_list`): `Aligned`, `ObserversTold`,
`ArrayReplayed`, `ShowsData`.  `ObserversTold` excepts what the observer of `list.*`
knows after a merge that moves some elements and removes or adds others
(`Reshaped`): `PatternObserver.shuffle` (4324) notes the places those that moved come
from, and `merge` (2286) says of no place that it is touched, so that of
`['a', 'b']` merged into `['b']` the observer is told nothing.
`ListViewMerge.cfg` has TLC show it (`MergesTold`).

### PageTransitions (`MCPageTransitions`)

`{{#if outer}}<div fade-in-out as-d>{{#if inner}}<p fade-in-out as-d>...`.  A call of
`set` makes a batch with a `manager`; one made while it is flushed makes a
manager below it.  `element` has the intro and outro of a node, the manager that
removes it, whether its decorator is up.  Ends of animations, their promises and
handlers are steps of their own and meet other calls.

*Bounds.*  Three elements and three managers, one nested call: an inner element is
hidden by one call and its outer one by another, while a third shows it again.
Four templates: both ways everywhere, outros only, a transition that is not
registered, and `nestedTransitions` off.  *Shows* (`page_transitions`):
`LeavesAfterOutros`, `PromiseAfterAll`, and, as timers fire, `EveryCallEnds`.

### Templates and Expressions (`MCTemplates`)

`Expressions` has the readers of the expression grammar (`readReference`, member
and call chains, prefix and infix operators by level, conditionals) and what
becomes of a tree: a reference, a reference expression, or a text with the
references it reads.  `Templates` has the readers of mustaches, sections,
elements, attributes and partials, `{{else}}` and `{{elseif}}`, implicit closing,
and the clean-up of comments and white space.  The author's side is in actions
(`SayText`, `OpenElement`, ...): tokens are appended and a stack keeps what was
meant; the reader, which looks ahead and calls itself, is compared with it.

*Bounds.*  Up to six tokens of an expression or of a template, in three alphabets
(what closes what; space; attribute values): an element left open inside a
section inside an element, or two lines that a mustache stands alone on, need no
more.  *Shows* (`templates`): `TextKept`, `ReferencesKnown`, `ReadsAsWritten`,
`OnlySpaceLost`.

### Computed (`MCComputed`)

`node` has for each computed property, expression, part and proxy its value,
whether it may be old, and what it used; `deps` the registrations.  A change marks
through `deps` in their order, and an observer on the way asks for its value at
once.  `Getter` gives a getter a step at a time, as its next read may depend on
what it got.  The application's pages use all four: computed properties in every
page, `{{performance_indicators[performance_indicator.id]}}`
(`app/views/shared/_performance_indicator_select.haml:81`), `{{subarea_ids[i]}}`.

*Bounds.*  Four computed properties that read each other and other models as
values change, one expression, one part, `list[index]` on two elements, up to two
models set in a call.  *Shows* (`computed`): `ShowsValues`, `Listening`,
`ToldOnce`.

### Forms (`MCForms`)

A text, check boxes that share an array and come and go, radio buttons, a select
whose options are a list in the data: the forms of complaints have each of these
(`name='{{subarea_ids}}'`, `name='{{mandate_id}}'`, and the cascade of provinces
and districts in `complaint/agencies_select`).  `Set` and `SetTwo` are the program,
`Type`, `Tick`, `Pick`, `Select` the user, `Reaction` what observers set.  `last`
is what each binding saw last, by which a change is taken for one or ignored;
`Reset` is the browser, which selects something else when the selected option
goes.

*Bounds.*  Two check boxes, three radio buttons, three options and the prompt, two
texts: an option that stays, one that goes and one that comes; reactions that put
a choice back, fill another field, and empty the list of options.  *Shows*
(`forms`): `ShowsForm`, `UserDecides`.

## What is proved

A proof module extends the component's module, so what is proved is about the
definitions that TLC runs, for every value of the constants that satisfies the
named assumptions.

*`StrategicPlanProofs`*, from `MaxLevelAssumption`, for any number of priorities,
items, levels and classes: `LevelsAlwaysUnique` (`[]LevelsUnique`) and
`PriorityOrderAlwaysKept`.  `LevelsUnique` is not inductive without the types of
the levels, so the invariant is `LevelsInv`, both together.  The argument is about
`Run(L)`: it is *closed*, a row one level below a row of the run is in the run
(`RunClosed`), and starts at `L` if anything is there (`RunStart`).  So no moved row
lands on a row that stays, and `L` is free for the saved row (`SavedKeepsInv`).  For
a destroy, moving every lower priority up by one meets nobody as the level of the
destroyed row is left empty (`DestroyKeepsInv`).  Order follows likewise.

From `DepthAssumption`, `IdsAssumption` and `FiniteAssumption` (the ids of a column
are finitely many) as well: `TypeCorrect`, `AlwaysNumbered` and
`SiblingOrderAlwaysKept`.  `NumberedBelow` compares a row with its parent only, and
is not inductive so: when a priority moves, the first number of every row of its
branch changes at once, and each is written from its own old index.  `NumberInv`
says of *every* number of an index which row it is the number of (`IndexIsPath`), and
that the last numbers below a row or priority are 1, 2, ... (`ChildrenCounted`).
Then as many last numbers as rows are there, so no two rows have the same
(`NumbersApart`); siblings are in the order of their last numbers (`ByLast`), so
the siblings after a row that goes are those with a greater number (`LowerIs`), and
they close up (`CloseUp`); and the last sibling, which exists as a finite set that
can be compared has a last member (`LastMember` of `BoundedSets`), has the number
before the new row's (`NewNumber`).  What each operation writes is said number by
number by a lemma of its own (`RebasedBranch`, `RaisedIs`, `CreatedItemIs`,
`DestroyedPriorityIs`, `DestroyedItemIs`), from which the types follow even where
levels were edited.

*`DuplicationGroupsProofs`*, from `GroupsAssumption` and `FiniteAssumption`.  For
any number of threads, complaints and groups: `TypeCorrect`; `UpdateAlwaysJoins`,
what an update names ends in one group with what was grouped; and
`CountAlwaysCovers`.  `CountCoversMembers` is not inductive: a create that fills a
group which somebody dissolved would leave members without a row.  `IInv` adds
`Filling`: the group of every create under way is `Sound`, covered by its count or
miscounted, and the new complaint is that create's alone.  The counting is about
objects: an update's objects are at least as many as the complaints that move, and a
group that loses a complaint loses all (`UpdateCounts`); a create's turns go one by
one, and a turn that takes nobody along makes the group it counts down miscounted
(`MoveRefCovers`).  With requests one at a time (`OneAtATime`, a hypothesis; TLC
refutes the property with two threads): `AlwaysNeverParted`.  It needs that what a
request has read is still so (`Fresh`): an edit holds the group its complaint is in
now, and a create still has before it all that is left of every group it takes a
complaint from (`Whole`).

*`RemindersProofs`*, for any reminders, types and times of day.  `AlwaysMailedOnce`:
two mails of one reminder for one date could only differ in the day they were sent,
so the invariant says that a mail was sent on the day of its date; which holds as
what is loaded falls on today, and as the day does not turn while anything that was
loaded waits.  From `DayAssumption`, `IncrementsAssumption`, `BoundAssumption` and
`NullAssumption`: `TypeCorrect`, which says of every row that its next date is one of
its dates, and `EveryDateAlwaysMailed`, that no date is missed.  Neither is inductive.
`RowsInv` adds to the types when the task runs (`Clock`) and that what it has loaded
is as the rows are, unless a user saved them (`Loaded`).  `DueInv` says of each row
that its dates before the next one are settled, mailed or not after the last save,
and that the next one is still ahead: on a later day, or today with the task to come
or the reminder in its queue.  It rests on `NextIs`, what `calculate_next` gives: the
*first* of the row's dates after now, which exists by `Greatest` of `BoundedSets`
(`FirstAhead`).  `EveryDateAlwaysMailed` has the hypothesis `Midnight <= CronTick`, cron
runs the task at the site's midnight or later in the UTC day; without it TLC refutes
the property, see below.

*`U2fApiProofs`*, from `NoneAssumption`, for any number of calls: `TypeCorrect`,
`FormatAlwaysUnderstood`, `AlwaysOnePlace`, and `StepsAsPromised`, the safety half of
the refinement of `OneAnswer`.  The invariant `IInv` says where a call can be
(`Placed`: in the queue or the table, once, or answered), that each message on its
way belongs to an entry that the table had (`Mail`), what the callbacks were called
with (`Said`), and that a version that is known is not newer than what the
extension speaks (`VersionKnown`).  It is inductive because request ids are never
used again, so an answer that comes twice finds nothing.

*`ComplaintRegisterProofs`*: for any number of threads with any overlap,
`HistoryAlwaysKept`: the row a commit ends is rewritten with another end date and
nothing else; the invariant is only that rows are functions.  From
`BoundsAssumption`, `StatusAssumption` and `MemoAssumption`: `RefsAlwaysInOrder` and
`HistoryAlwaysFollows`.  Neither `RefsInOrder` nor `StatusHistory` is inductive, as
what a commit writes was decided when its request began.  `IInv` adds what an open
request has read: a create that no other overlapped is later, by reference and by
date, than every complaint there is (`CreateIsLast`); an update that no other
overlapped has compared with the status that is current (`UpdateIsCurrent`), so that a
row which repeats the one before it had its memo submitted as `Undefined`, as two
requests about one complaint make it contended (`Alone`); and a sequence number is
never above the date of a row of its complaint (`Dated`), which bounds it.  That a
greatest reference, a latest row and a next clock reading exist is the lemma
`Greatest` of `BoundedSets`: by counting, a set of naturals with a bound has a
greatest member.

*`InternalDocumentsProofs`*, from `DocsAssumption`, `NoGroupAssumption`,
`BoundsAssumption` and `ExplicitAssumption`, for any number of documents, groups,
titles and threads with any overlap: all that the run `documents` checks
(`GroupsAlwaysCounted`, `NeverOrphaned`, `AlwaysSameTitle`, `GroupsAlwaysKept`,
`RevisionsAlwaysDistinct`).  `IInv` adds to these what an open request relies on: a
document that is being uploaded has an id that is nobody else's (`UploadsApart`) and
is as the group it was given, if that is still there (`UploadsFit`); and a document
in an accreditation group is an accreditation document *even if it is disturbed*,
as no edit makes it a plain one again (`AccreditationStays`): without it an edit
could carry a loaded "plain" into a group where it does not belong.  `OrphansChosen`
is for the revisions: a document whose group went while it was uploaded has one that
was not worked out for where it is.  Each of the handlers is a lemma that says what
its step does to the tables in six terms (`GroupsStay` to `RevisionsFit`), and
`StepKeeps` concludes from these alone that the invariant is kept.  An edit is proved
for each outcome that `Archives` allows; where it moves its document twice, two
groups become disturbed and the others are as they were.  `MaxDisturbed`
is any number here, so requests that begin after an overlap or a tie are covered as
well.

*`ListViewProofs`*, from `BoundAssumption` and `DistinctAssumption`, for lists of any
length, of any items.  `SpliceReplayed`, about `ArrayChanges` alone:
whatever a splice is called with, `getNewIndices` tells the truth (an element that
goes somewhere is there afterwards, no two go to one place), and the report that the
array's observer makes of it, replayed on the old array, gives the new one.
`ArrayAlwaysReplayed`: a copy that replays the reports is the list whenever no call is
under way, until an element is set or the list merged.  `ArrayReplayed` speaks of rest
only; the invariant `ReplayInv` says two things of every state.  `Queued`: something is
pending exactly while the observer is in the queue of the batch that is flushed.
`Follows`: the copy with what is pending replayed on it (`Heard`) is never longer than
the list was when something was last noted, nor that than the list.  This is kept
where the copy is no longer equal to the list, after an element is set or a merge,
and it is what makes the copy right again when the list is set whole: that is
reported as everything noted gone and everything there inserted, and would leave the
end of a copy that were longer (`AllGoneFollows`, `OneToOneFollows`).  What else a call
does, marking, bubbling, shuffling registrations and drawing, is one lemma for each
operator: it leaves the data and the observer's record alone (`Carries`).
The hypotheses are about the page.  `Apart`: no page has the observer of `list.0`,
whose callback may call, beside the array's: such a call queues the array's observer
once more, in the batch inside, and it is called twice, the second time with nothing
to report (`ArrayObserver.dispatch` asks nothing).  `Unrepeated`: the lists that the
application merges into others hold no element twice; `merge` may give two elements
that are the same one place.  `MCListView` has TLC evaluate both for `page_list`.
That no two go to one place otherwise follows (`MergedOneToOne`) from `MergeTellsTruth`:
where `merge` says an element is, that element is.  Its loop is the recursive function
`Merging`; that there is such a function is `RecursionExists` of `BoundedSets`, and
what it has found after `n` elements holds as there would be a least `n` for which it
did not (`LeastMember`).

`ObserversAlwaysTold`: whatever is called, by the time the call is over the observer of
`list.0` has been told its value and that of `list.*` every element, but for the
merges that `ObserversTold` excepts.  That is about rest; the invariant `TellInv` says what they know in the course of a call.
`FirstKnows`: the observer of `list.0` is dirty and about to be told the value there is,
or has been told it.  `Knows`: for each key there is, the value is among those the
pattern observer is about to tell, or, where it will tell only in parts, among those it
counts as told, and those it has told (`ToldOld`).  `Waiting`: who is dirty is in the
queue of the batch that is flushed or of the one around it, where a callback set
another element, and is in both only if what it tells can be told in parts
(`PatternIn`): a whole told twice would forget what it told in between.  That each call
speaks of enough is `TellsAll`, for each kind of call by itself: `SpliceTellsAll` from
what `getNewIndices` works out, `MergeTellsAll` from `MergeTellsTruth`, `ValueTells`,
`ChildTells`.  Its hypothesis is that the callback of the observer of `list.0` does not
shift the list: the observer is dirty while it runs, does not look again, and takes
what has come to be in the place for what it told (4186).  With
`NestedCalls = {"shift"}` TLC finds a trace of that.
The calls of the model add one item at most.  A splice that adds two from beyond the
end counts as touched only from where it was asked to start
(`getNewIndices`, 3391), and tells of fewer than it adds; `SpliceTellsAll` says so.

Only model-checked: `EveryCallAnswered` of `U2fApi`, `Aligned` and `ShowsData` of
`ListView` (drawing is folds, about which induction would be needed) and `Forms`.  Out of the
provers' reach: liveness (`EveryCallAnswered`, `EveryCallEnds` and the liveness
half of `KeepsPromise`), and everything about `Expressions`, `Templates`, `Computed`
and `PageTransitions`, which are written with recursive operators.

## Findings

`documents_destroyed`: two documents of an accreditation group have the same
revision, which users enter.  One is given another title.  The database says that it
is the primary (`named_document_callbacks.rb:20`), the list that is loaded then ends
with the other (28), so the archive that is moved is the document itself, a second
time, and not the other one.  The old group is counted down twice, to 0, `empty?` (15)
reads the counter, and the group is destroyed with the document that stayed; the
comment two lines above says "destroy previous document group if it was empty".  Two
edits of one document that overlap count its group down twice in the same way.

### What TLC refutes

These statements of the repository fail in the models, by the configurations
named, which are kept to reproduce the traces.  They are not runs.

| Statement | Configuration | What happens |
|---|---|---|
| `IndexFollowsParent` | `StrategicPlanRelevel.cfg` | a priority's level is edited (`strategic_priority.rb:17`) and the indexes stored below it stay: level 1, planned result "1.1", level 2, still "1.1" |
| `NobodyLeftAlone` | `DuplicationGroupsDrift.cfg` | a complaint reached through two complaints is counted twice (`complaint.rb:48`), so a group of one survives; `complaint_spec.rb:358` "should dissolve existing group and add to new group" |
| `NewAssigneeNotified` | `ComplaintRegisterNotify.cfg` | the first assignee that an update sets gets no mail: `assigns.size > 1` does not see the row being built (`complaint.rb:103`); the comment above says "when complaint is updated with a new assign" |
| `StatusChanging` | `ComplaintRegisterRepeat.cfg` | an update submits the status there is with memo `'undefined'`, which is compared with no memo as it stands (`complaint.rb:186`) and stored as no memo (187): the row repeats the one before it; the comment at 172 says "only create a status_change object if this is a new complaint or if the status is changing" |
| `RefsUnique` | `ComplaintRegisterOverlap.cfg` | two creates that overlap read the same highest reference (`case_reference.rb:45`); migration 20191030215908 had a unique index, and it went with its column |
| `AllDueMailed` | `RemindersRaise.cfg` | one delivery that raises ends the loop (`reminder.rb:116`), and `due_today` never finds the reminders behind it again; the application's README says the task is "to send any reminders that are due on that day" |
| `EveryDateMailed` | `RemindersZone.cfg` | where the site's midnight comes after cron's hour in the UTC day (a site west of Greenwich), a reminder saved between the two for that midnight is due on a day whose task has run, and `due_today` (`reminder.rb:8`) never finds it; the same sentence of the README |
| `RemovedLeavePage` | `ListViewNested.cfg` | an element removed by a callback while another removal is being told stays on the page: two rearrangements are composed by places (`ractive:14472`) that may be of the wrong one |

### Inputs that are left out because the code errs on them

Reading Ractive for the models showed more, which the models avoid by their
inputs.  Lines are of `ractive-1.0.0-build-64.js`.

* *Lists*: `merge` of arrays that repeat an element takes one place twice (2316); a
  pattern observer misses the new elements of a merge that changes the length; an
  array observer inside a nested batch may be told nothing, or the same twice; an
  observer that sets its own keypath in its callback is told an old value next.
* *Computed values*: an observer reached on the first of several paths may be told a
  value made from a part that has not heard yet (4194-4208); it knows the right
  one in the end.  A getter that reads one model twice registers twice; a
  reference expression that goes unregisters the proxy and not what stood between
  (9483).
* *Transitions*: an element rendered and hidden in one call leaves the promise
  pending when its transition goes both ways (1749): `Crossing` is FALSE.  The
  fields `duration` and `timing` of a previous transition are swapped (15174).
* *Templates*: flags of the clean-up leak from one item to the next and may join two
  words (7655 on); `{{../a()}}` raises (5983 on); a minus before a minus is printed as
  a decrement (6297, 6417): `Signs` is FALSE; `a - b + c` is read as `a - (b + c)`,
  though printed as written; a stray `{{else}}` becomes a reference.
* *Forms*: an observer that corrects the text a user typed, in its own callback,
  leaves the typed text on the page as the attribute is locked (11499-11505, 9779);
  an observer that pushes a select back makes the next choice of the same option
  ignored (11496); a list of check boxes replaced in place keeps old ticks (9799);
  leaving a text field turns null into the empty text (11830); a select value that
  is not among the options is replaced by the first that can be chosen (14846,
  12235).

## Plan

What is left, in the order of what it would add:

1. *Accounts*: sign-up, activation, login failures, expiry and disabling with
   overlapping logins, refining an abstract account life cycle; sessions below.
2. *Permissions*: the bulk update as a loop of saves that can stop, against the
   table of check boxes it is meant to install.
3. *Browser*: the complaints page, requests and answers out of order, composed
   with the register.
4. *Strategic plan*: copying a plan, and overlapping saves.
5. *Ractive*: lists within lists, components and their mappings, events.

## Not modelled

Queries, reports, Word documents and pages (no state), file storage and
attachments, plain records whose every operation is one save (projects, media,
headings, monitors, notes, areas, offices), site configuration, translations and
deployment.  Of `u2f-api.js`, what goes into a request; `mock_yubikey.js`, a key
for tests, is arithmetic on curves.

Of Ractive: components, links, events, adaptors, animation, CSS and rendering to
strings.  Of its parser: spread arguments and the short form of object literals,
event directives and anchors, `script` and `style`, changes of delimiters, escapes
in strings, tags in attributes and conditional attributes.  Of lists, `splice` with
a negative number to delete.  Of transitions, an intro and an outro that are two
objects on one element.  Of forms: numbers, files, multiple selects, single check
boxes, editable content, delays and a form's reset.  `components` in `PROJECT.json`
has the list with reasons.

The type invariants `TypeOK` of modules whose run does not list one hold too; they
only say that variables have their types.
