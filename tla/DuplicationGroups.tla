-------------------------- MODULE DuplicationGroups --------------------------
(***************************************************************************)
(* Complaints recorded as duplicates of one another share a group.  A      *)
(* group row keeps a count of its complaints (an ActiveRecord counter      *)
(* cache) and `cleanup` trusts that count when it dissolves the groups     *)
(* that no longer link anything.                                           *)
(*                                                                         *)
(* A save of a complaint names its duplicates (`dupe_refs=`): a new group  *)
(* is created and the complaints named, the complaints grouped with them   *)
(* and the saved complaint itself move into it.  LinkedComplaintsGroup and *)
(* `link_refs=` are the same code under other names, so this module stands *)
(* for both.                                                               *)
(*                                                                         *)
(* An update is one transaction, after the complaint was loaded.  A create *)
(* assigns its duplicates before it is saved, outside any transaction: the *)
(* new group, with what is read for the loop over the complaints that      *)
(* move, each turn of that loop, and the save are steps of their own, and  *)
(* the create may stop after any of them.  A transaction is one step: what *)
(* two of them do to each other while both are open is not modelled.       *)
(***************************************************************************)
EXTENDS Integers, FiniteSets

CONSTANTS
    Complaints, \* ids of complaints
    Groups,     \* ids of groups; a bound: an id is reused once nothing holds it
    Threads,    \* server threads handling requests
    NamesSelf,  \* whether users also name a complaint as its own duplicate
    NoGroup     \* a null duplication_group_id

ASSUME GroupsAssumption == NoGroup \notin Groups
ASSUME FiniteAssumption == IsFiniteSet(Complaints)

VARIABLES
    saved,                \* complaints with a row
    duplication_group_id, \* column of a complaint's row, NoGroup when none
    groups,               \* groups with a row
    complaints_count,     \* counter column of a group's row
    request,              \* what each thread is in the middle of
    miscounted            \* history: groups that the code lost count of

vars == <<saved, duplication_group_id, groups, complaints_count, request, miscounted>>

Idle == [op |-> "idle"]
Edits == [op : {"edit"}, complaint : Complaints, group : Groups \cup {NoGroup}]

\* A loaded complaint: the one it was reached from, and the group it was in.
Objects == [complaint : Complaints, from : Complaints, group : Groups \cup {NoGroup}]
Builds == [op : {"build"}, complaint : Complaints, group : Groups, todo : SUBSET Objects]

Open(op) == {t \in Threads : request[t].op = op}

-----------------------------------------------------------------------------
members(g) == {c \in saved : duplication_group_id[c] = g}

SameGroup(c, d) ==
    /\ duplication_group_id[c] # NoGroup
    /\ duplication_group_id[c] = duplication_group_id[d]

\* What the creates under way have loaded.
InHand == UNION {request[t].todo : t \in Open("build")}

\* A group id that DuplicationGroup.create can hand out.
FreeGroups ==
    Groups \ (groups \cup {duplication_group_id[c] : c \in saved}
                     \cup {request[t].group : t \in Open("edit") \cup Open("build")}
                     \cup {o.group : o \in InHand})

\* An id that no row, request or loaded complaint has.
Unused(c) ==
    /\ c \notin saved
    /\ \A t \in Threads : request[t] # Idle => request[t].complaint # c
    /\ \A o \in InHand : o.complaint # c

\* A thread is free to serve a request.
Serving == \E t \in Threads : request[t] = Idle

\* The group that is counted down for a complaint that is not in it any more, when
\* that complaint was loaded in group h.
CountedTwice(c, h) ==
    IF c \in saved /\ duplication_group_id[c] = h THEN {} ELSE {h} \cap groups

\* Mutant of Loaded: the complaints named, without those grouped with them.
Loaded_RefsOnly(refs) == {<<r, r>> : r \in refs}

\* The objects dupe_refs= updates: each complaint named and, loaded a second
\* time for each complaint named, every complaint grouped with that one.  An
\* object is the complaint and the complaint it was reached from.
Loaded(refs) == {u \in saved \X refs : u[1] = u[2] \/ SameGroup(u[1], u[2])}

Moved(refs) == {u[1] : u \in Loaded(refs)}

\* The same objects with the groups they are loaded with.
LoadedObjects(refs) ==
    {[complaint |-> u[1], from |-> u[2], group |-> duplication_group_id[u[1]]] :
        u \in Loaded(refs)}

\* Mutant of CountsAfter: the complaints brought along move past the counter of the
\* new group.
CountsAfter_RefsOnly(refs, g) ==
    [h \in Groups |->
        IF h \notin groups \cup {g} THEN 0
        ELSE complaints_count[h]
             + (IF h = g THEN Cardinality({u \in Loaded(refs) : u[1] = u[2]}) ELSE 0)
             - Cardinality({u \in Loaded(refs) : duplication_group_id[u[1]] = h})]

\* What those updates do to the counters, each object going by the group it was
\* loaded with: one up for the new group g, one down for the old one, if its
\* row is there.
CountsAfter(refs, g) ==
    [h \in Groups |->
        IF h \notin groups \cup {g} THEN 0
        ELSE complaints_count[h]
             + (IF h = g THEN Cardinality(Loaded(refs)) ELSE 0)
             - Cardinality({u \in Loaded(refs) : duplication_group_id[u[1]] = h})]

\* DuplicationGroup.cleanup: the rows it destroys.  It first clears the column
\* of the complaints in groups that count exactly one.
Dissolved(rows, count) == {g \in rows : count[g] <= 1}

-----------------------------------------------------------------------------
Init ==
    /\ saved = {}
    /\ duplication_group_id = [c \in Complaints |-> NoGroup]
    /\ groups = {}
    /\ complaints_count = [g \in Groups |-> 0]
    /\ request = [t \in Threads |-> Idle]
    /\ miscounted = {}

\* Complaint.create with no `duplicates` among its parameters (an import).
Create(c) ==
    /\ Serving
    /\ Unused(c)
    /\ saved' = saved \cup {c}
    /\ UNCHANGED <<duplication_group_id, groups, complaints_count, request, miscounted>>

\* ComplaintsController#create, klass.new: the complaints named are found, the new
\* group is created and what is grouped with those named is loaded.
BuildGroup(t, c, refs, g) ==
    /\ request[t] = Idle
    /\ Unused(c)
    /\ refs \subseteq saved
    /\ g \in FreeGroups
    /\ groups' = groups \cup {g}
    /\ complaints_count' = [complaints_count EXCEPT ![g] = 0]
    /\ request' = [request EXCEPT ![t] =
                     [op |-> "build", complaint |-> c, group |-> g,
                      todo |-> LoadedObjects(refs)]]
    /\ miscounted' = miscounted \ {g}
    /\ UNCHANGED <<saved, duplication_group_id>>

\* Still in klass.new, one turn of the loop: object o is updated, which commits.  Its
\* complaint moves, if it was not destroyed, and the counters go by the group o was
\* loaded with, wherever the complaint is now.  Those named come first.
MoveRef(t, o) ==
    /\ request[t].op = "build"
    /\ o \in request[t].todo
    /\ o.complaint = o.from \/ \A u \in request[t].todo : u.complaint # u.from
    /\ LET g == request[t].group
       IN  /\ duplication_group_id' = [c \in Complaints |->
                 IF c = o.complaint /\ c \in saved THEN g ELSE duplication_group_id[c]]
           /\ complaints_count' = [h \in Groups |->
                 IF h \notin groups THEN 0
                 ELSE complaints_count[h] + (IF h = g THEN 1 ELSE 0)
                                          - (IF h = o.group THEN 1 ELSE 0)]
    /\ miscounted' = miscounted \cup CountedTwice(o.complaint, o.group)
    /\ request' = [request EXCEPT ![t].todo = @ \ {o}]
    /\ UNCHANGED <<saved, groups>>

\* The new complaint is saved with the group it was given.
SaveNew(t) ==
    /\ request[t].op = "build"
    /\ request[t].todo = {}
    /\ LET c == request[t].complaint
           g == request[t].group
       IN  /\ saved' = saved \cup {c}
           /\ duplication_group_id' = [duplication_group_id EXCEPT ![c] = g]
           /\ complaints_count' = [h \in Groups |->
                 complaints_count[h] + (IF h = g /\ g \in groups THEN 1 ELSE 0)]
    /\ request' = [request EXCEPT ![t] = Idle]
    /\ UNCHANGED <<groups, miscounted>>

\* A request ends here: a create fails, perhaps in the middle of its loop, and what it
\* committed stays; or an update names no duplicates, or is rolled back.
Abandon(t) ==
    /\ request[t] # Idle
    /\ request' = [request EXCEPT ![t] = Idle]
    /\ UNCHANGED <<saved, duplication_group_id, groups, complaints_count, miscounted>>

\* ComplaintsController#update, Complaint.find
Find(t, c) ==
    /\ request[t] = Idle
    /\ c \in saved
    /\ request' = [request EXCEPT ![t] =
                     [op |-> "edit", complaint |-> c, group |-> duplication_group_id[c]]]
    /\ UNCHANGED <<saved, duplication_group_id, groups, complaints_count, miscounted>>

\* complaint.update(duplicates: ...): dupe_refs= of a saved complaint.  The
\* complaint goes last, leaving the group it was found in, and cleanup runs.
Update(t, refs, g) ==
    /\ request[t].op = "edit"
    /\ refs \subseteq saved
    /\ NamesSelf \/ request[t].complaint \notin refs
    /\ g \in FreeGroups
    /\ LET c      == request[t].complaint
           was    == request[t].group
           column == [d \in Complaints |->
                        IF d \in Moved(refs) \cup {c} THEN g ELSE duplication_group_id[d]]
           count  == [h \in Groups |->
                        CountsAfter(refs, g)[h]
                        + (IF h = g THEN 1 ELSE 0)
                        - (IF h = was /\ h \in groups THEN 1 ELSE 0)]
           gone   == Dissolved(groups \cup {g}, count)
       IN  /\ duplication_group_id' = [d \in Complaints |->
                 IF column[d] \in gone /\ count[column[d]] = 1 THEN NoGroup ELSE column[d]]
           /\ groups' = (groups \cup {g}) \ gone
           /\ complaints_count' = [h \in Groups |-> IF h \in gone THEN 0 ELSE count[h]]
           /\ miscounted' = (miscounted \ {g}) \cup CountedTwice(c, was)
                               \cup (gone \cap {request[u].group : u \in Open("build")})
    /\ request' = [request EXCEPT ![t] = Idle]
    /\ UNCHANGED saved

\* complaint.destroy: the counter goes down, nothing is cleaned up.
Destroy(c) ==
    /\ Serving
    /\ c \in saved
    /\ \A t \in Threads : request[t] # Idle => request[t].complaint # c
    /\ saved' = saved \ {c}
    /\ duplication_group_id' = [duplication_group_id EXCEPT ![c] = NoGroup]
    /\ complaints_count' = [h \in Groups |->
          complaints_count[h]
          - (IF h = duplication_group_id[c] /\ h \in groups THEN 1 ELSE 0)]
    /\ UNCHANGED <<groups, request, miscounted>>

Next ==
    \/ \E c \in Complaints : Create(c) \/ Destroy(c)
    \/ \E t \in Threads, c \in Complaints, refs \in SUBSET Complaints, g \in Groups :
          BuildGroup(t, c, refs, g)
    \/ \E t \in Threads : \/ \E o \in Objects : MoveRef(t, o)
                          \/ SaveNew(t) \/ Abandon(t)
    \/ \E t \in Threads, c \in Complaints : Find(t, c)
    \/ \E t \in Threads, refs \in SUBSET Complaints, g \in Groups : Update(t, refs, g)

Spec == Init /\ [][Next]_vars

-----------------------------------------------------------------------------
TypeOK ==
    /\ saved \subseteq Complaints
    /\ duplication_group_id \in [Complaints -> Groups \cup {NoGroup}]
    /\ groups \subseteq Groups
    /\ complaints_count \in [Groups -> Int]
    /\ request \in [Threads -> {Idle} \cup Edits \cup Builds]
    /\ \A c \in Complaints \ saved : duplication_group_id[c] = NoGroup
    /\ \A g \in Groups \ groups : complaints_count[g] = 0
    /\ miscounted \subseteq Groups

\* A counter never falls short of the complaints in the group, however often saving a
\* complaint counts the same complaint again: so a cleanup that trusts the counter
\* dissolves no group that links complaints, and every complaint's group has its
\* row.  The code loses count of a group (`miscounted`) in two ways only: it counts it
\* down for a complaint that has already left it, which empties the group in the end
\* unless the create stops in its loop; or it dissolves a group that a create has
\* begun to fill.
CountCoversMembers ==
    \A g \in Groups \ miscounted :
        members(g) # {} => g \in groups /\ complaints_count[g] >= Cardinality(members(g))

\* One request at a time, no request parts two complaints that stay, unless one of
\* them is the complaint that the request updates.  A create that has moved one of
\* them has the other still before it.  The code parts complaints of a group that it
\* lost count of.
NeverParted ==
    [][\A c, d \in saved \cap saved' :
          (c # d /\ SameGroup(c, d) /\ ~SameGroup(c, d)')
              => \/ \E t \in Open("edit") : /\ request'[t] = Idle
                                            /\ request[t].complaint \in {c, d}
                 \/ \E t \in Open("build") :
                       \E o \in request'[t].todo :
                          o.complaint \in {c, d} /\ o.group = duplication_group_id[c]
                 \/ duplication_group_id[c] \in miscounted']_vars

\* An update joins the complaint, the complaints it names and all that were
\* grouped with those.
UpdateJoins ==
    [][\A t \in Threads, refs \in SUBSET Complaints :
          (\E g \in Groups : Update(t, refs, g)) =>
              \A c \in refs, d \in saved :
                  d \in {c, request[t].complaint} \/ SameGroup(c, d) => SameGroup(c, d)']_vars

\* complaint_spec.rb "should dissolve existing group and add to new group": when
\* a complaint is moved away from its only duplicate, that one is left ungrouped.
NobodyLeftAlone ==
    [][\A t \in Threads :
          (request[t].op = "edit" /\ request'[t] = Idle) =>
              \A c \in saved : SameGroup(request[t].complaint, c) /\ c # request[t].complaint
                  => \/ duplication_group_id'[c] = NoGroup
                     \/ \E d \in saved \ {c} : SameGroup(c, d)']_vars
=============================================================================
