----------------------- MODULE DuplicationGroupsProofs -----------------------
(***************************************************************************)
(* What holds of the groups of duplicates for any number of complaints and *)
(* of groups: what an update joins, and how far the counter may be         *)
(* trusted, for any number of threads; and that it parts nobody, for       *)
(* requests that come one at a time.                                       *)
(***************************************************************************)
EXTENDS DuplicationGroups, FiniteSetTheorems, Functions, TLAPS

\* A complaint stays while a request has it loaded.
EditsSaved == \A t \in Threads : request[t].op = "edit" => request[t].complaint \in saved
Typed == TypeOK /\ EditsSaved

\* The counter of group g counts its complaints at least.
Covers(g) == g \in groups /\ complaints_count[g] >= Cardinality(members(g))

\* It does, unless the code lost count of g.
Sound(g) == g \in miscounted \/ Covers(g)

\* The group that a create fills is sound, and the complaint is its own.
Filling ==
    \A t \in Threads : request[t].op = "build" =>
        /\ request[t].complaint \notin saved
        /\ Sound(request[t].group)
        /\ \A u \in Threads : u # t /\ request[u].op = "build" =>
              request[u].complaint # request[t].complaint

IInv == Typed /\ CountCoversMembers /\ Filling

\* What a create has before it: of each group that it takes a complaint from, all
\* that are left.
Whole(t) ==
    \A o \in request[t].todo :
        /\ o.complaint \in saved
        /\ o.group # request[t].group
        /\ duplication_group_id[o.complaint] \in {o.group, request[t].group}
        /\ o.group # NoGroup => \A c \in members(o.group) :
              \E u \in request[t].todo : u.complaint = c /\ u.group = o.group

\* What the request that runs knows is still so.
Fresh ==
    \A t \in Threads :
        /\ request[t].op = "edit" =>
             request[t].group = duplication_group_id[request[t].complaint]
        /\ request[t].op = "build" => Whole(t)

\* Requests are served one at a time.
OneAtATime == \A t, u \in Threads : t = u
-----------------------------------------------------------------------------
LEMMA RequestTyped ==
    ASSUME TypeOK, NEW t \in Threads
    PROVE  \/ request[t] = Idle /\ request[t].op = "idle"
           \/ request[t] # Idle /\ request[t].op = "edit" /\ request[t] \in Edits
           \/ request[t] # Idle /\ request[t].op = "build" /\ request[t] \in Builds
  <1>1. request[t] \in {Idle} \cup Edits \cup Builds
    BY DEF TypeOK
  <1>2. CASE request[t] = Idle
    BY <1>2 DEF Idle
  <1>3. CASE request[t] \in Edits
    BY <1>3 DEF Idle, Edits
  <1>4. CASE request[t] \in Builds
    BY <1>4 DEF Idle, Builds
  <1>5. QED
    BY <1>1, <1>2, <1>3, <1>4

\* The complaints in a group are finitely many.
LEMMA MembersFinite ==
    ASSUME TypeOK, NEW g
    PROVE  /\ IsFiniteSet(saved) /\ IsFiniteSet(members(g))
           /\ Cardinality(members(g)) \in Nat
           /\ Cardinality(members(g)) = 0 <=> members(g) = {}
  <1>1. IsFiniteSet(saved)
    BY FiniteAssumption, FS_Subset DEF TypeOK
  <1>2. members(g) \subseteq saved
    BY DEF members
  <1>3. IsFiniteSet(members(g))
    BY <1>1, <1>2, FS_Subset
  <1>4. QED
    BY <1>1, <1>3, FS_CardinalityType, FS_EmptySet

\* The loaded objects whose old group is h.
LoadedFrom(refs, h) == {u \in Loaded(refs) : duplication_group_id[u[1]] = h}

\* The complaints an update moves are those it names and, whole, the groups of
\* these; it loads each of them at least once.
LEMMA MovesWhole ==
    ASSUME TypeOK, NEW refs \in SUBSET saved
    PROVE  /\ Moved(refs) \subseteq saved /\ refs \subseteq Moved(refs)
           /\ IsFiniteSet(Moved(refs))
           /\ Cardinality(Loaded(refs)) \in Nat
           /\ Cardinality(Moved(refs)) \in Nat
           /\ Cardinality(Moved(refs)) <= Cardinality(Loaded(refs))
           /\ refs # {} => Cardinality(Loaded(refs)) >= 1
           /\ \A c, d \in saved : SameGroup(c, d) /\ c \in Moved(refs) => d \in Moved(refs)
           /\ \A h : /\ Cardinality(LoadedFrom(refs, h)) \in Nat
                     /\ members(h) \cap Moved(refs) = {} =>
                          Cardinality(LoadedFrom(refs, h)) = 0
           /\ \A h \in Groups :
                members(h) \cap Moved(refs) # {} => members(h) \subseteq Moved(refs)
  <1>1. \A u \in Loaded(refs) : u[1] \in saved /\ u[2] \in refs
    BY DEF Loaded
  <1>2. Moved(refs) \subseteq saved
    BY <1>1 DEF Moved
  <1>3. \A c \in refs : <<c, c>> \in Loaded(refs)
    BY DEF Loaded
  <1>4. refs \subseteq Moved(refs)
    <2>1. ASSUME NEW c \in refs
          PROVE  c \in Moved(refs)
      <3>1. <<c, c>> \in Loaded(refs) /\ <<c, c>>[1] = c
        BY <1>3
      <3>2. QED
        BY <3>1 DEF Moved
    <2>2. QED
      BY <2>1
  <1>5. IsFiniteSet(Loaded(refs))
    <2>1. IsFiniteSet(saved) /\ IsFiniteSet(refs)
      BY MembersFinite, FS_Subset
    <2>2. IsFiniteSet(saved \X refs)
      BY <2>1, FS_Product
    <2>3. Loaded(refs) \subseteq saved \X refs
      BY DEF Loaded
    <2>4. QED
      BY <2>2, <2>3, FS_Subset
  <1>6. /\ IsFiniteSet(Moved(refs))
        /\ Cardinality(Moved(refs)) <= Cardinality(Loaded(refs))
    <2> DEFINE f == [u \in Loaded(refs) |-> u[1]]
    <2>1. f \in Surjection(Loaded(refs), Moved(refs))
      <3>1. f \in [Loaded(refs) -> Moved(refs)]
        BY DEF Moved
      <3>2. \A c \in Moved(refs) : \E u \in Loaded(refs) : f[u] = c
        BY DEF Moved
      <3>3. QED
        BY <3>1, <3>2 DEF Surjection
    <2>2. QED
      BY <1>5, <2>1, FS_Surjection
  <1>7. Cardinality(Loaded(refs)) \in Nat /\ Cardinality(Moved(refs)) \in Nat
    BY <1>5, <1>6, FS_CardinalityType
  <1>8. refs # {} => Cardinality(Loaded(refs)) >= 1
    <2>1. ASSUME refs # {}
          PROVE  Cardinality(Loaded(refs)) # 0
      <3>1. Loaded(refs) # {}
        BY <1>3, <2>1
      <3>2. QED
        BY <1>5, <3>1, FS_EmptySet
    <2>2. QED
      BY <1>7, <2>1
  <1>9. ASSUME NEW c \in saved, NEW d \in saved, SameGroup(c, d), c \in Moved(refs)
        PROVE  d \in Moved(refs)
    <2>1. PICK u \in Loaded(refs) : u[1] = c
      BY <1>9 DEF Moved
    <2>2. u[2] \in refs /\ (c = u[2] \/ SameGroup(c, u[2]))
      BY <2>1 DEF Loaded
    <2>3. SameGroup(d, u[2])
      BY <1>9, <2>2 DEF SameGroup
    <2>4. <<d, u[2]>> \in Loaded(refs) /\ <<d, u[2]>>[1] = d
      BY <2>2, <2>3 DEF Loaded
    <2>5. QED
      BY <2>4 DEF Moved
  <1>10. ASSUME NEW h
         PROVE  /\ Cardinality(LoadedFrom(refs, h)) \in Nat
                /\ members(h) \cap Moved(refs) = {} =>
                     Cardinality(LoadedFrom(refs, h)) = 0
    <2>1. IsFiniteSet(LoadedFrom(refs, h))
      <3>1. LoadedFrom(refs, h) \subseteq Loaded(refs)
        BY DEF LoadedFrom
      <3>2. QED
        BY <1>5, <3>1, FS_Subset
    <2>2. ASSUME members(h) \cap Moved(refs) = {}
          PROVE  LoadedFrom(refs, h) = {}
      <3>1. \A u \in LoadedFrom(refs, h) : u[1] \in members(h) \cap Moved(refs)
        BY <1>1 DEF LoadedFrom, members, Moved
      <3>2. QED
        BY <2>2, <3>1
    <2>3. QED
      BY <2>1, <2>2, FS_CardinalityType, FS_EmptySet
  <1>11. ASSUME NEW h \in Groups, members(h) \cap Moved(refs) # {}
         PROVE  members(h) \subseteq Moved(refs)
    <2>1. PICK c : c \in members(h) /\ c \in Moved(refs)
      BY <1>11
    <2>2. \A d \in members(h) : SameGroup(c, d) /\ d \in saved /\ c \in saved
      BY <2>1, GroupsAssumption DEF members, SameGroup
    <2>3. QED
      BY <1>9, <2>1, <2>2
  <1>12. QED
    BY <1>2, <1>4, <1>6, <1>7, <1>8, <1>9, <1>10, <1>11
-----------------------------------------------------------------------------
\* Types, for any number of threads.

\* What the updates of the complaints loaded do to the counters.
LEMMA CountsTyped ==
    ASSUME TypeOK, NEW refs \in SUBSET saved, NEW g \in Groups
    PROVE  \A h \in Groups :
             /\ CountsAfter(refs, g)[h] \in Int
             /\ CountsAfter(refs, g)[h] =
                  IF h \notin groups \cup {g} THEN 0
                  ELSE complaints_count[h]
                       + (IF h = g THEN Cardinality(Loaded(refs)) ELSE 0)
                       - Cardinality(LoadedFrom(refs, h))
  <1> SUFFICES ASSUME NEW h \in Groups
               PROVE  /\ CountsAfter(refs, g)[h] \in Int
                      /\ CountsAfter(refs, g)[h] =
                           IF h \notin groups \cup {g} THEN 0
                           ELSE complaints_count[h]
                                + (IF h = g THEN Cardinality(Loaded(refs)) ELSE 0)
                                - Cardinality(LoadedFrom(refs, h))
    OBVIOUS
  <1>1. CountsAfter(refs, g)[h] =
          IF h \notin groups \cup {g} THEN 0
          ELSE complaints_count[h]
               + (IF h = g THEN Cardinality(Loaded(refs)) ELSE 0)
               - Cardinality(LoadedFrom(refs, h))
    BY DEF CountsAfter, LoadedFrom
  <1>2. /\ complaints_count[h] \in Int
        /\ Cardinality(Loaded(refs)) \in Nat
        /\ Cardinality(LoadedFrom(refs, h)) \in Nat
    BY MovesWhole DEF TypeOK
  <1>3. QED
    BY <1>1, <1>2

LEMMA InitTyped == Init => Typed
  BY DEF Init, Typed, TypeOK, EditsSaved, Idle

LEMMA CreateTyped ==
    ASSUME Typed, NEW c \in Complaints, Create(c)
    PROVE  Typed'
  BY DEF Typed, TypeOK, EditsSaved, Create

LEMMA DestroyTyped ==
    ASSUME Typed, NEW c \in Complaints, Destroy(c)
    PROVE  Typed'
  <1>1. EditsSaved'
    <2>1. \A t \in Threads : request[t].op = "edit" => request[t] # Idle
      BY DEF Idle
    <2>2. QED
      BY <2>1 DEF Typed, EditsSaved, Destroy
  <1>2. TypeOK'
    <2>1. complaints_count' \in [Groups -> Int]
      BY DEF Typed, TypeOK, Destroy
    <2>2. duplication_group_id' \in [Complaints -> Groups \cup {NoGroup}]
      BY DEF Typed, TypeOK, Destroy
    <2>3. \A d \in Complaints \ saved' : duplication_group_id'[d] = NoGroup
      BY DEF Typed, TypeOK, Destroy
    <2>4. \A g \in Groups \ groups' : complaints_count'[g] = 0
      BY DEF Typed, TypeOK, Destroy
    <2>5. /\ saved' \subseteq Complaints /\ groups' \subseteq Groups
          /\ request' \in [Threads -> {Idle} \cup Edits \cup Builds]
          /\ miscounted' \subseteq Groups
      BY DEF Typed, TypeOK, Destroy
    <2>6. QED
      BY <2>1, <2>2, <2>3, <2>4, <2>5 DEF TypeOK
  <1>3. QED
    BY <1>1, <1>2 DEF Typed

\* A request begins or ends, with what it knows.
LEMMA RequestStepTyped ==
    ASSUME Typed, NEW t \in Threads, NEW r \in {Idle} \cup Edits \cup Builds,
           request' = [request EXCEPT ![t] = r],
           r.op = "edit" => r.complaint \in saved,
           saved \subseteq saved'
    PROVE  /\ EditsSaved'
           /\ request' \in [Threads -> {Idle} \cup Edits \cup Builds]
  BY DEF Typed, TypeOK, EditsSaved

LEMMA BuildGroupTyped ==
    ASSUME Typed, NEW t \in Threads, NEW c \in Complaints, NEW refs \in SUBSET Complaints,
           NEW g \in Groups, BuildGroup(t, c, refs, g)
    PROVE  Typed'
  <1> DEFINE r == [op |-> "build", complaint |-> c, group |-> g, todo |-> LoadedObjects(refs)]
  <1>0. LoadedObjects(refs) \subseteq Objects
    BY DEF LoadedObjects, Loaded, Objects, Typed, TypeOK
  <1>1. r \in Builds /\ r.op # "edit" /\ request' = [request EXCEPT ![t] = r]
    BY <1>0 DEF Builds, BuildGroup
  <1> HIDE DEF r
  <1>2. saved' = saved /\ duplication_group_id' = duplication_group_id
    BY DEF BuildGroup
  <1>3. EditsSaved' /\ request' \in [Threads -> {Idle} \cup Edits \cup Builds]
    BY <1>1, <1>2, RequestStepTyped
  <1>4. /\ groups' = groups \cup {g}
        /\ complaints_count' = [complaints_count EXCEPT ![g] = 0]
        /\ miscounted' = miscounted \ {g}
    BY DEF BuildGroup
  <1>5. QED
    BY <1>2, <1>3, <1>4 DEF Typed, TypeOK

\* A turn of the loop, by the names of its parts.
Rehoused(o, g) ==
    /\ saved' = saved /\ groups' = groups
    /\ duplication_group_id' = [c \in Complaints |->
          IF c = o.complaint /\ c \in saved THEN g ELSE duplication_group_id[c]]
    /\ complaints_count' = [h \in Groups |->
          IF h \notin groups THEN 0
          ELSE complaints_count[h] + (IF h = g THEN 1 ELSE 0) - (IF h = o.group THEN 1 ELSE 0)]
    /\ miscounted' = miscounted \cup CountedTwice(o.complaint, o.group)

LEMMA MoveRefParts ==
    ASSUME Typed, NEW t \in Threads, NEW o \in Objects, MoveRef(t, o)
    PROVE  \E r \in Builds, g \in Groups :
             /\ request[t].op = "build" /\ request[t] \in Builds
             /\ g = request[t].group /\ o \in request[t].todo
             /\ r = [request[t] EXCEPT !.todo = @ \ {o}]
             /\ r.op = "build" /\ r.group = g /\ r.complaint = request[t].complaint
             /\ r.todo = request[t].todo \ {o}
             /\ request' = [request EXCEPT ![t] = r]
             /\ Rehoused(o, g)
  <1>1. request[t].op = "build" /\ request[t] \in Builds /\ o \in request[t].todo
    BY RequestTyped DEF Typed, MoveRef
  <1>2. PICK q \in Builds : q = request[t]
    BY <1>1
  <1>3. /\ q.group \in Groups
        /\ [q EXCEPT !.todo = @ \ {o}] \in Builds
        /\ [q EXCEPT !.todo = @ \ {o}].op = "build"
        /\ [q EXCEPT !.todo = @ \ {o}].group = q.group
        /\ [q EXCEPT !.todo = @ \ {o}].complaint = q.complaint
        /\ [q EXCEPT !.todo = @ \ {o}].todo = q.todo \ {o}
    BY DEF Builds
  <1>4. PICK r \in Builds : r = [q EXCEPT !.todo = @ \ {o}]
    BY <1>3
  <1>5. request' = [request EXCEPT ![t] = r]
    BY <1>2, <1>4 DEF MoveRef
  <1>6. Rehoused(o, q.group)
    BY <1>2 DEF MoveRef, Rehoused
  <1>7. QED
    BY <1>1, <1>2, <1>3, <1>4, <1>5, <1>6

LEMMA MoveRefTyped ==
    ASSUME Typed, NEW t \in Threads, NEW o \in Objects, MoveRef(t, o)
    PROVE  Typed'
  <1>1. PICK r \in Builds, g \in Groups :
          /\ r.op = "build" /\ request' = [request EXCEPT ![t] = r] /\ Rehoused(o, g)
    BY MoveRefParts
  <1>2. EditsSaved' /\ request' \in [Threads -> {Idle} \cup Edits \cup Builds]
    BY <1>1, RequestStepTyped DEF Rehoused
  <1>3. complaints_count' \in [Groups -> Int] /\ \A h \in Groups \ groups' : complaints_count'[h] = 0
    BY <1>1 DEF Rehoused, Typed, TypeOK
  <1>4. /\ duplication_group_id' \in [Complaints -> Groups \cup {NoGroup}]
        /\ \A c \in Complaints \ saved' : duplication_group_id'[c] = NoGroup
    BY <1>1 DEF Rehoused, Typed, TypeOK
  <1>5. saved' \subseteq Complaints /\ groups' \subseteq Groups /\ miscounted' \subseteq Groups
    BY <1>1 DEF Rehoused, Typed, TypeOK, CountedTwice
  <1>6. QED
    BY <1>2, <1>3, <1>4, <1>5 DEF Typed, TypeOK

LEMMA SaveNewTyped ==
    ASSUME Typed, NEW t \in Threads, SaveNew(t)
    PROVE  Typed'
  <1> DEFINE c == request[t].complaint
             g == request[t].group
  <1>1. c \in Complaints /\ g \in Groups
    BY RequestTyped DEF Typed, SaveNew, Builds
  <1>2. /\ saved' = saved \cup {c}
        /\ duplication_group_id' = [duplication_group_id EXCEPT ![c] = g]
        /\ complaints_count' = [h \in Groups |->
              complaints_count[h] + (IF h = g /\ g \in groups THEN 1 ELSE 0)]
        /\ request' = [request EXCEPT ![t] = Idle]
        /\ groups' = groups /\ miscounted' = miscounted
    BY DEF SaveNew
  <1> HIDE DEF c, g
  <1>3. EditsSaved' /\ request' \in [Threads -> {Idle} \cup Edits \cup Builds]
    <2>1. Idle.op # "edit"
      BY DEF Idle
    <2>2. QED
      BY <1>2, <2>1, RequestStepTyped
  <1>4. QED
    BY <1>1, <1>2, <1>3 DEF Typed, TypeOK

LEMMA EndOrFindTyped ==
    ASSUME Typed, NEW t \in Threads,
           Abandon(t) \/ \E c \in Complaints : Find(t, c)
    PROVE  Typed'
  <1>1. UNCHANGED <<saved, duplication_group_id, groups, complaints_count, miscounted>>
    BY DEF Abandon, Find
  <1>2. EditsSaved' /\ request' \in [Threads -> {Idle} \cup Edits \cup Builds]
    <2>1. CASE Abandon(t)
      <3>1. Idle.op # "edit"
        BY DEF Idle
      <3>2. QED
        BY <1>1, <2>1, <3>1, RequestStepTyped DEF Abandon
    <2>2. ASSUME NEW c \in Complaints, Find(t, c)
          PROVE  EditsSaved' /\ request' \in [Threads -> {Idle} \cup Edits \cup Builds]
      <3> DEFINE r == [op |-> "edit", complaint |-> c, group |-> duplication_group_id[c]]
      <3>1. r \in Edits /\ r.complaint \in saved /\ request' = [request EXCEPT ![t] = r]
        BY <2>2 DEF Find, Edits, Typed, TypeOK
      <3> HIDE DEF r
      <3>2. QED
        BY <1>1, <3>1, RequestStepTyped
    <2>3. QED
      BY <2>1, <2>2
  <1>3. QED
    BY <1>1, <1>2 DEF Typed, TypeOK

\* The parts of an update, by the names the code's steps have in Update.
Column(refs, g, c) ==
    [d \in Complaints |-> IF d \in Moved(refs) \cup {c} THEN g ELSE duplication_group_id[d]]
Count(refs, g, was) ==
    [h \in Groups |-> CountsAfter(refs, g)[h] + (IF h = g THEN 1 ELSE 0)
                      - (IF h = was /\ h \in groups THEN 1 ELSE 0)]
Gone(refs, g, was) == Dissolved(groups \cup {g}, Count(refs, g, was))
Begun == {request[u].group : u \in Open("build")}
Miscounts(refs, g, c, was) ==
    (miscounted \ {g}) \cup CountedTwice(c, was) \cup (Gone(refs, g, was) \cap Begun)

LEMMA UpdateParts ==
    ASSUME Typed, NEW t \in Threads, NEW refs \in SUBSET Complaints, NEW g \in Groups,
           Update(t, refs, g)
    PROVE  LET c == request[t].complaint
               was == request[t].group
           IN  /\ refs \subseteq saved /\ g \in FreeGroups
               /\ c \in saved /\ c \in Complaints /\ was \in Groups \cup {NoGroup} /\ was # g
               /\ g \notin groups /\ complaints_count[g] = 0 /\ members(g) = {}
               /\ duplication_group_id' = [d \in Complaints |->
                    IF /\ Column(refs, g, c)[d] \in Gone(refs, g, was)
                       /\ Count(refs, g, was)[Column(refs, g, c)[d]] = 1
                    THEN NoGroup ELSE Column(refs, g, c)[d]]
               /\ groups' = (groups \cup {g}) \ Gone(refs, g, was)
               /\ complaints_count' = [h \in Groups |->
                    IF h \in Gone(refs, g, was) THEN 0 ELSE Count(refs, g, was)[h]]
               /\ miscounted' = Miscounts(refs, g, c, was)
               /\ request' = [request EXCEPT ![t] = Idle]
               /\ saved' = saved
  <1> DEFINE c == request[t].complaint
             was == request[t].group
  <1>1. request[t].op = "edit" /\ request[t] \in Edits /\ request[t] # Idle
    BY RequestTyped DEF Typed, Update
  <1>2. c \in saved /\ c \in Complaints /\ was \in Groups \cup {NoGroup}
    BY <1>1 DEF Edits, Typed, EditsSaved
  <1>3. refs \subseteq saved /\ g \in FreeGroups
    BY DEF Update
  <1>4. was # g /\ g \notin groups /\ members(g) = {}
    BY <1>1, <1>3 DEF FreeGroups, members, Open
  <1>5. complaints_count[g] = 0
    BY <1>4 DEF Typed, TypeOK
  <1>6. /\ duplication_group_id' = [d \in Complaints |->
             IF /\ Column(refs, g, c)[d] \in Gone(refs, g, was)
                /\ Count(refs, g, was)[Column(refs, g, c)[d]] = 1
             THEN NoGroup ELSE Column(refs, g, c)[d]]
        /\ groups' = (groups \cup {g}) \ Gone(refs, g, was)
        /\ complaints_count' = [h \in Groups |->
             IF h \in Gone(refs, g, was) THEN 0 ELSE Count(refs, g, was)[h]]
        /\ miscounted' = Miscounts(refs, g, c, was)
        /\ request' = [request EXCEPT ![t] = Idle]
        /\ saved' = saved
    BY Zenon DEF Update, Column, Count, Gone, Begun, Miscounts
  <1>7. QED
    BY <1>2, <1>3, <1>4, <1>5, <1>6

\* The same, row by row, of complaint c found in group was.
Updated(refs, g, c, was) ==
    /\ refs \subseteq saved
    /\ c \in saved /\ was \in Groups \cup {NoGroup} /\ was # g
    /\ g \notin groups /\ complaints_count[g] = 0 /\ members(g) = {}
    /\ \A d \in Complaints :
         duplication_group_id'[d] =
           IF /\ Column(refs, g, c)[d] \in Gone(refs, g, was)
              /\ Count(refs, g, was)[Column(refs, g, c)[d]] = 1
           THEN NoGroup ELSE Column(refs, g, c)[d]
    /\ groups' = (groups \cup {g}) \ Gone(refs, g, was)
    /\ \A h \in Groups :
         complaints_count'[h] =
           IF h \in Gone(refs, g, was) THEN 0 ELSE Count(refs, g, was)[h]
    /\ miscounted' = Miscounts(refs, g, c, was)
    /\ saved' = saved

LEMMA UpdateRows ==
    ASSUME Typed, NEW t \in Threads, NEW refs \in SUBSET Complaints, NEW g \in Groups,
           Update(t, refs, g)
    PROVE  Updated(refs, g, request[t].complaint, request[t].group)
  <1> DEFINE c == request[t].complaint
             was == request[t].group
  <1>1. /\ refs \subseteq saved /\ g \in FreeGroups
        /\ c \in saved /\ c \in Complaints /\ was \in Groups \cup {NoGroup} /\ was # g
        /\ g \notin groups /\ complaints_count[g] = 0 /\ members(g) = {}
        /\ duplication_group_id' = [d \in Complaints |->
             IF /\ Column(refs, g, c)[d] \in Gone(refs, g, was)
                /\ Count(refs, g, was)[Column(refs, g, c)[d]] = 1
             THEN NoGroup ELSE Column(refs, g, c)[d]]
        /\ groups' = (groups \cup {g}) \ Gone(refs, g, was)
        /\ complaints_count' = [h \in Groups |->
             IF h \in Gone(refs, g, was) THEN 0 ELSE Count(refs, g, was)[h]]
        /\ miscounted' = Miscounts(refs, g, c, was)
        /\ request' = [request EXCEPT ![t] = Idle]
        /\ saved' = saved
    BY UpdateParts
  <1> HIDE DEF c, was
  <1>2. Updated(refs, g, c, was)
    BY <1>1 DEF Updated
  <1>3. QED
    BY <1>2 DEF c, was

LEMMA UpdateTyped ==
    ASSUME Typed, NEW t \in Threads, NEW refs \in SUBSET Complaints, NEW g \in Groups,
           Update(t, refs, g)
    PROVE  Typed'
  <1> DEFINE c == request[t].complaint
             was == request[t].group
  <1>1. /\ refs \subseteq saved /\ g \in FreeGroups
        /\ c \in saved /\ c \in Complaints /\ was \in Groups \cup {NoGroup} /\ was # g
        /\ duplication_group_id' = [d \in Complaints |->
             IF /\ Column(refs, g, c)[d] \in Gone(refs, g, was)
                /\ Count(refs, g, was)[Column(refs, g, c)[d]] = 1
             THEN NoGroup ELSE Column(refs, g, c)[d]]
        /\ groups' = (groups \cup {g}) \ Gone(refs, g, was)
        /\ complaints_count' = [h \in Groups |->
             IF h \in Gone(refs, g, was) THEN 0 ELSE Count(refs, g, was)[h]]
        /\ miscounted' = Miscounts(refs, g, c, was)
        /\ request' = [request EXCEPT ![t] = Idle]
        /\ saved' = saved
    BY UpdateParts
  <1> HIDE DEF c, was
  <1>2. \A h \in Groups :
          /\ Count(refs, g, was)[h] \in Int
          /\ h \notin groups \cup {g} => Count(refs, g, was)[h] = 0
    <2> SUFFICES ASSUME NEW h \in Groups
                 PROVE  /\ Count(refs, g, was)[h] \in Int
                        /\ h \notin groups \cup {g} => Count(refs, g, was)[h] = 0
      OBVIOUS
    <2>1. /\ CountsAfter(refs, g)[h] \in Int
          /\ h \notin groups \cup {g} => CountsAfter(refs, g)[h] = 0
      BY <1>1, CountsTyped DEF Typed
    <2>2. Count(refs, g, was)[h] =
            CountsAfter(refs, g)[h] + (IF h = g THEN 1 ELSE 0)
            - (IF h = was /\ h \in groups THEN 1 ELSE 0)
      BY DEF Count
    <2>3. QED
      BY <2>1, <2>2
  <1>3. Moved(refs) \subseteq saved
    BY <1>1, MovesWhole DEF Typed
  <1>4. \A d \in Complaints :
          /\ Column(refs, g, c)[d] \in Groups \cup {NoGroup}
          /\ d \notin saved => Column(refs, g, c)[d] = NoGroup
    BY <1>1, <1>3 DEF Column, Typed, TypeOK
  <1>5. EditsSaved' /\ request' \in [Threads -> {Idle} \cup Edits \cup Builds]
    <2>1. Idle.op # "edit"
      BY DEF Idle
    <2>2. QED
      BY <1>1, <2>1, RequestStepTyped
  <1>6. complaints_count' \in [Groups -> Int]
    BY <1>1, <1>2
  <1>7. \A h \in Groups \ groups' : complaints_count'[h] = 0
    BY <1>1, <1>2
  <1>8. /\ duplication_group_id' \in [Complaints -> Groups \cup {NoGroup}]
        /\ \A d \in Complaints \ saved' : duplication_group_id'[d] = NoGroup
    BY <1>1, <1>4
  <1>9. groups' \subseteq Groups /\ saved' \subseteq Complaints /\ miscounted' \subseteq Groups
    <2>1. miscounted' \subseteq miscounted \cup groups \cup {g}
      BY <1>1 DEF Miscounts, CountedTwice, Gone, Dissolved
    <2>2. QED
      BY <1>1, <2>1 DEF Typed, TypeOK
  <1>10. QED
    BY <1>5, <1>6, <1>7, <1>8, <1>9 DEF Typed, TypeOK

LEMMA NextTyped == Typed /\ [Next]_vars => Typed'
  <1> SUFFICES ASSUME Typed, [Next]_vars
               PROVE  Typed'
    OBVIOUS
  <1>1. CASE \E c \in Complaints : Create(c) \/ Destroy(c)
    BY <1>1, CreateTyped, DestroyTyped
  <1>2. CASE \E t \in Threads, c \in Complaints, refs \in SUBSET Complaints, g \in Groups :
               BuildGroup(t, c, refs, g)
    BY <1>2, BuildGroupTyped
  <1>3. CASE \E t \in Threads : \/ \E o \in Objects : MoveRef(t, o)
                                \/ SaveNew(t) \/ Abandon(t)
    BY <1>3, MoveRefTyped, SaveNewTyped, EndOrFindTyped
  <1>4. CASE \E t \in Threads, c \in Complaints : Find(t, c)
    BY <1>4, EndOrFindTyped
  <1>5. CASE \E t \in Threads, refs \in SUBSET Complaints, g \in Groups : Update(t, refs, g)
    BY <1>5, UpdateTyped
  <1>6. CASE UNCHANGED vars
    BY <1>6 DEF vars, Typed, TypeOK, EditsSaved
  <1>7. QED
    BY <1>1, <1>2, <1>3, <1>4, <1>5, <1>6 DEF Next

LEMMA AlwaysTyped == Spec => []Typed
  BY InitTyped, NextTyped, PTL DEF Spec

\* For any number of complaints, groups and threads, the rows and requests are
\* of their types.
THEOREM TypeCorrect == Spec => []TypeOK
  BY AlwaysTyped, PTL DEF Typed
-----------------------------------------------------------------------------
\* What an update joins, for any number of threads.

\* The new group counts every object that was loaded, and the updated one.
LEMMA NewGroupCount ==
    ASSUME Typed, NEW refs \in SUBSET saved, NEW g \in Groups, NEW was, was # g,
           complaints_count[g] = 0, members(g) = {}
    PROVE  Count(refs, g, was)[g] = Cardinality(Loaded(refs)) + 1
  <1>1. Cardinality(LoadedFrom(refs, g)) = 0 /\ Cardinality(Loaded(refs)) \in Nat
    BY MovesWhole DEF Typed
  <1>2. CountsAfter(refs, g)[g] = Cardinality(Loaded(refs))
    BY <1>1, CountsTyped DEF Typed
  <1>3. QED
    BY <1>1, <1>2 DEF Count

\* For any number of complaints, groups and threads: after an update, however
\* the groups of the complaints it names were built up and whatever other
\* requests did since it was loaded, the complaint is grouped with those it
\* names and with all that were grouped with them.
THEOREM UpdateAlwaysJoins == Spec => UpdateJoins
  <1> DEFINE Joins ==
        \A t \in Threads, refs \in SUBSET Complaints :
          (\E g \in Groups : Update(t, refs, g)) =>
              \A c \in refs, d \in saved :
                  d \in {c, request[t].complaint} \/ SameGroup(c, d) => SameGroup(c, d)'
  <1>1. ASSUME Typed
        PROVE  Joins
    <2> SUFFICES ASSUME NEW t \in Threads, NEW refs \in SUBSET Complaints, NEW g \in Groups,
                        Update(t, refs, g), NEW a \in refs, NEW b \in saved,
                        b \in {a, request[t].complaint} \/ SameGroup(a, b)
                 PROVE  SameGroup(a, b)'
      BY <1>1
    <2> DEFINE c == request[t].complaint
               was == request[t].group
    <2>1. Updated(refs, g, c, was)
      BY <1>1, UpdateRows
    <2> HIDE DEF was, c
    <2>2. /\ refs \subseteq Moved(refs)
          /\ Cardinality(Loaded(refs)) \in Nat /\ Cardinality(Loaded(refs)) >= 1
          /\ \A x, y \in saved : SameGroup(x, y) /\ x \in Moved(refs) => y \in Moved(refs)
      BY <1>1, <2>1, MovesWhole DEF Typed, Updated
    <2>3. Count(refs, g, was)[g] # 1
      BY <1>1, <2>1, <2>2, NewGroupCount DEF Updated
    <2>4. a \in Moved(refs) \cup {c} /\ b \in Moved(refs) \cup {c}
      BY <2>1, <2>2 DEF c, Updated
    <2>5. a \in Complaints /\ b \in Complaints
      BY <1>1 DEF Typed, TypeOK
    <2>6. Column(refs, g, c)[a] = g /\ Column(refs, g, c)[b] = g
      BY <2>4, <2>5 DEF Column
    <2>7. duplication_group_id'[a] = g /\ duplication_group_id'[b] = g
      BY <2>1, <2>3, <2>5, <2>6 DEF Updated
    <2>8. QED
      BY <2>7, GroupsAssumption DEF SameGroup
  <1>2. Typed /\ [Next]_vars => [Joins]_vars
    BY <1>1
  <1>3. QED
    BY <1>2, AlwaysTyped, PTL DEF Spec, UpdateJoins
-----------------------------------------------------------------------------
\* What the counters cover, for any number of threads.

\* The complaints in h when the columns have been written and no group has
\* been dissolved yet.
Between(refs, g, c, h) == {d \in saved : Column(refs, g, c)[d] = h}

\* An update leaves every group, the new one included, with a counter that
\* covers its complaints; cleanup comes after.
LEMMA UpdateCounts ==
    ASSUME Typed, CountCoversMembers, NEW refs \in SUBSET Complaints, NEW g \in Groups,
           NEW c \in Complaints, NEW was, Updated(refs, g, c, was),
           NEW h \in Groups, Between(refs, g, c, h) # {},
           h = g \/ h \notin Miscounts(refs, g, c, was)
    PROVE  /\ h \in groups \cup {g}
           /\ Cardinality(Between(refs, g, c, h)) \in Nat \ {0}
           /\ Count(refs, g, was)[h] \in Int
           /\ Count(refs, g, was)[h] >= Cardinality(Between(refs, g, c, h))
           /\ Cardinality(Between(refs, g, c, h)) = 1 =>
                \E x : Between(refs, g, c, h) = {x}
  <1> DEFINE between == Between(refs, g, c, h)
  <1>1. /\ refs \subseteq saved /\ c \in saved /\ was # g
        /\ g \notin groups /\ complaints_count[g] = 0 /\ members(g) = {}
    BY DEF Updated
  <1>2. /\ Moved(refs) \subseteq saved
        /\ IsFiniteSet(Moved(refs))
        /\ Cardinality(Loaded(refs)) \in Nat
        /\ Cardinality(Moved(refs)) \in Nat
        /\ Cardinality(Moved(refs)) <= Cardinality(Loaded(refs))
        /\ \A k : members(k) \cap Moved(refs) = {} => Cardinality(LoadedFrom(refs, k)) = 0
        /\ \A k \in Groups :
             members(k) \cap Moved(refs) # {} => members(k) \subseteq Moved(refs)
    BY <1>1, MovesWhole DEF Typed
  <1>3. saved \subseteq Complaints /\ complaints_count \in [Groups -> Int]
    BY DEF Typed, TypeOK
  <1>4. between \subseteq saved /\ between # {}
    BY DEF Between
  <1>5. /\ IsFiniteSet(between) /\ Cardinality(between) \in Nat \ {0}
        /\ Cardinality(between) = 1 => \E x : between = {x}
    <2>1. IsFiniteSet(saved)
      BY MembersFinite DEF Typed
    <2>2. IsFiniteSet(between)
      BY <1>4, <2>1, FS_Subset
    <2> HIDE DEF between
    <2>3. QED
      BY <1>4, <2>2, FS_CardinalityType, FS_EmptySet, FS_Singleton
  <1>6. CASE h = g
    <2>1. between = Moved(refs) \cup {c}
      <3>1. \A d \in saved : Column(refs, g, c)[d] = g <=> d \in Moved(refs) \cup {c}
        BY <1>1, <1>3 DEF Column, members
      <3>2. QED
        BY <1>1, <1>2, <1>6, <3>1 DEF Between
    <2>2. Cardinality(between) <= Cardinality(Moved(refs)) + 1
      <3>1. Cardinality(Moved(refs) \cup {c}) =
              IF c \in Moved(refs) THEN Cardinality(Moved(refs))
              ELSE Cardinality(Moved(refs)) + 1
        BY <1>2, FS_AddElement
      <3>2. QED
        BY <1>2, <2>1, <3>1
    <2>3. Count(refs, g, was)[g] = Cardinality(Loaded(refs)) + 1
      BY <1>1, NewGroupCount
    <2>4. /\ Count(refs, g, was)[h] \in Int
          /\ Count(refs, g, was)[h] >= Cardinality(between)
      <3> HIDE DEF between
      <3>1. QED
        BY <1>2, <1>5, <1>6, <2>2, <2>3
    <2>5. QED
      BY <1>5, <1>6, <2>4
  <1>7. CASE h # g
    <2>1. between = members(h) \ (Moved(refs) \cup {c})
      <3>1. \A d \in saved : Column(refs, g, c)[d] = h <=>
              duplication_group_id[d] = h /\ d \notin Moved(refs) \cup {c}
        BY <1>3, <1>7 DEF Column
      <3>2. QED
        BY <3>1 DEF Between, members
    <2>2. members(h) \cap Moved(refs) = {}
      BY <1>2, <1>4, <2>1
    <2>3. between = members(h) \ {c} /\ members(h) # {}
      BY <1>4, <2>1, <2>2
    <2>4. /\ h \in groups /\ complaints_count[h] \in Int
          /\ complaints_count[h] >= Cardinality(members(h))
      <3>1. h \notin miscounted
        BY <1>7 DEF Miscounts
      <3>2. QED
        BY <1>3, <2>3, <3>1 DEF CountCoversMembers
    <2>5. CountsAfter(refs, g)[h] = complaints_count[h]
      <3>1. Cardinality(LoadedFrom(refs, h)) = 0
        BY <1>2, <2>2
      <3>2. refs \in SUBSET saved
        BY <1>1
      <3>3. CountsAfter(refs, g)[h] =
              IF h \notin groups \cup {g} THEN 0
              ELSE complaints_count[h]
                   + (IF h = g THEN Cardinality(Loaded(refs)) ELSE 0)
                   - Cardinality(LoadedFrom(refs, h))
        BY <3>2, CountsTyped DEF Typed
      <3>4. QED
        BY <1>7, <2>4, <3>1, <3>3
    <2>6. Count(refs, g, was)[h] = complaints_count[h] - (IF h = was THEN 1 ELSE 0)
      BY <1>7, <2>4, <2>5 DEF Count
    <2>7. h = was => c \in members(h)
      BY <1>1, <1>7, <2>4 DEF members, Miscounts, CountedTwice
    <2>8. /\ Cardinality(members(h)) \in Nat
          /\ Cardinality(members(h) \ {c}) =
               IF c \in members(h) THEN Cardinality(members(h)) - 1
               ELSE Cardinality(members(h))
      BY MembersFinite, FS_RemoveElement DEF Typed
    <2>9. /\ Cardinality(between) <= Cardinality(members(h))
          /\ h = was => Cardinality(between) = Cardinality(members(h)) - 1
      <3>1. Cardinality(between) = Cardinality(members(h) \ {c})
        BY <2>3
      <3> HIDE DEF between
      <3>2. QED
        BY <2>7, <2>8, <3>1
    <2>10. /\ Count(refs, g, was)[h] \in Int
           /\ Count(refs, g, was)[h] >= Cardinality(between)
      <3> HIDE DEF between
      <3>1. QED
        BY <1>5, <2>4, <2>6, <2>8, <2>9
    <2>11. QED
      BY <1>5, <2>4, <2>10
  <1>8. QED
    BY <1>6, <1>7

LEMMA UpdateCountTyped ==
    ASSUME Typed, NEW refs \in SUBSET Complaints, NEW g \in Groups, NEW c, NEW was,
           Updated(refs, g, c, was), NEW h \in Groups
    PROVE  Count(refs, g, was)[h] \in Int
  <1>1. refs \in SUBSET saved
    BY DEF Updated
  <1>2. CountsAfter(refs, g)[h] \in Int
    BY <1>1, CountsTyped DEF Typed
  <1>3. QED
    BY <1>2 DEF Count

\* So after cleanup every group with complaints is there, and covered, unless it is
\* miscounted; and so is every group that a create has begun to fill.
LEMMA UpdateCovers ==
    ASSUME Typed, CountCoversMembers, NEW refs \in SUBSET Complaints, NEW g \in Groups,
           NEW c \in Complaints, NEW was, Updated(refs, g, c, was),
           NEW h \in Groups, h = g \/ h \notin Miscounts(refs, g, c, was),
           \/ members(h)' # {}
           \/ h \in groups \ Gone(refs, g, was)
    PROVE  Covers(h)'
  <1> DEFINE between == Between(refs, g, c, h)
  <1>1. saved' = saved /\ saved \subseteq Complaints
    BY DEF Updated, Typed, TypeOK
  <1>2. members(h)' \subseteq between
    BY <1>1, GroupsAssumption DEF members, Between, Updated
  <1>3. between # {} =>
        /\ h \in groups \cup {g}
        /\ Cardinality(between) \in Nat \ {0}
        /\ Count(refs, g, was)[h] \in Int
        /\ Count(refs, g, was)[h] >= Cardinality(between)
    BY UpdateCounts
  <1>4. h \notin Gone(refs, g, was)
    <2>1. CASE members(h)' # {}
      <3>1. PICK d \in members(h)' : TRUE
        BY <2>1
      <3>2. d \in saved /\ duplication_group_id'[d] = h
        BY <1>1, <3>1 DEF members
      <3>3. h # NoGroup /\ Column(refs, g, c)[d] = h
        BY <1>1, <3>2, GroupsAssumption DEF Updated
      <3>4. ~(h \in Gone(refs, g, was) /\ Count(refs, g, was)[h] = 1)
        BY <1>1, <3>2, <3>3 DEF Updated
      <3>5. h \in Gone(refs, g, was) => Count(refs, g, was)[h] <= 1
        BY DEF Gone, Dissolved
      <3>6. between # {}
        BY <1>2, <2>1
      <3> HIDE DEF between
      <3>7. QED
        BY <1>3, <3>4, <3>5, <3>6
    <2>2. QED
      BY <2>1
  <1>5. h \in groups' /\ complaints_count'[h] = Count(refs, g, was)[h]
    BY <1>2, <1>3, <1>4 DEF Updated
  <1>6. Count(refs, g, was)[h] > 1
    <2>1. h \in groups \cup {g}
      BY <1>5 DEF Updated
    <2>2. ~(Count(refs, g, was)[h] <= 1)
      BY <1>4, <2>1 DEF Gone, Dissolved
    <2>3. Count(refs, g, was)[h] \in Int
      BY UpdateCountTyped
    <2>4. QED
      BY <2>2, <2>3
  <1>7. Cardinality(members(h)') <= Cardinality(between) /\ Cardinality(members(h)') \in Nat
    <2>1. IsFiniteSet(between)
      <3>1. IsFiniteSet(saved) /\ between \subseteq saved
        BY MembersFinite DEF Typed, Between
      <3>2. QED
        BY <3>1, FS_Subset
    <2>2. QED
      BY <1>2, <2>1, FS_Subset, FS_CardinalityType
  <1>8. CASE between = {}
    <2>1. Cardinality(members(h)') = 0
      BY <1>2, <1>8, FS_EmptySet
    <2>2. Count(refs, g, was)[h] \in Int
      BY UpdateCountTyped
    <2> HIDE DEF between
    <2>3. complaints_count'[h] >= Cardinality(members(h)')
      BY <1>5, <1>6, <2>1, <2>2
    <2>4. QED
      BY <1>5, <2>3 DEF Covers
  <1>9. CASE between # {}
    <2> HIDE DEF between
    <2>1. complaints_count'[h] >= Cardinality(members(h)')
      BY <1>3, <1>5, <1>7, <1>9
    <2>2. QED
      BY <1>5, <2>1 DEF Covers
  <1>10. QED
    BY <1>8, <1>9

\* The group that a create has in hand is a group.
LEMMA RequestGroup ==
    ASSUME Typed, NEW t \in Threads, request[t].op = "build"
    PROVE  /\ request[t].group \in Groups /\ request[t].complaint \in Complaints
           /\ request[t] # Idle
  BY RequestTyped DEF Typed, Builds

\* Groups that a step keeps sound: then the creates that it leaves under way are kept.
LEMMA FillingKept ==
    ASSUME Typed, Filling,
           \A h \in Groups : Sound(h) => Sound(h)',
           \A t \in Threads : request'[t].op = "build" =>
               /\ request[t].op = "build"
               /\ request'[t].complaint = request[t].complaint
               /\ request'[t].group = request[t].group
               /\ request[t].complaint \notin saved'
    PROVE  Filling'
  <1> SUFFICES ASSUME NEW t \in Threads, request'[t].op = "build",
                      NEW h \in Groups, h = request[t].group
               PROVE  /\ request'[t].complaint \notin saved'
                      /\ Sound(h)'
                      /\ \A u \in Threads : u # t /\ request'[u].op = "build" =>
                            request'[u].complaint # request'[t].complaint
    <2>1. ASSUME NEW t \in Threads, request'[t].op = "build"
          PROVE  request[t].group \in Groups /\ request'[t].group = request[t].group
      BY <2>1, RequestGroup
    <2>2. QED
      BY <2>1 DEF Filling
  <1>1. /\ request[t].op = "build"
        /\ request'[t].complaint = request[t].complaint
        /\ request'[t].group = request[t].group
        /\ request'[t].complaint \notin saved'
    OBVIOUS
  <1>2. Sound(h)
    BY <1>1 DEF Filling
  <1>3. Sound(h)'
    BY <1>2
  <1>4. QED
    BY <1>1, <1>3 DEF Filling

LEMMA CreateCovers ==
    ASSUME IInv, NEW c \in Complaints, Create(c)
    PROVE  CountCoversMembers' /\ Filling'
  <1>1. /\ c \notin saved /\ saved' = saved \cup {c}
        /\ UNCHANGED <<duplication_group_id, groups, complaints_count, request, miscounted>>
        /\ \A t \in Threads : request[t] # Idle => request[t].complaint # c
    BY DEF Create, Unused
  <1>2. \A h \in Groups : members(h)' = members(h)
    BY <1>1, GroupsAssumption DEF IInv, Typed, TypeOK, members
  <1>3. \A h \in Groups : Sound(h)' <=> Sound(h)
    BY <1>1, <1>2 DEF Sound, Covers
  <1>4. CountCoversMembers'
    BY <1>1, <1>2 DEF IInv, CountCoversMembers
  <1>5. Filling'
    <2>1. \A t \in Threads : request[t].op = "build" => request[t].complaint \notin saved'
      BY <1>1, RequestGroup DEF IInv, Filling
    <2>2. QED
      BY <1>1, <1>3, <2>1, FillingKept DEF IInv
  <1>6. QED
    BY <1>4, <1>5

LEMMA DestroyCovers ==
    ASSUME IInv, NEW c \in Complaints, Destroy(c)
    PROVE  CountCoversMembers' /\ Filling'
  <1>1. /\ c \in saved /\ saved' = saved \ {c}
        /\ UNCHANGED <<groups, request, miscounted>>
        /\ duplication_group_id' = [duplication_group_id EXCEPT ![c] = NoGroup]
        /\ complaints_count' = [h \in Groups |->
             complaints_count[h]
             - (IF h = duplication_group_id[c] /\ h \in groups THEN 1 ELSE 0)]
    BY DEF Destroy
  <1>2. \A h \in Groups : members(h)' = members(h) \ {c}
    BY <1>1, GroupsAssumption DEF IInv, Typed, TypeOK, members
  <1>3. ASSUME NEW h \in Groups, Covers(h)
        PROVE  Covers(h)'
    <2>1. complaints_count'[h] = complaints_count[h] - (IF c \in members(h) THEN 1 ELSE 0)
      BY <1>1, <1>3 DEF Covers, members
    <2>2. /\ Cardinality(members(h)) \in Nat
          /\ Cardinality(members(h) \ {c}) =
               IF c \in members(h) THEN Cardinality(members(h)) - 1
               ELSE Cardinality(members(h))
      BY MembersFinite, FS_RemoveElement DEF IInv, Typed
    <2>3. complaints_count[h] \in Int /\ complaints_count[h] >= Cardinality(members(h))
      BY <1>3 DEF Covers, IInv, Typed, TypeOK
    <2>4. complaints_count'[h] >= Cardinality(members(h)')
      BY <1>2, <2>1, <2>2, <2>3
    <2>5. QED
      BY <1>1, <1>3, <2>4 DEF Covers
  <1>4. CountCoversMembers'
    BY <1>1, <1>2, <1>3 DEF IInv, CountCoversMembers, Covers
  <1>5. Filling'
    <2>1. \A h \in Groups : Sound(h) => Sound(h)'
      BY <1>1, <1>3 DEF Sound
    <2>2. \A t \in Threads : request[t].op = "build" => request[t].complaint \notin saved'
      BY <1>1 DEF IInv, Filling
    <2>3. QED
      BY <1>1, <2>1, <2>2, FillingKept DEF IInv
  <1>6. QED
    BY <1>4, <1>5

\* A new group is empty, and no request knew of it.
LEMMA BuildGroupCovers ==
    ASSUME IInv, NEW t \in Threads, NEW c \in Complaints,
           NEW refs \in SUBSET Complaints, NEW g \in Groups, BuildGroup(t, c, refs, g)
    PROVE  CountCoversMembers' /\ Filling'
  <1> DEFINE r == [op |-> "build", complaint |-> c, group |-> g, todo |-> LoadedObjects(refs)]
  <1>1. /\ c \notin saved /\ g \in FreeGroups /\ request[t] = Idle
        /\ \A u \in Threads : request[u] # Idle => request[u].complaint # c
        /\ groups' = groups \cup {g}
        /\ complaints_count' = [complaints_count EXCEPT ![g] = 0]
        /\ request' = [request EXCEPT ![t] = r]
        /\ miscounted' = miscounted \ {g}
        /\ UNCHANGED <<saved, duplication_group_id>>
    BY DEF BuildGroup, Unused
  <1>2. r.op = "build" /\ r.complaint = c /\ r.group = g
    OBVIOUS
  <1> HIDE DEF r
  <1>3. g \notin groups /\ members(g) = {} /\ \A h : members(h)' = members(h)
    BY <1>1 DEF FreeGroups, members
  <1>4. \A h \in Groups : h # g => complaints_count'[h] = complaints_count[h]
    BY <1>1 DEF IInv, Typed, TypeOK
  <1>5. CountCoversMembers'
    BY <1>1, <1>3, <1>4 DEF IInv, CountCoversMembers
  <1>6. Sound(g)'
    <2>1. Cardinality(members(g)') = 0 /\ complaints_count'[g] = 0
      BY <1>1, <1>3, FS_EmptySet DEF IInv, Typed, TypeOK
    <2>2. QED
      BY <1>1, <2>1 DEF Covers, Sound
  <1>7. \A h \in Groups : h # g /\ Sound(h) => Sound(h)'
    BY <1>1, <1>3, <1>4 DEF Sound, Covers
  <1>8. \A u \in Threads : request'[u] = IF u = t THEN r ELSE request[u]
    BY <1>1 DEF IInv, Typed, TypeOK
  <1>9. \A u \in Threads : request[u].op = "build" =>
          /\ request[u].group \in Groups /\ request[u].group # g
          /\ request[u].complaint # c /\ u # t
    BY <1>1, RequestGroup DEF IInv, FreeGroups, Open, Idle
  <1>10. Filling'
    <2>1. ASSUME NEW u \in Threads, request'[u].op = "build",
                 NEW h \in Groups, h = request'[u].group
          PROVE  /\ request'[u].complaint \notin saved'
                 /\ Sound(h)'
                 /\ \A v \in Threads : v # u /\ request'[v].op = "build" =>
                       request'[v].complaint # request'[u].complaint
      <3>1. CASE u = t
        BY <1>1, <1>2, <1>6, <1>8, <1>9, <2>1, <3>1
      <3>2. CASE u # t
        <4>1. request[u].op = "build" /\ request'[u] = request[u] /\ h # g
          BY <1>8, <1>9, <2>1, <3>2
        <4>2. Sound(h)'
          <5>1. Sound(h)
            BY <2>1, <4>1 DEF IInv, Filling
          <5>2. QED
            BY <1>7, <4>1, <5>1
        <4>3. QED
          BY <1>1, <1>2, <1>8, <1>9, <4>1, <4>2 DEF IInv, Filling
      <3>3. QED
        BY <3>1, <3>2
    <2>2. \A u \in Threads : request'[u].op = "build" => request'[u].group \in Groups
      BY <1>2, <1>8, <1>9
    <2>3. QED
      BY <2>1, <2>2 DEF Filling
  <1>11. QED
    BY <1>5, <1>10

\* A turn of the loop takes at most one from the counter of a group and then its
\* complaint too, or the group is miscounted; the group that is filled counts every
\* turn.
LEMMA MoveRefCovers ==
    ASSUME Typed, NEW o \in Objects, NEW g \in Groups, Rehoused(o, g),
           NEW h \in Groups, h \notin miscounted',
           h = g => h \in groups, Covers(h)
    PROVE  Covers(h)'
  <1> DEFINE c == o.complaint
  <1>1. /\ saved' = saved /\ groups' = groups /\ saved \subseteq Complaints
        /\ complaints_count \in [Groups -> Int] /\ o.group \in Groups \cup {NoGroup}
        /\ h \in groups
    BY DEF Rehoused, Typed, TypeOK, Objects, Covers
  <1>2. complaints_count'[h] = complaints_count[h] + (IF h = g THEN 1 ELSE 0)
                                                   - (IF h = o.group THEN 1 ELSE 0)
    BY <1>1 DEF Rehoused
  <1>3. /\ IsFiniteSet(members(h)) /\ Cardinality(members(h)) \in Nat
        /\ complaints_count[h] \in Int /\ complaints_count[h] >= Cardinality(members(h))
    BY <1>1, MembersFinite DEF Typed, Covers
  <1>4. h = o.group => c \in members(h)
    BY <1>1 DEF Rehoused, CountedTwice, members
  <1>5. \A d \in saved : duplication_group_id'[d] = IF d = c THEN g ELSE duplication_group_id[d]
    BY <1>1 DEF Rehoused
  <1>6. CASE h = g
    <2>1. members(h)' \subseteq members(h) \cup {c}
      BY <1>1, <1>5, <1>6 DEF members
    <2>2. h = o.group => members(h)' = members(h)
      BY <1>1, <1>4, <1>5, <1>6 DEF members
    <2>3. /\ Cardinality(members(h)') \in Nat
          /\ Cardinality(members(h)') <= Cardinality(members(h) \cup {c})
      <3>1. IsFiniteSet(members(h) \cup {c})
        BY <1>3, FS_AddElement
      <3>2. QED
        BY <2>1, <3>1, FS_Subset, FS_CardinalityType
    <2>4. Cardinality(members(h) \cup {c}) \in {Cardinality(members(h)), Cardinality(members(h)) + 1}
      BY <1>3, FS_AddElement
    <2>5. complaints_count'[h] >= Cardinality(members(h)')
      <3>1. CASE h = o.group
        BY <1>2, <1>3, <1>6, <2>2, <3>1
      <3>2. CASE h # o.group
        BY <1>2, <1>3, <1>6, <2>3, <2>4, <3>2
      <3>3. QED
        BY <3>1, <3>2
    <2>6. QED
      BY <1>1, <2>5 DEF Covers
  <1>7. CASE h # g
    <2>1. members(h)' = members(h) \ {c}
      BY <1>1, <1>5, <1>7 DEF members
    <2>2. Cardinality(members(h) \ {c}) =
            IF c \in members(h) THEN Cardinality(members(h)) - 1
            ELSE Cardinality(members(h))
      BY <1>3, FS_RemoveElement
    <2>3. complaints_count'[h] >= Cardinality(members(h)')
      BY <1>2, <1>3, <1>4, <1>7, <2>1, <2>2
    <2>4. QED
      BY <1>1, <2>3 DEF Covers
  <1>8. QED
    BY <1>6, <1>7

LEMMA MoveRefStepCovers ==
    ASSUME IInv, NEW t \in Threads, NEW o \in Objects, MoveRef(t, o)
    PROVE  CountCoversMembers' /\ Filling'
  <1>1. PICK r \in Builds, g \in Groups :
          /\ request[t].op = "build" /\ g = request[t].group
          /\ r.op = "build" /\ r.group = g /\ r.complaint = request[t].complaint
          /\ request' = [request EXCEPT ![t] = r]
          /\ Rehoused(o, g)
    BY MoveRefParts DEF IInv
  <1>2. /\ saved' = saved /\ groups' = groups /\ miscounted \subseteq miscounted'
        /\ saved \subseteq Complaints
    BY <1>1 DEF Rehoused, IInv, Typed, TypeOK
  <1>3. Sound(g)
    BY <1>1 DEF IInv, Filling
  <1>4. ASSUME NEW h \in Groups, Covers(h), h \notin miscounted'
        PROVE  Covers(h)'
    BY <1>1, <1>4, MoveRefCovers DEF IInv, Covers
  <1>5. CountCoversMembers'
    <2> SUFFICES ASSUME NEW h \in Groups, h \notin miscounted', members(h)' # {}
                 PROVE  Covers(h)'
      BY DEF CountCoversMembers, Covers
    <2>1. CASE h = g
      BY <1>2, <1>3, <1>4, <2>1 DEF Sound
    <2>2. CASE h # g
      <3>1. members(h)' \subseteq members(h)
        BY <1>1, <1>2, <2>2 DEF Rehoused, members
      <3>2. Covers(h)
        BY <1>2, <3>1 DEF IInv, CountCoversMembers, Covers
      <3>3. QED
        BY <1>4, <3>2
    <2>3. QED
      BY <2>1, <2>2
  <1>6. \A h \in Groups : Sound(h) => Sound(h)'
    BY <1>2, <1>4 DEF Sound
  <1>7. \A u \in Threads : request'[u] = IF u = t THEN r ELSE request[u]
    BY <1>1 DEF IInv, Typed, TypeOK
  <1>8. \A u \in Threads : request[u].op = "build" => request[u].complaint \notin saved'
    BY <1>2 DEF IInv, Filling
  <1>9. Filling'
    BY <1>1, <1>6, <1>7, <1>8, FillingKept DEF IInv
  <1>10. QED
    BY <1>5, <1>9

LEMMA SaveNewCovers ==
    ASSUME IInv, NEW t \in Threads, SaveNew(t)
    PROVE  CountCoversMembers' /\ Filling'
  <1>1. PICK g \in Groups, c \in Complaints : g = request[t].group /\ c = request[t].complaint
    BY RequestGroup DEF IInv, SaveNew
  <1>2. /\ Sound(g) /\ c \notin saved
        /\ \A u \in Threads : u # t /\ request[u].op = "build" => request[u].complaint # c
    BY <1>1 DEF IInv, Filling, SaveNew
  <1>3. /\ saved' = saved \cup {c} /\ groups' = groups /\ miscounted' = miscounted
        /\ duplication_group_id' = [duplication_group_id EXCEPT ![c] = g]
        /\ complaints_count' = [h \in Groups |->
              complaints_count[h] + (IF h = g /\ g \in groups THEN 1 ELSE 0)]
        /\ request' = [request EXCEPT ![t] = Idle]
    BY <1>1 DEF SaveNew
  <1>4. members(g)' = members(g) \cup {c} /\ c \notin members(g)
    BY <1>2, <1>3 DEF members, IInv, Typed, TypeOK
  <1>5. ASSUME Covers(g)
        PROVE  Covers(g)'
    <2>1. /\ Cardinality(members(g)) \in Nat
          /\ Cardinality(members(g) \cup {c}) = Cardinality(members(g)) + 1
      BY <1>4, MembersFinite, FS_AddElement DEF IInv, Typed
    <2>2. complaints_count'[g] = complaints_count[g] + 1 /\ complaints_count[g] \in Int
      BY <1>3, <1>5 DEF Covers, IInv, Typed, TypeOK
    <2>3. QED
      BY <1>3, <1>4, <1>5, <2>1, <2>2 DEF Covers
  <1>6. \A h \in Groups : h # g =>
          members(h)' = members(h) /\ complaints_count'[h] = complaints_count[h]
    BY <1>2, <1>3 DEF members, IInv, Typed, TypeOK
  <1>7. CountCoversMembers'
    <2> SUFFICES ASSUME NEW h \in Groups, h \notin miscounted', members(h)' # {}
                 PROVE  Covers(h)'
      BY DEF CountCoversMembers, Covers
    <2>1. CASE h = g
      BY <1>2, <1>3, <1>5, <2>1 DEF Sound
    <2>2. CASE h # g
      BY <1>3, <1>6, <2>2 DEF IInv, CountCoversMembers, Covers
    <2>3. QED
      BY <2>1, <2>2
  <1>8. Filling'
    <2>1. \A h \in Groups : Sound(h) => Sound(h)'
      BY <1>3, <1>5, <1>6 DEF Sound, Covers
    <2>2. \A u \in Threads : request'[u] = IF u = t THEN Idle ELSE request[u]
      BY <1>3 DEF IInv, Typed, TypeOK
    <2>3. \A u \in Threads : request'[u].op = "build" =>
            request'[u] = request[u] /\ request[u].complaint \notin saved'
      BY <1>2, <1>3, <2>2 DEF Idle, IInv, Filling
    <2>4. QED
      BY <2>1, <2>3, FillingKept DEF IInv
  <1>9. QED
    BY <1>7, <1>8

LEMMA EndOrFindCovers ==
    ASSUME IInv, NEW t \in Threads, Abandon(t) \/ \E c \in Complaints : Find(t, c)
    PROVE  CountCoversMembers' /\ Filling'
  <1>1. UNCHANGED <<saved, duplication_group_id, groups, complaints_count, miscounted>>
    BY DEF Abandon, Find
  <1>2. \A u \in Threads : request'[u].op = "build" => request'[u] = request[u]
    <2>1. \A u \in Threads : u # t => request'[u] = request[u]
      BY DEF Abandon, Find, IInv, Typed, TypeOK
    <2>2. request'[t].op \in {"idle", "edit"}
      BY DEF Abandon, Find, IInv, Typed, TypeOK, Idle
    <2>3. QED
      BY <2>1, <2>2
  <1>3. CountCoversMembers'
    BY <1>1 DEF IInv, CountCoversMembers, members
  <1>4. \A h \in Groups : Sound(h) => Sound(h)'
    BY <1>1 DEF Sound, Covers, members
  <1>5. \A u \in Threads : request[u].op = "build" => request[u].complaint \notin saved'
    BY <1>1 DEF IInv, Filling
  <1>6. Filling'
    BY <1>2, <1>4, <1>5, FillingKept DEF IInv
  <1>7. QED
    BY <1>3, <1>6

LEMMA UpdateStepCovers ==
    ASSUME IInv, NEW t \in Threads, NEW refs \in SUBSET Complaints,
           NEW g \in Groups, Update(t, refs, g)
    PROVE  CountCoversMembers' /\ Filling'
  <1>1. Updated(refs, g, request[t].complaint, request[t].group)
    BY UpdateRows DEF IInv
  <1>2. request[t].complaint \in Complaints /\ request[t].group \in Groups \cup {NoGroup}
    BY <1>1 DEF Updated, IInv, Typed, TypeOK
  <1>3. PICK c \in Complaints, was \in Groups \cup {NoGroup} :
          c = request[t].complaint /\ was = request[t].group
    BY <1>2
  <1>4. Updated(refs, g, c, was)
    BY <1>1, <1>3
  <1>5. /\ miscounted' = Miscounts(refs, g, c, was) /\ saved' = saved
        /\ g \notin groups
    BY <1>4 DEF Updated
  <1>6. CountCoversMembers'
    BY <1>4, <1>5, UpdateCovers DEF IInv, CountCoversMembers, Covers
  <1>7. \A u \in Threads : request'[u].op = "build" => request'[u] = request[u]
    BY DEF Update, IInv, Typed, TypeOK, Idle
  <1>8. \A u \in Threads : request[u].op = "build" => request[u].group # g
    BY DEF Update, FreeGroups, Open
  <1>9. ASSUME NEW u \in Threads, request[u].op = "build",
               NEW h \in Groups, h = request[u].group
        PROVE  Sound(h)'
    <2>1. h # g /\ h \in Begun
      BY <1>8, <1>9 DEF Begun, Open
    <2>2. CASE h \in miscounted'
      BY <2>2 DEF Sound
    <2>3. CASE h \notin miscounted'
      <3>1. h \notin miscounted /\ h \notin Gone(refs, g, was)
        BY <1>5, <2>1, <2>3 DEF Miscounts
      <3>2. h \in groups
        BY <1>9, <3>1 DEF IInv, Filling, Sound, Covers
      <3>3. Covers(h)'
        BY <1>4, <1>5, <2>3, <3>1, <3>2, UpdateCovers DEF IInv
      <3>4. QED
        BY <3>3 DEF Sound
    <2>4. QED
      BY <2>2, <2>3
  <1>10. Filling'
    <2>1. ASSUME NEW u \in Threads, request'[u].op = "build",
                 NEW h \in Groups, h = request'[u].group
          PROVE  /\ request'[u].complaint \notin saved'
                 /\ Sound(h)'
                 /\ \A v \in Threads : v # u /\ request'[v].op = "build" =>
                       request'[v].complaint # request'[u].complaint
      <3>1. request'[u] = request[u] /\ request[u].op = "build" /\ h = request[u].group
        BY <1>7, <2>1
      <3>2. Sound(h)'
        BY <1>9, <3>1
      <3>3. QED
        BY <1>5, <1>7, <3>1, <3>2 DEF IInv, Filling
    <2>2. \A u \in Threads : request'[u].op = "build" => request'[u].group \in Groups
      BY <1>7, RequestGroup DEF IInv
    <2>3. QED
      BY <2>1, <2>2 DEF Filling
  <1>11. QED
    BY <1>6, <1>10

LEMMA NextCovers == IInv /\ [Next]_vars => IInv'
  <1> SUFFICES ASSUME IInv, [Next]_vars
               PROVE  CountCoversMembers' /\ Filling'
    BY NextTyped DEF IInv
  <1>1. CASE \E c \in Complaints : Create(c) \/ Destroy(c)
    BY <1>1, CreateCovers, DestroyCovers
  <1>2. CASE \E t \in Threads, c \in Complaints, refs \in SUBSET Complaints, g \in Groups :
               BuildGroup(t, c, refs, g)
    BY <1>2, BuildGroupCovers
  <1>3. CASE \E t \in Threads : \/ \E o \in Objects : MoveRef(t, o)
                                \/ SaveNew(t) \/ Abandon(t)
    BY <1>3, MoveRefStepCovers, SaveNewCovers, EndOrFindCovers
  <1>4. CASE \E t \in Threads, c \in Complaints : Find(t, c)
    BY <1>4, EndOrFindCovers
  <1>5. CASE \E t \in Threads, refs \in SUBSET Complaints, g \in Groups : Update(t, refs, g)
    BY <1>5, UpdateStepCovers
  <1>6. CASE UNCHANGED vars
    BY <1>6 DEF vars, IInv, CountCoversMembers, Filling, Sound, Covers, members
  <1>7. QED
    BY <1>1, <1>2, <1>3, <1>4, <1>5, <1>6 DEF Next

LEMMA InitCovers == Init => IInv
  <1> SUFFICES ASSUME Init
               PROVE  IInv
    OBVIOUS
  <1>1. \A t \in Threads : request[t].op = "idle"
    BY DEF Init, Idle
  <1>2. Filling
    BY <1>1 DEF Filling
  <1>3. CountCoversMembers
    BY DEF Init, CountCoversMembers, members
  <1>4. QED
    BY <1>2, <1>3, InitTyped DEF IInv

\* For any number of complaints, groups and threads, whatever creates stop where: the
\* counter that cleanup trusts never falls short of the complaints in the group,
\* unless the code lost count of it.
THEOREM CountAlwaysCovers == Spec => []CountCoversMembers
  <1>1. Spec => []IInv
    BY InitCovers, NextCovers, PTL DEF Spec
  <1>2. QED
    BY <1>1, PTL DEF IInv

-----------------------------------------------------------------------------
\* Who is parted, for requests that come one at a time.

\* A request that nothing else runs beside finds the rows as it left them.
LEMMA FreshWhenIdle ==
    ASSUME \A u \in Threads : request'[u].op = "idle"
    PROVE  Fresh'
  BY DEF Fresh

\* A create loads groups whole.
LEMMA BuildGroupFresh ==
    ASSUME Typed, OneAtATime, NEW t \in Threads, NEW c \in Complaints,
           NEW refs \in SUBSET Complaints, NEW g \in Groups, BuildGroup(t, c, refs, g)
    PROVE  Fresh'
  <1> DEFINE r == [op |-> "build", complaint |-> c, group |-> g, todo |-> LoadedObjects(refs)]
  <1>1. /\ refs \subseteq saved /\ g \in FreeGroups
        /\ request' = [request EXCEPT ![t] = r]
        /\ UNCHANGED <<saved, duplication_group_id>>
    BY DEF BuildGroup
  <1>2. r.op = "build" /\ r.group = g /\ r.todo = LoadedObjects(refs)
    OBVIOUS
  <1> HIDE DEF r
  <1>3. \A u \in Threads : u = t /\ request'[u] = r
    BY <1>1 DEF OneAtATime, Typed, TypeOK
  <1>4. members(g) = {} /\ NoGroup # g
    BY <1>1, GroupsAssumption DEF FreeGroups, members
  <1>5. ASSUME NEW o \in LoadedObjects(refs)
        PROVE  /\ o.complaint \in saved /\ o.group # g
               /\ duplication_group_id[o.complaint] = o.group
               /\ o.group # NoGroup => \A d \in members(o.group) :
                     \E u \in LoadedObjects(refs) : u.complaint = d /\ u.group = o.group
    <2>1. PICK w \in Loaded(refs) :
            o = [complaint |-> w[1], from |-> w[2], group |-> duplication_group_id[w[1]]]
      BY <1>5 DEF LoadedObjects
    <2>2. /\ w[1] \in saved /\ w[2] \in refs
          /\ w[1] = w[2] \/ SameGroup(w[1], w[2])
      BY DEF Loaded
    <2>3. /\ o.complaint = w[1] /\ o.group = duplication_group_id[w[1]]
          /\ o.group # g
      BY <1>4, <2>1, <2>2 DEF members
    <2>4. ASSUME o.group # NoGroup, NEW d \in members(o.group)
          PROVE  \E u \in LoadedObjects(refs) : u.complaint = d /\ u.group = o.group
      <3>1. d \in saved /\ SameGroup(d, w[2]) /\ duplication_group_id[d] = o.group
        BY <2>2, <2>3, <2>4 DEF members, SameGroup
      <3>2. <<d, w[2]>> \in Loaded(refs)
        BY <2>2, <3>1 DEF Loaded
      <3>3. [complaint |-> d, from |-> w[2], group |-> duplication_group_id[d]]
              \in LoadedObjects(refs)
        BY <3>2 DEF LoadedObjects
      <3>4. QED
        BY <3>1, <3>3
    <2>5. QED
      BY <2>2, <2>3, <2>4
  <1>6. QED
    BY <1>1, <1>2, <1>3, <1>5 DEF Fresh, Whole, members

\* A turn of the loop takes one complaint from its group; the others have objects of
\* their own.
LEMMA MoveRefFresh ==
    ASSUME Typed, Fresh, OneAtATime, NEW t \in Threads, NEW o \in Objects, MoveRef(t, o)
    PROVE  Fresh'
  <1>1. PICK r \in Builds, g \in Groups :
          /\ request[t].op = "build" /\ g = request[t].group
          /\ r.op = "build" /\ r.group = g /\ r.todo = request[t].todo \ {o}
          /\ request' = [request EXCEPT ![t] = r]
          /\ Rehoused(o, g)
    BY MoveRefParts
  <1>2. \A u \in Threads : u = t /\ request'[u] = r
    BY <1>1 DEF OneAtATime, Typed, TypeOK
  <1>3. saved' = saved /\ saved \subseteq Complaints
    BY <1>1 DEF Rehoused, Typed, TypeOK
  <1>4. \A c \in saved :
          duplication_group_id'[c] = IF c = o.complaint THEN g ELSE duplication_group_id[c]
    BY <1>1, <1>3 DEF Rehoused
  <1>5. ASSUME NEW w \in r.todo
        PROVE  /\ w.complaint \in saved /\ w.group # g
               /\ duplication_group_id'[w.complaint] \in {w.group, g}
               /\ w.group # NoGroup => \A c \in members(w.group)' :
                     \E u \in r.todo : u.complaint = c /\ u.group = w.group
    <2>1. /\ w \in request[t].todo
          /\ w.complaint \in saved /\ w.group # g
          /\ duplication_group_id[w.complaint] \in {w.group, g}
          /\ w.group # NoGroup => \A c \in members(w.group) :
                \E u \in request[t].todo : u.complaint = c /\ u.group = w.group
      BY <1>1, <1>5 DEF Fresh, Whole
    <2>2. ASSUME w.group # NoGroup, NEW c \in members(w.group)'
          PROVE  \E u \in r.todo : u.complaint = c /\ u.group = w.group
      <3>1. c \in saved /\ c # o.complaint /\ c \in members(w.group)
        BY <1>3, <1>4, <2>1, <2>2 DEF members
      <3>2. PICK u \in request[t].todo : u.complaint = c /\ u.group = w.group
        BY <2>1, <2>2, <3>1
      <3>3. u \in r.todo
        BY <1>1, <3>1, <3>2
      <3>4. QED
        BY <3>2, <3>3
    <2>3. QED
      BY <1>4, <2>1, <2>2
  <1>6. QED
    BY <1>1, <1>2, <1>3, <1>5 DEF Fresh, Whole, members

LEMMA NextFresh ==
    ASSUME OneAtATime
    PROVE  Typed /\ Fresh /\ [Next]_vars => Fresh'
  <1> SUFFICES ASSUME Typed, Fresh, [Next]_vars
               PROVE  Fresh'
    OBVIOUS
  <1>1. ASSUME NEW c \in Complaints, Create(c) \/ Destroy(c)
        PROVE  Fresh'
    <2>1. request' = request /\ \A u \in Threads : request[u].op = "idle"
      BY <1>1 DEF Create, Destroy, Serving, OneAtATime, Idle
    <2>2. QED
      BY <2>1, FreshWhenIdle
  <1>2. ASSUME NEW t \in Threads, NEW c \in Complaints, NEW refs \in SUBSET Complaints,
               NEW g \in Groups, BuildGroup(t, c, refs, g)
        PROVE  Fresh'
    BY <1>2, BuildGroupFresh
  <1>3. ASSUME NEW t \in Threads, NEW o \in Objects, MoveRef(t, o)
        PROVE  Fresh'
    BY <1>3, MoveRefFresh
  <1>4. ASSUME NEW t \in Threads,
               \/ SaveNew(t) \/ Abandon(t)
               \/ \E refs \in SUBSET Complaints, g \in Groups : Update(t, refs, g)
        PROVE  Fresh'
    <2>1. request' = [request EXCEPT ![t] = Idle]
      BY <1>4 DEF SaveNew, Abandon, Update
    <2>2. \A u \in Threads : request'[u].op = "idle"
      BY <2>1 DEF OneAtATime, Typed, TypeOK, Idle
    <2>3. QED
      BY <2>2, FreshWhenIdle
  <1>5. ASSUME NEW t \in Threads, NEW c \in Complaints, Find(t, c)
        PROVE  Fresh'
    <2>1. \A u \in Threads :
            /\ request'[u].op = "edit"
            /\ request'[u].group = duplication_group_id'[request'[u].complaint]
      BY <1>5 DEF Find, OneAtATime, Typed, TypeOK
    <2>2. QED
      BY <2>1 DEF Fresh
  <1>6. CASE UNCHANGED vars
    BY <1>6 DEF vars, Fresh, Whole, members
  <1>7. QED
    BY <1>1, <1>2, <1>3, <1>4, <1>5, <1>6 DEF Next

\* An update parts no two complaints that it does not have in hand, unless their group
\* is miscounted: what it moves it moves whole, and cleanup dissolves no group of two
\* that is counted.
LEMMA UpdatePartsNobody ==
    ASSUME IInv, NEW refs \in SUBSET Complaints, NEW g \in Groups, NEW c \in Complaints,
           NEW was, Updated(refs, g, c, was),
           NEW a \in saved, NEW b \in saved, a # b, a # c, b # c, SameGroup(a, b),
           duplication_group_id[a] \notin miscounted'
    PROVE  SameGroup(a, b)'
  <1>1. /\ a \in Complaints /\ b \in Complaints /\ refs \subseteq saved
        /\ duplication_group_id \in [Complaints -> Groups \cup {NoGroup}]
        /\ miscounted' = Miscounts(refs, g, c, was)
    BY DEF IInv, Typed, TypeOK, Updated
  <1>2. a \in Moved(refs) <=> b \in Moved(refs)
    <2>1. \A x, y \in saved : SameGroup(x, y) /\ x \in Moved(refs) => y \in Moved(refs)
      BY <1>1, MovesWhole DEF IInv, Typed
    <2>2. SameGroup(b, a)
      BY DEF SameGroup
    <2>3. QED
      BY <2>1, <2>2
  <1>3. PICK h \in Groups :
          /\ Column(refs, g, c)[a] = h /\ Column(refs, g, c)[b] = h
          /\ h = g \/ h = duplication_group_id[a]
    BY <1>1, <1>2 DEF Column, SameGroup
  <1>4. a \in Between(refs, g, c, h) /\ b \in Between(refs, g, c, h)
    BY <1>3 DEF Between
  <1>5. Count(refs, g, was)[h] # 1
    <2>1. h = g \/ h \notin Miscounts(refs, g, c, was)
      BY <1>1, <1>3
    <2>2. /\ Cardinality(Between(refs, g, c, h)) \in Nat \ {0}
          /\ Count(refs, g, was)[h] \in Int
          /\ Count(refs, g, was)[h] >= Cardinality(Between(refs, g, c, h))
          /\ Cardinality(Between(refs, g, c, h)) = 1 =>
               \E x : Between(refs, g, c, h) = {x}
      BY <1>4, <2>1, UpdateCounts DEF IInv
    <2>3. Cardinality(Between(refs, g, c, h)) # 1
      BY <1>4, <2>2
    <2>4. QED
      BY <2>2, <2>3
  <1>6. duplication_group_id'[a] = h /\ duplication_group_id'[b] = h
    BY <1>1, <1>3, <1>5 DEF Updated
  <1>7. QED
    BY <1>6, GroupsAssumption DEF SameGroup

\* What NeverParted says of complaints a and b.
Excused(a, b) ==
    \/ \E t \in Open("edit") : request'[t] = Idle /\ request[t].complaint \in {a, b}
    \/ \E t \in Open("build") :
          \E o \in request'[t].todo :
             o.complaint \in {a, b} /\ o.group = duplication_group_id[a]
    \/ duplication_group_id[a] \in miscounted'

\* A turn of the loop leaves behind only whom the loop still has before it.
LEMMA MoveRefExcused ==
    ASSUME Typed, Fresh, NEW t \in Threads, NEW o \in Objects, MoveRef(t, o),
           NEW a \in saved, NEW b \in saved, SameGroup(a, b), ~SameGroup(a, b)'
    PROVE  Excused(a, b)
  <1>1. PICK r \in Builds, g \in Groups :
          /\ request[t].op = "build" /\ g = request[t].group /\ o \in request[t].todo
          /\ r.op = "build" /\ r.group = g /\ r.todo = request[t].todo \ {o}
          /\ request' = [request EXCEPT ![t] = r]
          /\ Rehoused(o, g)
    BY MoveRefParts
  <1>2. request'[t] = r /\ t \in Open("build") /\ saved \subseteq Complaints
    BY <1>1 DEF Open, Typed, TypeOK
  <1>3. \A c \in saved :
          duplication_group_id'[c] = IF c = o.complaint THEN g ELSE duplication_group_id[c]
    BY <1>1, <1>2 DEF Rehoused
  <1>4. PICK h \in Groups : h = duplication_group_id[a] /\ h = duplication_group_id[b]
    BY <1>2 DEF SameGroup, Typed, TypeOK
  <1>5. PICK x \in {a, b} : x # o.complaint /\ o.complaint \in {a, b} /\ h # g
    BY <1>3, <1>4, GroupsAssumption DEF SameGroup
  <1>6. o.group = h /\ x \in members(h) /\ h # NoGroup
    <2>1. duplication_group_id[o.complaint] \in {o.group, g}
      BY <1>1 DEF Fresh, Whole
    <2>2. duplication_group_id[o.complaint] = h
      BY <1>4, <1>5
    <2>3. x \in members(h)
      BY <1>4, <1>5 DEF members
    <2>4. QED
      BY <1>5, <2>1, <2>2, <2>3, GroupsAssumption
  <1>7. PICK u \in request[t].todo : u.complaint = x /\ u.group = h
    BY <1>1, <1>6 DEF Fresh, Whole
  <1>8. u \in r.todo
    BY <1>1, <1>5, <1>7
  <1>9. QED
    BY <1>2, <1>4, <1>5, <1>7, <1>8 DEF Excused

\* For any number of complaints and groups, while requests come one at a time: no
\* request parts two complaints that stay, unless it updates one of them, has the
\* other still before it, or the code lost count of their group.
THEOREM AlwaysNeverParted ==
    ASSUME OneAtATime
    PROVE  Spec => NeverParted
  <1> DEFINE Kept ==
        \A c, d \in saved \cap saved' :
          (c # d /\ SameGroup(c, d) /\ ~SameGroup(c, d)')
              => \/ \E t \in Open("edit") : /\ request'[t] = Idle
                                            /\ request[t].complaint \in {c, d}
                 \/ \E t \in Open("build") :
                       \E o \in request'[t].todo :
                          o.complaint \in {c, d} /\ o.group = duplication_group_id[c]
                 \/ duplication_group_id[c] \in miscounted'
  <1>1. ASSUME IInv, Fresh, Next
        PROVE  Kept
    <2> SUFFICES ASSUME NEW a \in saved, NEW b \in saved, a \in saved', b \in saved', a # b,
                        SameGroup(a, b), ~SameGroup(a, b)'
                 PROVE  Excused(a, b)
      BY DEF Excused
    <2>1. /\ a \in Complaints /\ b \in Complaints
          /\ duplication_group_id \in [Complaints -> Groups \cup {NoGroup}]
      BY <1>1 DEF IInv, Typed, TypeOK
    <2>2. ~UNCHANGED duplication_group_id
      BY DEF SameGroup
    <2>3. ASSUME NEW c \in Complaints, Create(c) \/ Destroy(c)
          PROVE  FALSE
      BY <2>1, <2>2, <2>3 DEF Create, Destroy, SameGroup
    <2>4. ASSUME NEW t \in Threads, NEW o \in Objects, MoveRef(t, o)
          PROVE  Excused(a, b)
      BY <1>1, <2>4, MoveRefExcused DEF IInv
    <2>5. ASSUME NEW t \in Threads, SaveNew(t)
          PROVE  FALSE
      <3>1. request[t].complaint \notin saved
        BY <1>1, <2>5 DEF IInv, Filling, SaveNew
      <3>2. QED
        BY <2>1, <2>5, <3>1 DEF SaveNew, SameGroup
    <2>6. ASSUME NEW t \in Threads, NEW refs \in SUBSET Complaints, NEW g \in Groups,
                 Update(t, refs, g)
          PROVE  Excused(a, b)
      <3>1. t \in Open("edit") /\ request'[t] = Idle
        BY <1>1, <2>6 DEF Update, Open, IInv, Typed, TypeOK
      <3>2. Updated(refs, g, request[t].complaint, request[t].group)
        BY <1>1, <2>6, UpdateRows DEF IInv
      <3>3. request[t].complaint \in Complaints
        BY <1>1, <3>2 DEF Updated, IInv, Typed, TypeOK
      <3>4. CASE request[t].complaint \in {a, b}
        BY <3>1, <3>4 DEF Excused
      <3>5. CASE request[t].complaint \notin {a, b}
        <4>1. duplication_group_id[a] \in miscounted'
          BY <1>1, <3>2, <3>3, <3>5, UpdatePartsNobody
        <4>2. QED
          BY <4>1 DEF Excused
      <3>6. QED
        BY <3>4, <3>5
    <2>7. ASSUME NEW t \in Threads,
                 \/ Abandon(t)
                 \/ \E c \in Complaints : Find(t, c)
                 \/ \E c \in Complaints, refs \in SUBSET Complaints, g \in Groups :
                       BuildGroup(t, c, refs, g)
          PROVE  FALSE
      BY <2>2, <2>7 DEF Abandon, Find, BuildGroup
    <2>8. QED
      BY <1>1, <2>3, <2>4, <2>5, <2>6, <2>7 DEF Next
  <1>2. IInv /\ Fresh /\ [Next]_vars => [Kept]_vars
    BY <1>1
  <1>3. Init => IInv /\ Fresh
    <2>1. Init => \A t \in Threads : request[t].op = "idle"
      BY DEF Init, Idle
    <2>2. QED
      BY <2>1, InitCovers DEF Fresh
  <1>4. IInv /\ Fresh /\ [Next]_vars => IInv' /\ Fresh'
    BY NextCovers, NextFresh DEF IInv
  <1>5. Spec => [](IInv /\ Fresh)
    BY <1>3, <1>4, PTL DEF Spec
  <1>6. QED
    BY <1>2, <1>5, PTL DEF Spec, NeverParted
=============================================================================
