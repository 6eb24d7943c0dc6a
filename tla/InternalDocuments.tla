-------------------------- MODULE InternalDocuments --------------------------
(***************************************************************************)
(* Internal documents and the groups their revisions belong to.  A plain   *)
(* group lives as long as it has documents; an accreditation group is made *)
(* by the administrator for a title, and every document given that title   *)
(* joins it.  A request loads or reads first and writes later; the writes  *)
(* of one request are a transaction, and nothing in the schema keeps       *)
(* another request's transaction from coming in between.                   *)
(***************************************************************************)
EXTENDS Integers, FiniteSets, FiniteSetsExt, Functions

CONSTANTS
    Docs,         \* ids of documents; an id stands for a new row once destroyed
    Groups,       \* ids of groups, likewise
    Titles,       \* titles
    Threads,      \* server threads handling requests
    NoGroup,      \* no document_group_id
    MaxRevision,  \* bound: revisions told apart
    Explicit,     \* revisions users enter
    MaxDisturbed, \* bound: rows in `disturbed` when a request may begin
    MaxDrift      \* bound: how far a counter is followed away from 0..|Docs|

ASSUME DocsAssumption == IsFiniteSet(Docs)
ASSUME NoGroupAssumption == NoGroup \notin Groups
ASSUME BoundsAssumption == MaxRevision \in Nat \ {0} /\ {MaxDisturbed, MaxDrift} \subseteq Nat
ASSUME ExplicitAssumption == Explicit \subseteq 1..MaxRevision

VARIABLES
    doc,         \* rows of internal_documents
    groups,      \* rows of document_groups
    request,     \* what each thread has loaded or read
    configured,  \* history: titles the administrator has made a group for
    chosen,      \* history: documents whose revision was entered, was worked out too early, or
                 \* was brought to a group with other documents
    disturbed    \* history: documents and groups changed by a request that had read them before
                 \* another did, and groups between which an edit moved its document twice

vars == <<doc, groups, request, configured, chosen, disturbed>>

Idle == [op |-> "idle"]
Unspecified == 0   \* no revision entered
Revisions == 1..MaxRevision
Counts == (-MaxDrift)..(Cardinality(Docs) + MaxDrift)

saved == DOMAIN doc
rows == DOMAIN groups
Open == {t \in Threads : request[t] # Idle}

members(g) == {d \in saved : doc[d].group = g}

\* Ids that no row and no request refers to.
FreshDocs == {d \in Docs \ saved : \A t \in Open : request[t].doc # d}
FreshGroups ==
    {g \in Groups \ rows : members(g) = {} /\ \A t \in Open : request[t].row.group # g}

\* The accreditation groups that have a title
Accreditation(title) == {g \in rows : groups[g].accreditation /\ groups[g].title = title}

\* What DocumentGroup#primary may answer: a document with the highest revision.
\* Which one it is when several do, the order of the query leaves open.
primary(g) ==
    {d \in members(g) : g \in rows /\ \A e \in members(g) : doc[e].revision <= doc[d].revision}

\* The documents retitle_archive_docs updates when d of group g is saved.  The
\* primary is asked for twice: of the database, whether that is d; then, for each
\* document of the group loaded, of the list they were loaded into.  On a tie the
\* answers may differ: then d, loaded a second time, is among the documents
\* updated, and another stays behind.
Archives(d, g) ==
    {archive \in SUBSET members(g) :
        \/ archive = {} /\ primary(g) # {d}
        \/ d \in primary(g) /\ \E e \in primary(g) : archive = members(g) \ {e}}

\* Mutant of next_minor_revision: the number of documents, not the highest revision.
next_minor_revision_Counted(g) == groups[g].archive_doc_count + 1

\* DocumentGroup#next_minor_revision, whose empty? trusts the counter; it raises if
\* the counter is not 0 and there is no primary.
next_minor_revision(g) ==
    IF groups[g].archive_doc_count = 0 THEN 1
    ELSE Max({doc[d].revision : d \in members(g)}) + 1

Numbers(g) == g \in rows /\ (groups[g].archive_doc_count = 0 \/ members(g) # {})

\* The groups a document may be saved in: those of its title when the title is an
\* accreditation title; a new one if it is not but the document has been an
\* accreditation document; else the one it has.
Joins(title, accreditation, own) ==
    IF Accreditation(title) # {} THEN Accreditation(title)
    ELSE IF accreditation THEN FreshGroups
    ELSE {own}

\* document_groups with a row for g
WithRow(g, accreditation, title) ==
    [h \in rows \cup {g} |->
        IF h \in rows THEN groups[h]
        ELSE [accreditation |-> accreditation, title |-> title, archive_doc_count |-> 0]]

\* Counter cache: n documents leave group `from` and enter group `to`.
Recount(table, from, to, n) ==
    [g \in DOMAIN table |-> [table[g] EXCEPT !.archive_doc_count =
        @ + (IF g = to THEN n ELSE 0) - (IF g = from THEN n ELSE 0)]]

Bounded(table) == \A g \in DOMAIN table : table[g].archive_doc_count \in Counts

\* History, to which a step adds; that of rows which come or go is forgotten.
Record(choices, contentions) ==
    /\ chosen' = (chosen \cap saved \cap DOMAIN doc') \cup (choices \cap DOMAIN doc')
    /\ disturbed' = (disturbed \cap ((saved \cap DOMAIN doc') \cup (rows \cap DOMAIN groups')))
                        \cup contentions

-----------------------------------------------------------------------------
Init ==
    /\ doc = [d \in {} |-> 0]
    /\ groups = [g \in {} |-> 0]
    /\ request = [t \in Threads |-> Idle]
    /\ configured = {} /\ chosen = {} /\ disturbed = {}

\* AccreditationRequiredDocumentGroupsController#create, its title valid
ConfigureTitle(title) ==
    /\ Accreditation(title) = {}
    /\ \E g \in FreshGroups : groups' = WithRow(g, TRUE, title)
    /\ configured' = configured \cup {title}
    /\ UNCHANGED <<doc, request>>
    /\ Record({}, {})

\* Mutant of RemoveTitle: the group's documents are left where they are.
RemoveTitle_KeepsDocuments(title) ==
    /\ Accreditation(title) # {}
    /\ doc' = doc
    /\ groups' = Restrict(groups, rows \ Accreditation(title))
    /\ configured' = configured \ {title}
    /\ Record({}, {})
    /\ UNCHANGED request

\* AccreditationRequiredDocumentGroupsController#destroy, with the documents
RemoveTitle(title) ==
    /\ Accreditation(title) # {}
    /\ doc' = Restrict(doc, {d \in saved : doc[d].group \notin Accreditation(title)})
    /\ groups' = Restrict(groups, rows \ Accreditation(title))
    /\ configured' = configured \ {title}
    /\ Record({}, {})
    /\ UNCHANGED request

\* InternalDocumentsController#create up to the INSERT.  A revision of an
\* accreditation document is sent with the title of its group.
BeginUpload(t, title, own, revision) ==
    /\ request[t] = Idle /\ Cardinality(disturbed) <= MaxDisturbed
    /\ own \in rows \cup {NoGroup}
    /\ own \in rows /\ groups[own].accreditation => title = groups[own].title
    /\ \E d \in FreshDocs, g \in Joins(title, FALSE, own) :
          LET assigned == IF revision # Unspecified THEN revision
                          ELSE IF g = NoGroup THEN 1
                          ELSE next_minor_revision(g)
          IN  /\ revision = Unspecified /\ g # NoGroup => Numbers(g)
              /\ assigned <= MaxRevision
              /\ request' = [request EXCEPT ![t] =
                    [op |-> "upload", doc |-> d, unspecified |-> revision = Unspecified,
                     row |-> [group |-> g, title |-> title, revision |-> assigned,
                              accreditation |-> Accreditation(title) # {}]]]
    /\ UNCHANGED <<doc, groups, configured, chosen, disturbed>>

\* The INSERT and the counter, and before them that of a new group.
CommitUpload(t) ==
    /\ request[t].op = "upload"
    /\ LET r == request[t]
           late == r.row.group # NoGroup
                     /\ ~(Numbers(r.row.group) /\ r.row.revision = next_minor_revision(r.row.group))
       IN  \E g \in IF r.row.group = NoGroup THEN FreshGroups ELSE {r.row.group} :
              LET table == IF r.row.group = NoGroup THEN WithRow(g, FALSE, r.row.title) ELSE groups
              IN  /\ doc' = [d \in saved \cup {r.doc} |->
                        IF d = r.doc THEN [r.row EXCEPT !.group = g] ELSE doc[d]]
                  /\ groups' = Recount(table, NoGroup, g, 1)
                  /\ Bounded(groups')
                  /\ Record(IF r.unspecified /\ ~late THEN {} ELSE {r.doc},
                            IF g \in DOMAIN table THEN {} ELSE {r.doc})
    /\ request' = [request EXCEPT ![t] = Idle]
    /\ UNCHANGED configured

\* A document is loaded, to be edited or destroyed.
Find(t, d) ==
    /\ request[t] = Idle /\ Cardinality(disturbed) <= MaxDisturbed
    /\ d \in saved
    /\ request' = [request EXCEPT ![t] = [op |-> "find", doc |-> d, row |-> doc[d]]]
    /\ UNCHANGED <<doc, groups, configured, chosen, disturbed>>

\* What an UPDATE writes: the columns that differ from those loaded.
Written(row, loaded, edited) ==
    [c \in DOMAIN edited |-> IF edited[c] = loaded[c] THEN row[c] ELSE edited[c]]

\* Mutant of Retitled: the archive keeps its titles.
Retitled_Not(e, title, to) == [doc[e] EXCEPT !.group = to, !.accreditation = TRUE]

\* retitle_archive_docs, for one archive document
Retitled(e, title, to) ==
    [doc[e] EXCEPT !.group = to, !.title = title, !.accreditation = TRUE]

\* A document as it is once the archive has been retitled.
Arrived(e, archive, title, to) == IF e \in archive THEN Retitled(e, title, to) ELSE doc[e]

\* Mutant of Emptied: InternalDocument has no after_save.
Emptied_Never(loaded, to, docs) == FALSE

\* after_save of InternalDocument: the group left has no documents
Emptied(loaded, to, docs) ==
    to # loaded.group /\ \A e \in DOMAIN docs : docs[e].group # loaded.group

\* The writes of an edit: those to the archive, which is retitled first, and that of
\* the document; both callbacks then look at the group that was left.  If that is
\* missing, or its counter got to 0 before the last, or the first callback has just
\* destroyed it and an accreditation document has the second, the save raises: see
\* Rollback.
SaveEdited(d, loaded, edited, archive) ==
    LET to == edited.group
        docs == [e \in saved |->
                    IF e = d THEN Written(Arrived(d, archive, edited.title, to), loaded, edited)
                    ELSE Arrived(e, archive, edited.title, to)]
        leaves == to # loaded.group
        table == IF leaves
                 THEN Recount(IF to \in Groups THEN WithRow(to, TRUE, edited.title) ELSE groups,
                              loaded.group, to, Cardinality(archive) + 1)
                 ELSE groups
        emptied == Emptied(loaded, to, docs)
        dissolved == IF leaves /\ (emptied \/ (loaded.accreditation
                                      /\ table[loaded.group].archive_doc_count = 0))
                     THEN {loaded.group} ELSE {}
        stale == d \notin saved \/ doc[d] # loaded
        mixed == leaves /\ (members(to) # {} \/ loaded.group \in disturbed)
    IN  /\ leaves =>
             /\ loaded.group \in rows
             /\ loaded.accreditation =>
                  /\ ~emptied
                  /\ groups[loaded.group].archive_doc_count \notin 1..Cardinality(archive)
        /\ Bounded(table)
        /\ doc' = Restrict(docs, {e \in saved : docs[e].group \notin dissolved})
        /\ groups' = Restrict(table, DOMAIN table \ dissolved)
        /\ Record((IF mixed THEN archive \cup {d} ELSE {})
                     \cup (IF edited.revision # loaded.revision THEN {d} ELSE {}),
                  IF stale THEN {d, to, loaded.group} \cup {doc[e].group : e \in saved \cap {d}}
                  ELSE IF leaves /\ d \in archive THEN {to, loaded.group}
                  ELSE {})

\* InternalDocument#update, with a revision entered or the one it had.
CommitEdit(t, title, entered) ==
    /\ request[t].op = "find"
    /\ LET d == request[t].doc
           loaded == request[t].row
           accreditation == loaded.accreditation \/ Accreditation(title) # {}
       IN  \E to \in Joins(title, loaded.accreditation, loaded.group),
              archive \in IF accreditation THEN Archives(d, loaded.group) ELSE {{}} :
              SaveEdited(d, loaded,
                  [group |-> to, title |-> title,
                   revision |-> IF entered = Unspecified THEN loaded.revision ELSE entered,
                   accreditation |-> accreditation], archive)
    /\ request' = [request EXCEPT ![t] = Idle]
    /\ UNCHANGED configured

\* Mutant of Dissolves: accreditation groups go like the others.
Dissolves_Any(g, table) == g \in rows /\ table[g].archive_doc_count = 0

\* after_destroy of InternalDocument: the group goes once it is empty, by its counter.
Dissolves(g, table) ==
    g \in rows /\ ~groups[g].accreditation /\ table[g].archive_doc_count = 0

\* InternalDocument#destroy
CommitDestroy(t) ==
    /\ request[t].op = "find"
    /\ LET d == request[t].doc
           g == request[t].row.group
           table == IF d \in saved THEN Recount(groups, g, NoGroup, 1) ELSE groups
           dissolved == IF Dissolves(g, table) THEN {g} ELSE {}
       IN  /\ Bounded(table)
           /\ doc' = Restrict(doc, {e \in saved \ {d} : doc[e].group \notin dissolved})
           /\ groups' = Restrict(table, rows \ dissolved)
           /\ Record({}, IF d \in saved /\ doc[d].group # g THEN {g, doc[d].group} ELSE {})
    /\ request' = [request EXCEPT ![t] = Idle]
    /\ UNCHANGED configured

\* A request raises or is lost before it commits.
Rollback(t) ==
    /\ request[t] # Idle
    /\ request' = [request EXCEPT ![t] = Idle]
    /\ UNCHANGED <<doc, groups, configured, chosen, disturbed>>

Next ==
    \/ \E title \in Titles : ConfigureTitle(title) \/ RemoveTitle(title)
    \/ \E t \in Threads, title \in Titles, own \in Groups \cup {NoGroup},
          revision \in Explicit \cup {Unspecified} : BeginUpload(t, title, own, revision)
    \/ \E t \in Threads, d \in Docs : Find(t, d)
    \/ \E t \in Threads, title \in Titles, revision \in Explicit \cup {Unspecified} : CommitEdit(t, title, revision)
    \/ \E t \in Threads : CommitUpload(t) \/ CommitDestroy(t) \/ Rollback(t)

Spec == Init /\ [][Next]_vars

-----------------------------------------------------------------------------
TypeOK ==
    /\ saved \subseteq Docs /\ rows \subseteq Groups
    /\ \A d \in saved : doc[d] \in
          [group : Groups, title : Titles, revision : Revisions, accreditation : BOOLEAN]
    /\ \A g \in rows : groups[g] \in
          [accreditation : BOOLEAN, title : Titles, archive_doc_count : Counts]
    /\ \A t \in Threads : request[t].op \in {"idle", "upload", "find"}
    /\ configured \subseteq Titles /\ chosen \subseteq saved
    /\ disturbed \subseteq Docs \cup Groups

\* The counter that decides whether a group is empty, by which groups are dissolved
\* and revisions assigned, is the number of its documents; and whichever of upload,
\* edit, move with its primary and destroy came last, a plain group that is empty
\* is gone.  A group is out of account once requests that changed it overlapped, or
\* an edit of one of two documents with the highest revision counted that twice.
GroupsCounted ==
    \A g \in rows \ disturbed :
        /\ groups[g].archive_doc_count = Cardinality(members(g))
        /\ groups[g].accreditation \/ members(g) # {}

\* A document is in a group that exists, and so can be found on the page, unless
\* the group went while the document was being uploaded.
NoOrphan == \A d \in saved \ disturbed : doc[d].group \in rows

\* The documents of an accreditation group have its title and type, whether they
\* were uploaded to it, retitled or brought along by their primary.
SameTitle ==
    \A d \in saved \ disturbed :
        LET g == doc[d].group
        IN  g \in rows => /\ doc[d].accreditation = groups[g].accreditation
                          /\ groups[g].accreditation => doc[d].title = groups[g].title

\* Revisions worked out by next_minor_revision are not repeated in a group, whatever
\* was deleted or edited, came to the group or moved on with it meanwhile.
AssignedRevisionsDistinct ==
    \A d, e \in saved \ chosen :
        d # e /\ doc[d].group = doc[e].group /\ doc[d].group \notin disturbed
            => doc[d].revision # doc[e].revision

\* A group with a counter that can be trusted goes only when it should: an
\* accreditation group with its title, a plain one with its last document.
GroupsKept ==
    [][\A g \in rows \ (disturbed \cup disturbed') :
          g \notin rows' =>
              IF groups[g].accreditation THEN groups[g].title \notin configured'
              ELSE Cardinality(members(g) \ saved') <= 1]_vars

=============================================================================
