------------------------ MODULE InternalDocumentsProofs ------------------------
(***************************************************************************)
(* Documents are in groups that are there, with the titles of those and    *)
(* revisions of their own, and the counters by which groups are dissolved  *)
(* are right, for any number of documents, groups, titles and threads; but *)
(* for the rows that overlapping requests changed under one another and    *)
(* the groups between which an edit moved its document twice               *)
(* (`disturbed`).                                                          *)
(***************************************************************************)
EXTENDS InternalDocuments, BoundedSets, FiniteSetTheorems, TLAPS

-------------------------------------------------------------------------------
\* The inductive invariant.

Columns == {"group", "title", "revision", "accreditation"}

\* r has the columns of a document, its group being one of G.
IsDocument(r, G) ==
    /\ r = [column \in Columns |-> r[column]]
    /\ r.group \in G /\ r.title \in Titles
    /\ r.revision \in Revisions /\ r.accreditation \in BOOLEAN

IsGroup(r) ==
    /\ r = [accreditation |-> r.accreditation, title |-> r.title,
            archive_doc_count |-> r.archive_doc_count]
    /\ r.accreditation \in BOOLEAN /\ r.title \in Titles /\ r.archive_doc_count \in Int

IsRequest(r) ==
    \/ r = Idle
    \/ r.op = "upload" /\ r.doc \in Docs /\ IsDocument(r.row, Groups \cup {NoGroup})
    \/ r.op = "find" /\ r.doc \in Docs /\ IsDocument(r.row, Groups)

Typed ==
    /\ saved \subseteq Docs /\ rows \subseteq Groups
    /\ \A d \in saved : IsDocument(doc[d], Groups)
    /\ \A g \in rows : IsGroup(groups[g])
    /\ DOMAIN request = Threads
    /\ \A t \in Threads : IsRequest(request[t])

\* The id of a document that is being uploaded is nobody else's.
UploadsApart ==
    \A t \in Threads : request[t].op = "upload" =>
        /\ request[t].doc \notin saved
        /\ \A u \in Threads \ {t} : request[u] # Idle => request[u].doc # request[t].doc

\* r is as the group it is in, if that is there.
Fits(r, table) ==
    r.group \in DOMAIN table =>
        /\ r.accreditation = table[r.group].accreditation
        /\ table[r.group].accreditation => r.title = table[r.group].title

\* What is being uploaded fits, as groups stay what they are.
UploadsFit ==
    \A t \in Threads : request[t].op = "upload" =>
        /\ Fits(request[t].row, groups)
        /\ request[t].row.group = NoGroup => ~request[t].row.accreditation

Accredited(r, table) ==
    r.group \in DOMAIN table /\ table[r.group].accreditation => r.accreditation

\* A document in an accreditation group is an accreditation document, however
\* edits of it overlap, as nothing makes it a plain one again.
AccreditationStays ==
    /\ \A d \in saved : Accredited(doc[d], groups)
    /\ \A t \in Threads :
          request[t].op = "find" /\ request[t].doc \in saved /\ request[t].row.accreditation
             => doc[request[t].doc].accreditation

\* A document whose group went while it was uploaded has no revision to speak of.
OrphansChosen == \A d \in saved : doc[d].group \notin rows => d \in chosen

IInv ==
    /\ Typed /\ UploadsApart /\ UploadsFit /\ AccreditationStays
    /\ GroupsCounted /\ NoOrphan /\ SameTitle
    /\ OrphansChosen /\ AssignedRevisionsDistinct

-------------------------------------------------------------------------------
\* What a step does to the tables.

\* Groups stay what they are, and new ones have ids that nothing refers to.
GroupsStay ==
    /\ rows' \subseteq Groups
    /\ \A g \in rows' :
          /\ g \in rows \cup FreshGroups
          /\ IsGroup(groups'[g])
          /\ g \in rows => /\ groups'[g].accreditation = groups[g].accreditation
                           /\ groups'[g].title = groups[g].title

RequestsOnlyEnd ==
    DOMAIN request' = Threads /\ \A t \in Threads : request'[t] \in {Idle, request[t]}

\* Accreditation documents stay such, and new documents have ids of their own.
DocsStay ==
    \A d \in saved' :
        \/ d \in saved /\ (doc[d].accreditation => doc'[d].accreditation)
        \/ \A t \in Threads : request'[t] # Idle => request'[t].doc # d

\* Every document was left alone, and its group as well; or it is in a group that
\* it fits; or it is disturbed.
DocsFit ==
    \A d \in saved' :
        /\ d \in Docs /\ IsDocument(doc'[d], Groups)
        /\ \/ /\ d \in saved /\ doc'[d] = doc[d] /\ (d \in disturbed => d \in disturbed')
              /\ doc[d].group \in rows => doc[d].group \in rows'
           \/ doc'[d].group \in rows' /\ Fits(doc'[d], groups')
           \/ d \in disturbed' /\ Accredited(doc'[d], groups')

\* Every counter was left alone, and what it counts as well; or it is right; or
\* its group is disturbed.
CountsFit ==
    \A g \in rows' :
        \/ /\ g \in rows /\ (g \in disturbed => g \in disturbed')
           /\ members(g)' = members(g)
           /\ groups'[g].archive_doc_count = groups[g].archive_doc_count
        \/ /\ groups'[g].archive_doc_count = Cardinality(members(g)')
           /\ groups'[g].accreditation \/ members(g)' # {}
        \/ g \in disturbed'

\* A document with a revision that was worked out for where it is, was there with
\* that revision; or it was brought there with others of one group, to no others;
\* or it is new, alone, and its revision is new in its group.
RevisionsFit ==
    /\ \A g \in rows : g \in rows' /\ g \in disturbed => g \in disturbed'
    /\ \A d \in saved' \ chosen' :
          \/ /\ d \in saved \ chosen
             /\ doc'[d].group = doc[d].group /\ doc'[d].revision = doc[d].revision
             /\ doc[d].group \in rows => doc[d].group \in rows'
          \/ /\ d \in saved \ chosen /\ doc'[d].revision = doc[d].revision
             /\ doc'[d].group \in rows'
             /\ \/ doc'[d].group \in disturbed'
                \/ /\ doc[d].group \notin disturbed
                   /\ \A e \in saved' \ chosen' : doc'[e].group = doc'[d].group
                         => e \in saved /\ doc[e].group = doc[d].group
          \/ /\ saved' = saved \cup {d} /\ d \notin saved
             /\ doc'[d].group \in rows'
             /\ \/ doc'[d].group \in disturbed'
                \/ \A e \in saved : doc[e].group = doc'[d].group
                                     => doc[e].revision # doc'[d].revision

\* A group goes only when it should.
GroupsGo ==
    \A g \in rows \ (disturbed \cup disturbed') :
        g \notin rows' =>
            IF groups[g].accreditation THEN groups[g].title \notin configured'
            ELSE Cardinality(members(g) \ saved') <= 1

\* Together the others keep the invariant.
LEMMA StepKeeps ==
    ASSUME IInv, GroupsStay, RequestsOnlyEnd, DocsStay, DocsFit, CountsFit,
           RevisionsFit
    PROVE  IInv'
  <1>1. Typed'
    BY DEF IInv, Typed, GroupsStay, RequestsOnlyEnd, DocsFit, IsRequest
  <1>2. \A t \in Threads : request'[t] # Idle => request'[t] = request[t]
    BY DEF RequestsOnlyEnd
  <1>3. \A t \in Threads : request'[t].op # "idle" => request'[t] # Idle
    BY DEF Idle
  <1>4. UploadsApart'
    <2> SUFFICES ASSUME NEW t \in Threads, request'[t].op = "upload"
                 PROVE  /\ request'[t].doc \notin saved'
                        /\ \A u \in Threads \ {t} :
                              request'[u] # Idle => request'[u].doc # request'[t].doc
      BY DEF UploadsApart, Idle
    <2>1. request'[t] # Idle /\ request'[t] = request[t]
      BY <1>2, <1>3
    <2>2. QED
      BY <1>2, <2>1 DEF IInv, UploadsApart, DocsStay
  <1>5. \A t \in Threads : request'[t] # Idle =>
           \A g \in rows' : request[t].row.group = g => g \in rows
    BY <1>2 DEF GroupsStay, FreshGroups, Open
  <1>6. UploadsFit'
    <2> SUFFICES ASSUME NEW t \in Threads, request'[t].op = "upload"
                 PROVE  /\ Fits(request'[t].row, groups')
                        /\ request'[t].row.group = NoGroup => ~request'[t].row.accreditation
      BY DEF UploadsFit, Fits
    <2>1. request'[t] # Idle /\ request'[t] = request[t]
      BY <1>2, <1>3
    <2>2. QED
      BY <1>5, <2>1 DEF IInv, UploadsFit, GroupsStay, Fits, rows
  <1>7. AccreditationStays'
    <2>1. ASSUME NEW d \in saved'
          PROVE  Accredited(doc'[d], groups')
      <3>1. CASE /\ d \in saved /\ doc'[d] = doc[d]
                 /\ doc[d].group \in rows => doc[d].group \in rows'
        <4>1. doc[d].group \in rows' => doc[d].group \in rows
          BY <3>1 DEF GroupsStay, FreshGroups, members
        <4>2. Accredited(doc[d], groups)
          BY <3>1 DEF IInv, AccreditationStays
        <4>3. QED
          BY <3>1, <4>1, <4>2 DEF Accredited, GroupsStay, rows
      <3>2. CASE doc'[d].group \in rows' /\ Fits(doc'[d], groups')
        BY <3>2 DEF Fits, Accredited, rows
      <3>3. QED
        BY <3>1, <3>2 DEF DocsFit
    <2>2. ASSUME NEW t \in Threads, request'[t].op = "find", request'[t].doc \in saved',
                 request'[t].row.accreditation
          PROVE  doc'[request'[t].doc].accreditation
      <3>1. request'[t] # Idle /\ request'[t] = request[t]
        BY <1>2, <1>3, <2>2
      <3>2. QED
        BY <2>2, <3>1 DEF IInv, AccreditationStays, DocsStay
    <2>3. QED
      BY <2>1, <2>2 DEF AccreditationStays, Accredited
  <1>8. NoOrphan'
    BY DEF IInv, NoOrphan, DocsFit
  <1>9. SameTitle'
    <2> SUFFICES ASSUME NEW d \in saved' \ disturbed'
                 PROVE  Fits(doc'[d], groups')
      BY DEF SameTitle, Fits, rows
    <2>1. CASE /\ d \in saved /\ doc'[d] = doc[d] /\ (d \in disturbed => d \in disturbed')
               /\ doc[d].group \in rows => doc[d].group \in rows'
      <3>1. doc[d].group \in rows' => doc[d].group \in rows
        BY <2>1 DEF GroupsStay, FreshGroups, members
      <3>2. Fits(doc[d], groups)
        BY <2>1 DEF IInv, SameTitle, Fits, rows
      <3>3. QED
        BY <2>1, <3>1, <3>2 DEF Fits, GroupsStay, rows
    <2>2. QED
      BY <2>1 DEF DocsFit
  <1>10. GroupsCounted'
    BY DEF IInv, GroupsCounted, CountsFit, GroupsStay
  <1>11. OrphansChosen'
    BY DEF IInv, OrphansChosen, RevisionsFit
  <1>12. AssignedRevisionsDistinct'
    <2> SUFFICES ASSUME NEW d \in saved' \ chosen', NEW e \in saved' \ chosen', d # e,
                        doc'[d].group = doc'[e].group, doc'[d].group \notin disturbed',
                        doc'[d].revision = doc'[e].revision
                 PROVE  FALSE
      BY DEF AssignedRevisionsDistinct
    <2>1. ASSUME NEW x \in saved' \ chosen', x \in saved
          PROVE  x \notin chosen /\ doc'[x].revision = doc[x].revision
      BY <2>1 DEF RevisionsFit
    <2>2. CASE d \in saved /\ e \in saved
      <3>1. ASSUME NEW x \in {d, e}, doc'[x].group # doc[x].group
            PROVE  doc[d].group = doc[e].group /\ doc[d].group \notin disturbed
        <4>1. /\ doc[x].group \notin disturbed
              /\ \A y \in saved' \ chosen' : doc'[y].group = doc'[x].group
                    => y \in saved /\ doc[y].group = doc[x].group
          BY <2>2, <3>1 DEF RevisionsFit
        <4>2. doc[d].group = doc[x].group /\ doc[e].group = doc[x].group
          BY <4>1
        <4>3. QED
          BY <4>1, <4>2
      <3>2. CASE doc'[d].group = doc[d].group /\ doc'[e].group = doc[e].group
        <4>1. doc[d].group = doc[e].group
          BY <3>2
        <4>2. doc[d].group \in rows /\ doc[e].group \in rows
          BY <2>1, <2>2 DEF IInv, OrphansChosen
        <4>3. doc[d].group \in rows' => doc[d].group \notin disturbed
          BY <3>2, <4>2 DEF RevisionsFit
        <4>4. CASE doc[d].group \in rows'
          BY <2>1, <2>2, <4>1, <4>3, <4>4 DEF IInv, AssignedRevisionsDistinct
        <4>5. CASE doc[d].group \notin rows'
          BY <2>2, <3>2, <4>2, <4>5 DEF RevisionsFit
        <4>6. QED
          BY <4>4, <4>5
      <3>3. QED
        BY <2>1, <2>2, <3>1, <3>2 DEF IInv, AssignedRevisionsDistinct
    <2>3. CASE d \notin saved
      <3>1. e \in saved
        BY <2>3 DEF RevisionsFit
      <3>2. doc'[e].group = doc[e].group
        BY <2>3, <3>1 DEF RevisionsFit
      <3>3. QED
        BY <2>1, <2>3, <3>1, <3>2 DEF RevisionsFit
    <2>4. CASE e \notin saved
      <3>1. d \in saved
        BY <2>4 DEF RevisionsFit
      <3>2. doc'[d].group = doc[d].group
        BY <2>4, <3>1 DEF RevisionsFit
      <3>3. QED
        BY <2>1, <2>4, <3>1, <3>2 DEF RevisionsFit
    <2>5. QED
      BY <2>2, <2>3, <2>4
  <1>13. QED
    BY <1>1, <1>4, <1>6, <1>7, <1>8, <1>9, <1>10, <1>11, <1>12 DEF IInv

-------------------------------------------------------------------------------
\* Requests that begin.

\* A request that begins leaves the tables and the other requests alone.
LEMMA RequestKeeps ==
    ASSUME IInv, NEW t \in Threads, NEW r, request' = [request EXCEPT ![t] = r],
           UNCHANGED <<doc, groups, chosen, disturbed>>,
           IsRequest(r),
           r.op = "upload" => /\ r.doc \notin saved /\ \A u \in Open : request[u].doc # r.doc
                              /\ Fits(r.row, groups)
                              /\ r.row.group = NoGroup => ~r.row.accreditation,
           r.op = "find" => r.doc \in saved /\ r.row = doc[r.doc]
    PROVE  IInv'
  <1>1. DOMAIN request' = Threads
        /\ \A u \in Threads : request'[u] = IF u = t THEN r ELSE request[u]
    BY DEF IInv, Typed
  <1>2. saved' = saved /\ rows' = rows /\ \A g : members(g)' = members(g)
    BY DEF saved, rows, members
  <1>3. Typed'
    BY <1>1, <1>2 DEF IInv, Typed, IsRequest, Idle
  <1>4. r # Idle => r.op = "upload" \/ r.op = "find"
    BY DEF IsRequest
  <1>5. UploadsApart'
    <2> SUFFICES ASSUME NEW u \in Threads, request'[u].op = "upload"
                 PROVE  /\ request'[u].doc \notin saved
                        /\ \A v \in Threads \ {u} :
                              request'[v] # Idle => request'[v].doc # request'[u].doc
      BY <1>2 DEF UploadsApart, Idle
    <2>1. CASE u = t
      BY <1>1, <2>1 DEF Open
    <2>2. CASE u # t
      <3>1. request'[u] = request[u] /\ request[u] # Idle
        BY <1>1, <2>2 DEF Idle
      <3>2. r # Idle => r.doc # request[u].doc
        BY <1>4, <3>1 DEF IInv, UploadsApart, Open
      <3>3. QED
        BY <1>1, <2>2, <3>1, <3>2 DEF IInv, UploadsApart
    <2>3. QED
      BY <2>1, <2>2
  <1>6. UploadsFit'
    BY <1>1, <1>2 DEF IInv, UploadsFit, Fits
  <1>7. AccreditationStays'
    BY <1>1, <1>2 DEF IInv, AccreditationStays, Accredited
  <1>8. GroupsCounted' /\ NoOrphan' /\ SameTitle' /\ OrphansChosen' /\ AssignedRevisionsDistinct'
    BY <1>2 DEF IInv, GroupsCounted, NoOrphan, SameTitle, OrphansChosen, AssignedRevisionsDistinct
  <1>9. QED
    BY <1>3, <1>5, <1>6, <1>7, <1>8 DEF IInv

\* The next revision is above those of the group, if the counter says whether
\* there are any.
LEMMA NextMinorIs ==
    ASSUME Typed, NEW g, Numbers(g)
    PROVE  next_minor_revision(g) \in Nat \ {0}
           /\ ((groups[g].archive_doc_count = 0 => members(g) = {}) =>
                 \A d \in members(g) : doc[d].revision < next_minor_revision(g))
  <1>1. CASE groups[g].archive_doc_count = 0
    BY <1>1 DEF next_minor_revision
  <1>2. CASE groups[g].archive_doc_count # 0
    <2> DEFINE revs == {doc[d].revision : d \in members(g)}
    <2>1. revs # {}
      BY <1>2 DEF Numbers
    <2>2. \A d \in members(g) : doc[d].revision \in 1 .. MaxRevision
      BY DEF Typed, members, IsDocument, Revisions
    <2>3. MaxRevision \in Nat
      BY BoundsAssumption
    <2>4. \A x \in revs : x \in 0 .. MaxRevision
      BY <2>2, <2>3
    <2>5. next_minor_revision(g) = Max(revs) + 1
      BY <1>2 DEF next_minor_revision
    <2>6. \A d \in members(g) : doc[d].revision \in revs
      OBVIOUS
    <2> HIDE DEF revs
    <2>7. revs \subseteq 0 .. MaxRevision
      BY <2>4
    <2>8. \E x \in revs : \A y \in revs : y <= x
      BY <2>1, <2>3, <2>7, Greatest
    <2>9. Max(revs) \in revs /\ \A y \in revs : y <= Max(revs)
      BY <2>8 DEF Max
    <2>10. PICK top : top = Max(revs)
      OBVIOUS
    <2>11. top \in Nat /\ next_minor_revision(g) = top + 1
      BY <2>4, <2>5, <2>9, <2>10
    <2>12. \A d \in members(g) : doc[d].revision <= top /\ doc[d].revision \in Int
      BY <2>4, <2>6, <2>9, <2>10
    <2>13. QED
      BY <2>11, <2>12
  <1>3. QED
    BY <1>1, <1>2

\* An upload begins with a new id and a group that its type and title are of.
LEMMA BeginUploadKeeps ==
    ASSUME IInv, NEW t \in Threads, NEW title \in Titles, NEW own \in Groups \cup {NoGroup},
           NEW revision \in Explicit \cup {Unspecified}, BeginUpload(t, title, own, revision)
    PROVE  IInv'
  <1> DEFINE number(h) == IF revision # Unspecified THEN revision
                          ELSE IF h = NoGroup THEN 1 ELSE next_minor_revision(h)
  <1>1. PICK d \in FreshDocs, g \in Joins(title, FALSE, own) :
            /\ revision = Unspecified /\ g # NoGroup => Numbers(g)
            /\ number(g) <= MaxRevision
            /\ request' = [request EXCEPT ![t] =
                [op |-> "upload", doc |-> d, unspecified |-> revision = Unspecified,
                 row |-> [group |-> g, title |-> title, revision |-> number(g),
                          accreditation |-> Accreditation(title) # {}]]]
    BY Zenon DEF BeginUpload
  <1>2. PICK assigned : assigned = number(g)
    OBVIOUS
  <1>3. assigned \in Revisions
    <2>1. CASE revision # Unspecified
      BY <1>2, <2>1, ExplicitAssumption DEF Revisions
    <2>2. CASE revision = Unspecified /\ g = NoGroup
      BY <1>2, <2>2, BoundsAssumption DEF Revisions
    <2>3. CASE revision = Unspecified /\ g # NoGroup
      <3>1. assigned = next_minor_revision(g) /\ Numbers(g)
        BY <1>2, <1>1, <2>3
      <3>2. next_minor_revision(g) \in Nat \ {0}
        BY <3>1, NextMinorIs DEF IInv
      <3>3. QED
        BY <1>2, <1>1, <3>1, <3>2, BoundsAssumption DEF Revisions
    <2>4. QED
      BY <2>1, <2>2, <2>3
  <1> HIDE DEF number
  <1> DEFINE row == [group |-> g, title |-> title, revision |-> assigned,
                     accreditation |-> Accreditation(title) # {}]
             r == [op |-> "upload", doc |-> d, unspecified |-> revision = Unspecified, row |-> row]
  <1>4. /\ own \in rows \cup {NoGroup}
        /\ own \in rows /\ groups[own].accreditation => title = groups[own].title
        /\ UNCHANGED <<doc, groups, chosen, disturbed>>
    BY DEF BeginUpload
  <1>5. \/ Accreditation(title) # {} /\ g \in Accreditation(title)
        \/ Accreditation(title) = {} /\ g = own
    BY DEF Joins
  <1>6. row = [column \in Columns |-> row[column]]
    BY DEF Columns
  <1>7. /\ row.group = g /\ row.title = title /\ row.revision = assigned
        /\ row.accreditation = (Accreditation(title) # {})
    OBVIOUS
  <1>8. r.op = "upload" /\ r.doc = d /\ r.row = row
    OBVIOUS
  <1>9. request' = [request EXCEPT ![t] = r]
    BY <1>2, <1>1
  <1> HIDE DEF row, r
  <1>10. IsDocument(row, Groups \cup {NoGroup})
    <2>1. g \in Groups \cup {NoGroup}
      BY <1>5 DEF Accreditation, IInv, Typed
    <2>2. QED
      BY <1>6, <1>7, <1>3, <2>1 DEF IsDocument
  <1>11. d \in Docs /\ d \notin saved /\ \A u \in Open : request[u].doc # d
    BY DEF FreshDocs
  <1>12. IsRequest(r)
    BY <1>8, <1>10, <1>11 DEF IsRequest
  <1>13. Fits(row, groups)
    <2>1. CASE Accreditation(title) # {} /\ g \in Accreditation(title)
      BY <2>1, <1>7 DEF Fits, Accreditation
    <2>2. CASE Accreditation(title) = {} /\ g = own
      <3>1. g \in rows => ~groups[g].accreditation
        <4> SUFFICES ASSUME g \in rows, groups[g].accreditation
                     PROVE  FALSE
          BY DEF IInv, Typed, IsGroup
        <4>1. g \in Accreditation(title)
          BY <1>4, <2>2 DEF Accreditation
        <4>2. QED
          BY <2>2, <4>1
      <3>2. g \in rows => groups[g].accreditation \in BOOLEAN
        BY DEF IInv, Typed, IsGroup
      <3>3. QED
        BY <1>7, <2>2, <3>1, <3>2 DEF Fits, rows
    <2>3. QED
      BY <1>5, <2>1, <2>2
  <1>14. row.group = NoGroup => ~row.accreditation
    <2>1. NoGroup \notin Accreditation(title)
      BY NoGroupAssumption DEF Accreditation, IInv, Typed
    <2>2. QED
      BY <1>5, <1>7, <2>1
  <1>15. r.op # "find"
    BY <1>8
  <1>16. QED
    BY <1>4, <1>8, <1>9, <1>11, <1>12, <1>13, <1>14, <1>15, RequestKeeps

\* A document is loaded as it is.
LEMMA FindKeeps ==
    ASSUME IInv, NEW t \in Threads, NEW d \in Docs, Find(t, d)
    PROVE  IInv'
  <1> DEFINE r == [op |-> "find", doc |-> d, row |-> doc[d]]
  <1>1. /\ d \in saved /\ request' = [request EXCEPT ![t] = r]
        /\ UNCHANGED <<doc, groups, chosen, disturbed>>
    BY DEF Find
  <1>2. r.op = "find" /\ r.doc = d /\ r.row = doc[d]
    OBVIOUS
  <1> HIDE DEF r
  <1>3. IsRequest(r)
    BY <1>1, <1>2 DEF IsRequest, IInv, Typed
  <1>4. QED
    BY <1>1, <1>2, <1>3, RequestKeeps

\* A request that is given up.
LEMMA RollbackKeeps ==
    ASSUME IInv, NEW t \in Threads, Rollback(t)
    PROVE  IInv'
  <1>1. IsRequest(Idle) /\ Idle.op = "idle"
    BY DEF IsRequest, Idle
  <1>2. request' = [request EXCEPT ![t] = Idle] /\ UNCHANGED <<doc, groups, chosen, disturbed>>
    BY DEF Rollback
  <1>3. QED
    BY <1>1, <1>2, RequestKeeps

\* A step that changes nothing.
LEMMA StutterKeeps ==
    ASSUME IInv, UNCHANGED vars
    PROVE  IInv'
  <1>1. UNCHANGED <<doc, groups, request, chosen, disturbed>>
    BY DEF vars
  <1>2. saved' = saved /\ rows' = rows /\ \A g : members(g)' = members(g)
    BY <1>1 DEF saved, rows, members
  <1>3. Typed' /\ UploadsApart' /\ UploadsFit'
    BY <1>1, <1>2 DEF IInv, Typed, UploadsApart, UploadsFit, IsRequest, Idle
  <1>4. AccreditationStays' /\ GroupsCounted' /\ NoOrphan' /\ SameTitle'
    BY <1>1, <1>2 DEF IInv, AccreditationStays, GroupsCounted, NoOrphan, SameTitle
  <1>5. OrphansChosen' /\ AssignedRevisionsDistinct'
    BY <1>1, <1>2 DEF IInv, OrphansChosen, AssignedRevisionsDistinct
  <1>6. QED
    BY <1>3, <1>4, <1>5 DEF IInv

-------------------------------------------------------------------------------
\* The administrator's requests.

\* What is recorded of rows that stay is kept, and what a step adds is there.
LEMMA Recorded ==
    ASSUME NEW choices, NEW contentions, Record(choices, contentions)
    PROVE  /\ \A d \in saved : d \in saved' /\ d \in disturbed => d \in disturbed'
           /\ \A g \in rows : g \in rows' /\ g \in disturbed => g \in disturbed'
           /\ contentions \subseteq disturbed'
           /\ \A d \in saved : d \in saved' /\ d \in chosen => d \in chosen'
           /\ \A d \in saved' : d \in choices => d \in chosen'
  BY DEF Record, saved, rows

\* A group is made, for a title that has none; it is empty.
LEMMA ConfigureTitleKeeps ==
    ASSUME IInv, NEW title \in Titles, ConfigureTitle(title)
    PROVE  IInv'
  <1>1. PICK g \in FreshGroups : groups' = WithRow(g, TRUE, title)
    BY DEF ConfigureTitle
  <1>2. UNCHANGED <<doc, request>> /\ Record({}, {})
    BY DEF ConfigureTitle
  <1>3. g \in Groups /\ g \notin rows /\ members(g) = {}
    BY DEF FreshGroups
  <1>4. /\ rows' = rows \cup {g}
        /\ \A h \in rows : groups'[h] = groups[h]
        /\ groups'[g] = [accreditation |-> TRUE, title |-> title, archive_doc_count |-> 0]
    BY <1>1, <1>3 DEF WithRow, rows
  <1>5. saved' = saved /\ \A h : members(h)' = members(h)
    BY <1>2 DEF saved, members
  <1>6. GroupsStay
    <2>1. IsGroup(groups'[g])
      BY <1>4 DEF IsGroup
    <2>2. QED
      BY <1>3, <1>4, <2>1 DEF GroupsStay, IInv, Typed
  <1>7. RequestsOnlyEnd /\ DocsStay
    BY <1>2, <1>5 DEF RequestsOnlyEnd, DocsStay, IInv, Typed
  <1>8. DocsFit
    BY <1>2, <1>4, <1>5, Recorded DEF DocsFit, IInv, Typed
  <1>9. CountsFit
    <2>1. Cardinality({}) = 0
      BY FS_EmptySet
    <2>2. /\ groups'[g].archive_doc_count = Cardinality(members(g)')
          /\ groups'[g].accreditation
      BY <1>3, <1>4, <1>5, <2>1
    <2>3. QED
      BY <1>2, <1>4, <1>5, <2>2, Recorded DEF CountsFit
  <1>10. RevisionsFit
    BY <1>2, <1>4, <1>5, Recorded DEF RevisionsFit
  <1>11. QED
    BY <1>6, <1>7, <1>8, <1>9, <1>10, StepKeeps

\* A group goes, and with it the documents that are in it.
LEMMA RemoveTitleKeeps ==
    ASSUME IInv, NEW title \in Titles, RemoveTitle(title)
    PROVE  IInv' /\ GroupsGo
  <1> DEFINE gone == Accreditation(title)
  <1>1. /\ doc' = Restrict(doc, {d \in saved : doc[d].group \notin gone})
        /\ groups' = Restrict(groups, rows \ gone)
        /\ UNCHANGED request /\ Record({}, {})
    BY DEF RemoveTitle
  <1> HIDE DEF gone
  <1>2. /\ saved' = {d \in saved : doc[d].group \notin gone}
        /\ \A d \in saved' : doc'[d] = doc[d]
        /\ rows' = rows \ gone
        /\ \A g \in rows' : groups'[g] = groups[g]
    BY <1>1 DEF Restrict, saved, rows
  <1>3. \A g \in rows' : members(g)' = members(g)
    BY <1>2 DEF members
  <1>4. GroupsStay
    BY <1>2 DEF GroupsStay, IInv, Typed
  <1>5. RequestsOnlyEnd /\ DocsStay
    BY <1>1, <1>2 DEF RequestsOnlyEnd, DocsStay, IInv, Typed
  <1>6. DocsFit
    BY <1>1, <1>2, Recorded DEF DocsFit, IInv, Typed
  <1>7. CountsFit
    BY <1>1, <1>2, <1>3, Recorded DEF CountsFit
  <1>8. GroupsGo
    <2>1. \A g \in gone : groups[g].accreditation /\ groups[g].title = title
      BY DEF gone, Accreditation
    <2>2. title \notin configured'
      BY DEF RemoveTitle
    <2>3. QED
      BY <1>2, <2>1, <2>2 DEF GroupsGo
  <1>9. RevisionsFit
    BY <1>1, <1>2, Recorded DEF RevisionsFit
  <1>10. QED
    BY <1>4, <1>5, <1>6, <1>7, <1>8, <1>9, StepKeeps

-------------------------------------------------------------------------------
\* Counting.

LEMMA MembersFinite ==
    ASSUME Typed, NEW g
    PROVE  IsFiniteSet(members(g)) /\ Cardinality(members(g)) \in Nat
  <1>1. members(g) \subseteq Docs
    BY DEF members, Typed
  <1>2. IsFiniteSet(members(g))
    BY <1>1, DocsAssumption, FS_Subset
  <1>3. QED
    BY <1>2, FS_CardinalityType

\* A recount moves counters and nothing else.
LEMMA RecountIs ==
    ASSUME NEW table, \A g \in DOMAIN table : IsGroup(table[g]),
           NEW from, NEW to, NEW n \in Int
    PROVE  /\ DOMAIN Recount(table, from, to, n) = DOMAIN table
           /\ \A g \in DOMAIN table :
                 /\ IsGroup(Recount(table, from, to, n)[g])
                 /\ Recount(table, from, to, n)[g].accreditation = table[g].accreditation
                 /\ Recount(table, from, to, n)[g].title = table[g].title
                 /\ Recount(table, from, to, n)[g].archive_doc_count =
                       table[g].archive_doc_count
                          + (IF g = to THEN n ELSE 0) - (IF g = from THEN n ELSE 0)
  <1> SUFFICES ASSUME NEW g \in DOMAIN table
               PROVE  LET count == table[g].archive_doc_count
                                      + (IF g = to THEN n ELSE 0) - (IF g = from THEN n ELSE 0)
                          new   == [table[g] EXCEPT !.archive_doc_count = count]
                      IN  /\ IsGroup(new)
                          /\ new.accreditation = table[g].accreditation
                          /\ new.title = table[g].title
                          /\ new.archive_doc_count = count
    BY DEF Recount
  <1> DEFINE count == table[g].archive_doc_count
                         + (IF g = to THEN n ELSE 0) - (IF g = from THEN n ELSE 0)
  <1>1. count \in Int /\ IsGroup(table[g])
    BY DEF IsGroup
  <1> HIDE DEF count
  <1>2. QED
    BY <1>1 DEF IsGroup

-------------------------------------------------------------------------------
\* A document is destroyed, and a plain group with its last one.
LEMMA CommitDestroyKeeps ==
    ASSUME IInv, NEW t \in Threads, CommitDestroy(t)
    PROVE  IInv' /\ GroupsGo
  <1> DEFINE d == request[t].doc
             g == request[t].row.group
             table == IF d \in saved THEN Recount(groups, g, NoGroup, 1) ELSE groups
             gone == IF Dissolves(g, table) THEN {g} ELSE {}
  <1>1. /\ doc' = Restrict(doc, {e \in saved \ {d} : doc[e].group \notin gone})
        /\ groups' = Restrict(table, rows \ gone)
        /\ Record({}, IF d \in saved /\ doc[d].group # g THEN {g, doc[d].group} ELSE {})
        /\ request' = [request EXCEPT ![t] = Idle]
    BY DEF CommitDestroy
  <1> HIDE DEF d, g
  <1>2. NoGroup \notin rows
    BY NoGroupAssumption DEF IInv, Typed
  <1>3. /\ DOMAIN table = rows
        /\ \A h \in rows :
              /\ IsGroup(table[h])
              /\ table[h].accreditation = groups[h].accreditation
              /\ table[h].title = groups[h].title
              /\ table[h].archive_doc_count = groups[h].archive_doc_count
                    - (IF d \in saved /\ h = g THEN 1 ELSE 0)
    <2>1. \A h \in DOMAIN groups : IsGroup(groups[h])
      BY DEF IInv, Typed, rows
    <2>2. CASE d \in saved
      BY <1>2, <2>1, <2>2, RecountIs DEF rows, IsGroup
    <2>3. CASE d \notin saved
      BY <2>1, <2>3 DEF rows, IsGroup
    <2>4. QED
      BY <2>2, <2>3
  <1>4. gone \subseteq {g} /\ (g \in rows /\ g \notin gone =>
            groups[g].accreditation \/ table[g].archive_doc_count # 0)
        /\ \A h \in gone : h = g /\ ~groups[h].accreditation /\ table[h].archive_doc_count = 0
    BY DEF Dissolves
  <1> HIDE DEF table, gone
  <1>5. /\ saved' = {e \in saved \ {d} : doc[e].group \notin gone}
        /\ \A e \in saved' : doc'[e] = doc[e]
        /\ rows' = rows \ gone
        /\ \A h \in rows' : groups'[h] = table[h]
    BY <1>1, <1>3 DEF Restrict, saved, rows
  <1>6. GroupsStay
    BY <1>3, <1>5 DEF GroupsStay, IInv, Typed
  <1>7. RequestsOnlyEnd /\ DocsStay
    BY <1>1, <1>5 DEF RequestsOnlyEnd, DocsStay, IInv, Typed
  <1>8. DocsFit
    BY <1>1, <1>5, Recorded DEF DocsFit, IInv, Typed
  <1>9. CountsFit
    <2> SUFFICES ASSUME NEW h \in rows', h \notin disturbed'
                 PROVE  \/ /\ h \in rows /\ (h \in disturbed => h \in disturbed')
                           /\ members(h)' = members(h)
                           /\ groups'[h].archive_doc_count = groups[h].archive_doc_count
                        \/ /\ groups'[h].archive_doc_count = Cardinality(members(h)')
                           /\ groups'[h].accreditation \/ members(h)' # {}
      BY DEF CountsFit
    <2>1. h \in rows /\ h \notin gone /\ h \notin disturbed
      BY <1>1, <1>5, Recorded
    <2>2. members(h)' = members(h) \ {d}
      BY <1>5, <2>1 DEF members
    <2>3. groups[h].archive_doc_count \in Int
      BY <2>1 DEF IInv, Typed, IsGroup
    <2>4. CASE d \in saved /\ doc[d].group = g /\ h = g
      <3>1. d \in members(g)
        BY <2>4 DEF members
      <3>2. groups[g].archive_doc_count = Cardinality(members(g))
        BY <2>1, <2>4 DEF IInv, GroupsCounted
      <3>3. /\ IsFiniteSet(members(g) \ {d})
            /\ Cardinality(members(g) \ {d}) = Cardinality(members(g)) - 1
        BY <3>1, MembersFinite, FS_RemoveElement DEF IInv
      <3>4. groups'[g].archive_doc_count = Cardinality(members(h)')
        BY <1>3, <1>5, <2>1, <2>2, <2>4, <3>2, <3>3
      <3>5. groups'[g].accreditation \/ Cardinality(members(h)') # 0
        BY <1>3, <1>4, <1>5, <2>1, <2>4, <3>4
      <3>6. groups'[g].accreditation \/ members(h)' # {}
        BY <3>5, FS_EmptySet
      <3>7. QED
        BY <2>4, <3>4, <3>6
    <2>5. CASE d \notin saved \/ doc[d].group # h
      <3>1. members(h)' = members(h)
        BY <2>2, <2>5 DEF members
      <3>2. groups'[h].archive_doc_count = groups[h].archive_doc_count
        <4>1. ~(d \in saved /\ h = g)
          BY <1>1, <2>1, <2>5, Recorded
        <4>2. QED
          BY <1>3, <1>5, <2>1, <2>3, <4>1
      <3>3. QED
        BY <2>1, <3>1, <3>2
    <2>6. CASE d \in saved /\ doc[d].group # g
      <3>1. h # g /\ h # doc[d].group
        BY <1>1, <2>6, Recorded
      <3>2. QED
        BY <2>5, <3>1
    <2>7. QED
      BY <2>4, <2>5, <2>6
  <1>10. GroupsGo
    <2> SUFFICES ASSUME NEW h \in rows \ (disturbed \cup disturbed'), h \notin rows'
                 PROVE  ~groups[h].accreditation /\ Cardinality(members(h) \ saved') <= 1
      BY DEF GroupsGo
    <2>1. h = g /\ ~groups[h].accreditation /\ table[h].archive_doc_count = 0
      BY <1>4, <1>5
    <2>2. groups[h].archive_doc_count = Cardinality(members(h))
      BY DEF IInv, GroupsCounted
    <2>3. Cardinality(members(h)) <= 1
      BY <1>3, <2>1, <2>2, MembersFinite DEF IInv
    <2>4. Cardinality(members(h) \ saved') <= Cardinality(members(h))
      BY MembersFinite, FS_Subset DEF IInv
    <2>5. Cardinality(members(h) \ saved') \in Nat /\ Cardinality(members(h)) \in Nat
      BY MembersFinite, FS_Subset, FS_CardinalityType DEF IInv
    <2>6. QED
      BY <2>1, <2>3, <2>4, <2>5
  <1>11. RevisionsFit
    BY <1>1, <1>5, Recorded DEF RevisionsFit
  <1>12. QED
    BY <1>6, <1>7, <1>8, <1>9, <1>10, <1>11, StepKeeps

-------------------------------------------------------------------------------
\* A document enters its group, or a new one, or, if its group has gone
\* meanwhile, the table alone: then it is disturbed.
LEMMA CommitUploadKeeps ==
    ASSUME IInv, NEW t \in Threads, CommitUpload(t)
    PROVE  IInv'
  <1> DEFINE r == request[t]
             late == r.row.group # NoGroup
                       /\ ~(Numbers(r.row.group) /\ r.row.revision = next_minor_revision(r.row.group))
             table(h) == IF r.row.group = NoGroup THEN WithRow(h, FALSE, r.row.title) ELSE groups
  <1>1. PICK g \in IF r.row.group = NoGroup THEN FreshGroups ELSE {r.row.group} :
            /\ doc' = [d \in saved \cup {r.doc} |->
                  IF d = r.doc THEN [r.row EXCEPT !.group = g] ELSE doc[d]]
            /\ groups' = Recount(table(g), NoGroup, g, 1)
            /\ Record(IF r.unspecified /\ ~late THEN {} ELSE {r.doc},
                      IF g \in DOMAIN table(g) THEN {} ELSE {r.doc})
    BY DEF CommitUpload
  <1>2. r.op = "upload" /\ request' = [request EXCEPT ![t] = Idle]
    BY DEF CommitUpload
  <1> DEFINE base == table(g)
             k == r.doc
             new == [r.row EXCEPT !.group = g]
  <1>3. r # Idle
    BY <1>2 DEF Idle
  <1>4. /\ k \in Docs /\ k \notin saved
        /\ IsDocument(r.row, Groups \cup {NoGroup})
        /\ \A u \in Threads \ {t} : request[u] # Idle => request[u].doc # k
        /\ Fits(r.row, groups)
        /\ r.row.group = NoGroup => ~r.row.accreditation
    BY <1>2, <1>3 DEF IInv, Typed, IsRequest, UploadsApart, UploadsFit
  <1>5. /\ NoGroup \notin rows /\ NoGroup \notin Groups /\ g \in Groups
        /\ r.row.group = NoGroup => g \in FreshGroups /\ g \notin rows /\ members(g) = {}
        /\ r.row.group # NoGroup => g = r.row.group
    BY <1>4, NoGroupAssumption DEF IInv, Typed, FreshGroups, IsDocument
  <1>6. /\ new.group = g /\ new.title = r.row.title /\ new.accreditation = r.row.accreditation
        /\ new.revision = r.row.revision
        /\ IsDocument(new, Groups)
    BY <1>4, <1>5 DEF IsDocument, Columns
  <1>7. /\ DOMAIN base = IF r.row.group = NoGroup THEN rows \cup {g} ELSE rows
        /\ \A h \in rows : base[h] = groups[h]
        /\ r.row.group = NoGroup =>
              base[g] = [accreditation |-> FALSE, title |-> r.row.title, archive_doc_count |-> 0]
    BY <1>5 DEF WithRow, rows
  <1>8. \A h \in DOMAIN base : IsGroup(base[h])
    <2>1. \A h \in rows : IsGroup(base[h])
      BY <1>7 DEF IInv, Typed
    <2>2. r.row.group = NoGroup => IsGroup(base[g])
      <3>1. r.row.title \in Titles
        BY <1>4 DEF IsDocument
      <3> DEFINE made == [accreditation |-> FALSE, title |-> r.row.title, archive_doc_count |-> 0]
      <3>2. IsGroup(made)
        BY <3>1 DEF IsGroup
      <3> HIDE DEF base, made
      <3>3. r.row.group = NoGroup => base[g] = made
        BY <1>7 DEF made
      <3>4. QED
        BY <3>2, <3>3
    <2> HIDE DEF base
    <2>3. QED
      BY <1>7, <2>1, <2>2
  <1>9. /\ rows' = DOMAIN base
        /\ \A h \in rows' :
              /\ IsGroup(groups'[h])
              /\ groups'[h].accreditation = base[h].accreditation
              /\ groups'[h].title = base[h].title
              /\ groups'[h].archive_doc_count =
                    base[h].archive_doc_count + (IF h = g THEN 1 ELSE 0)
    <2> HIDE DEF base
    <2>1. groups' = Recount(base, NoGroup, g, 1)
      BY <1>1 DEF base
    <2>2. NoGroup \notin DOMAIN base
      BY <1>5, <1>7
    <2>3. \A h \in DOMAIN base : base[h].archive_doc_count \in Int
      BY <1>8 DEF IsGroup
    <2>4. QED
      BY <1>8, <2>1, <2>2, <2>3, RecountIs DEF rows
  <1>10. /\ saved' = saved \cup {k} /\ doc'[k] = new
         /\ \A d \in saved : doc'[d] = doc[d]
    BY <1>1, <1>4 DEF saved
  <1>11. /\ \A d \in saved : d \in disturbed => d \in disturbed'
         /\ \A h \in rows : h \in rows' /\ h \in disturbed => h \in disturbed'
         /\ g \notin DOMAIN base => k \in disturbed'
    BY <1>1, <1>10, Recorded
  <1>12. /\ \A d \in saved : d \in chosen => d \in chosen'
         /\ k \notin chosen' => ~late
    BY <1>1, <1>10, Recorded
  <1>13. \A u \in Threads : request'[u] # Idle => u # t /\ request'[u] = request[u]
    BY <1>2 DEF IInv, Typed
  <1>14. RequestsOnlyEnd
    BY <1>2 DEF RequestsOnlyEnd, IInv, Typed
  <1> HIDE DEF base, k, new, r
  <1>15. GroupsStay
    BY <1>5, <1>7, <1>9 DEF GroupsStay, IInv, Typed
  <1>16. DocsStay
    BY <1>4, <1>10, <1>13 DEF DocsStay
  <1>17. DocsFit
    <2>1. CASE g \in DOMAIN base
      <3>1. Fits(new, groups')
        <4>1. CASE r.row.group = NoGroup
          <5>1. ~groups'[g].accreditation /\ ~new.accreditation
            BY <1>4, <1>6, <1>7, <1>9, <2>1, <4>1
          <5>2. groups'[g].accreditation \in BOOLEAN /\ new.accreditation \in BOOLEAN
            BY <1>6, <1>9, <2>1 DEF IsGroup, IsDocument
          <5>3. QED
            BY <1>6, <5>1, <5>2 DEF Fits
        <4>2. CASE r.row.group # NoGroup
          BY <1>4, <1>5, <1>6, <1>7, <1>9, <2>1, <4>2 DEF Fits, rows
        <4>3. QED
          BY <4>1, <4>2
      <3>2. QED
        BY <1>4, <1>6, <1>7, <1>9, <1>10, <1>11, <2>1, <3>1 DEF DocsFit, IInv, Typed
    <2>2. CASE g \notin DOMAIN base
      <3>1. Accredited(new, groups')
        BY <1>6, <1>9, <2>2 DEF Accredited, rows
      <3>2. QED
        BY <1>4, <1>6, <1>7, <1>9, <1>10, <1>11, <2>2, <3>1 DEF DocsFit, IInv, Typed
    <2>3. QED
      BY <2>1, <2>2
  <1>18. CountsFit
    <2> SUFFICES ASSUME NEW h \in rows', h \notin disturbed'
                 PROVE  \/ /\ h \in rows /\ (h \in disturbed => h \in disturbed')
                           /\ members(h)' = members(h)
                           /\ groups'[h].archive_doc_count = groups[h].archive_doc_count
                        \/ /\ groups'[h].archive_doc_count = Cardinality(members(h)')
                           /\ groups'[h].accreditation \/ members(h)' # {}
      BY DEF CountsFit
    <2>1. members(h)' = IF h = g THEN members(h) \cup {k} ELSE members(h)
      BY <1>4, <1>6, <1>10 DEF members
    <2>2. CASE h # g
      <3>1. h \in rows /\ base[h] = groups[h] /\ groups[h].archive_doc_count \in Int
        BY <1>7, <1>9, <2>2 DEF IInv, Typed, IsGroup
      <3>2. QED
        BY <1>9, <1>11, <2>1, <2>2, <3>1
    <2>3. CASE h = g
      <3>1. base[g].archive_doc_count = Cardinality(members(g))
        <4>1. CASE r.row.group = NoGroup
          BY <1>5, <1>7, <4>1, FS_EmptySet
        <4>2. CASE r.row.group # NoGroup
          BY <1>7, <1>9, <1>11, <2>3, <4>2 DEF IInv, GroupsCounted
        <4>3. QED
          BY <4>1, <4>2
      <3>2. Cardinality(members(g) \cup {k}) = Cardinality(members(g)) + 1
        <4>1. k \notin members(g)
          BY <1>4 DEF members
        <4>2. QED
          BY <4>1, MembersFinite, FS_AddElement DEF IInv
      <3>3. QED
        BY <1>9, <2>1, <2>3, <3>1, <3>2
    <2>4. QED
      BY <2>2, <2>3
  <1>19. RevisionsFit
    <2> SUFFICES ASSUME k \notin chosen'
                 PROVE  /\ g \in rows'
                        /\ \/ g \in disturbed'
                           \/ \A e \in saved : doc[e].group = g => doc[e].revision # new.revision
      BY <1>4, <1>6, <1>7, <1>9, <1>10, <1>11, <1>12 DEF RevisionsFit
    <2>1. ~late
      BY <1>12
    <2>2. CASE r.row.group = NoGroup
      BY <1>5, <1>7, <1>9, <2>2 DEF members
    <2>3. CASE r.row.group # NoGroup
      <3>1. g \in rows /\ g \in rows' /\ Numbers(g) /\ new.revision = next_minor_revision(g)
        BY <1>5, <1>6, <1>7, <1>9, <2>1, <2>3 DEF Numbers
      <3>2. CASE g \in disturbed
        BY <1>11, <3>1, <3>2
      <3>3. CASE g \notin disturbed
        <4>1. groups[g].archive_doc_count = 0 => members(g) = {}
          BY <3>1, <3>3, MembersFinite, FS_EmptySet DEF IInv, GroupsCounted
        <4>2. \A e \in members(g) : doc[e].revision < next_minor_revision(g)
          <5>1. Typed
            BY DEF IInv
          <5>2. (groups[g].archive_doc_count = 0 => members(g) = {}) =>
                   \A e \in members(g) : doc[e].revision < next_minor_revision(g)
            BY <3>1, <5>1, NextMinorIs, Zenon
          <5>3. QED
            BY <4>1, <5>2, Zenon
        <4>3. \A e \in members(g) : doc[e].revision \in Int
          <5>1. \A e \in saved : IsDocument(doc[e], Groups)
            BY DEF IInv, Typed
          <5>2. Revisions \subseteq Int
            BY BoundsAssumption DEF Revisions
          <5>3. QED
            BY <5>1, <5>2 DEF members, IsDocument
        <4>4. next_minor_revision(g) \in Nat
          BY <3>1, NextMinorIs DEF IInv
        <4>5. QED
          BY <3>1, <4>2, <4>3, <4>4 DEF members
      <3>4. QED
        BY <3>2, <3>3
    <2>4. QED
      BY <2>2, <2>3
  <1>20. QED
    BY <1>14, <1>15, <1>16, <1>17, <1>18, <1>19, StepKeeps

-------------------------------------------------------------------------------
\* An edit, which may take its document to another group, and the archive with it.

LEMMA RetitledIs ==
    ASSUME NEW e, IsDocument(doc[e], Groups), NEW title \in Titles, NEW to \in Groups
    PROVE  /\ IsDocument(Retitled(e, title, to), Groups)
           /\ Retitled(e, title, to).group = to
           /\ Retitled(e, title, to).title = title
           /\ Retitled(e, title, to).accreditation
  BY DEF Retitled, IsDocument, Columns

\* What is written is what was asked for, if nobody has changed the row since it
\* was loaded; and however that is, an accreditation document stays one.
LEMMA WrittenIs ==
    ASSUME NEW base, IsDocument(base, Groups), NEW loaded, IsDocument(loaded, Groups),
           NEW row, IsDocument(row, Groups), loaded.accreditation => row.accreditation
    PROVE  /\ IsDocument(Written(base, loaded, row), Groups)
           /\ base = loaded => Written(base, loaded, row) = row
           /\ Written(base, loaded, row).group =
                 IF row.group = loaded.group THEN base.group ELSE row.group
           /\ Written(base, loaded, row).title =
                 IF row.title = loaded.title THEN base.title ELSE row.title
           /\ Written(base, loaded, row).revision =
                 IF row.revision = loaded.revision THEN base.revision ELSE row.revision
           /\ base.accreditation => Written(base, loaded, row).accreditation
           /\ row.accreditation /\ (loaded.accreditation => base.accreditation)
                 => Written(base, loaded, row).accreditation
  <1> DEFINE written == [c \in Columns |-> IF row[c] = loaded[c] THEN base[c] ELSE row[c]]
  <1>1. DOMAIN row = Columns
    BY DEF IsDocument
  <1>2. Written(base, loaded, row) = written
    BY <1>1 DEF Written
  <1>3. /\ written.group = IF row.group = loaded.group THEN base.group ELSE row.group
        /\ written.revision = IF row.revision = loaded.revision THEN base.revision ELSE row.revision
        /\ written.title = IF row.title = loaded.title THEN base.title ELSE row.title
        /\ written.accreditation = IF row.accreditation = loaded.accreditation
                                   THEN base.accreditation ELSE row.accreditation
        /\ written = [c \in Columns |-> written[c]]
    BY DEF Columns
  <1>4. base = loaded => written = row
    <2> SUFFICES ASSUME base = loaded
                 PROVE  written = [c \in Columns |-> row[c]]
      BY DEF IsDocument
    <2>1. QED
      OBVIOUS
  <1> HIDE DEF written
  <1>5. QED
    BY <1>2, <1>3, <1>4 DEF IsDocument

LEMMA CommitEditKeeps ==
    ASSUME IInv, NEW t \in Threads, NEW title \in Titles, NEW entered \in Explicit \cup {Unspecified},
           CommitEdit(t, title, entered)
    PROVE  IInv' /\ GroupsGo
  <1> DEFINE d == request[t].doc
             loaded == request[t].row
             own == loaded.group
             revision == IF entered = Unspecified THEN loaded.revision ELSE entered
             accreditation == loaded.accreditation \/ Accreditation(title) # {}
             stale == d \notin saved \/ doc[d] # loaded
             edited(to) == [group |-> to, title |-> title, revision |-> revision,
                            accreditation |-> accreditation]
  <1>0. PICK to \in Joins(title, loaded.accreditation, own),
             archive \in IF accreditation THEN Archives(d, own) ELSE {{}} :
            SaveEdited(d, loaded, edited(to), archive)
    BY Zenon DEF CommitEdit
  <1>0a. PICK row : row = edited(to)
    OBVIOUS
  <1>0b. /\ row.group = to /\ row.title = title /\ row.accreditation = accreditation
         /\ row.revision = revision
         /\ row = [column \in Columns |-> row[column]]
    BY <1>0a DEF Columns
  <1> DEFINE docs == [e \in saved |->
                        IF e = d THEN Written(Arrived(d, archive, row.title, row.group), loaded, row)
                        ELSE Arrived(e, archive, row.title, row.group)]
             table == IF row.group # own
                      THEN Recount(IF row.group \in Groups THEN WithRow(row.group, TRUE, row.title)
                                   ELSE groups,
                                   own, row.group, Cardinality(archive) + 1)
                      ELSE groups
             gone == IF /\ row.group # own
                        /\ \/ Emptied(loaded, row.group, docs)
                           \/ loaded.accreditation /\ table[own].archive_doc_count = 0
                     THEN {own} ELSE {}
             mixed == row.group # own /\ (members(row.group) # {} \/ own \in disturbed)
  <1>1. /\ row.group # own => ~(loaded.accreditation /\ Emptied(loaded, row.group, docs))
        /\ doc' = Restrict(docs, {e \in saved : docs[e].group \notin gone})
        /\ groups' = Restrict(table, DOMAIN table \ gone)
        /\ Record((IF mixed THEN archive \cup {d} ELSE {})
                     \cup (IF row.revision # loaded.revision THEN {d} ELSE {}),
                  IF stale THEN {d, row.group, own} \cup {doc[e].group : e \in saved \cap {d}}
                  ELSE IF row.group # own /\ d \in archive THEN {row.group, own}
                  ELSE {})
    <2>1. SaveEdited(d, loaded, row, archive)
      BY <1>0, <1>0a
    <2> HIDE DEF d, loaded
    <2>2. QED
      BY Zenon, <2>1 DEF SaveEdited
  <1>2. request[t].op = "find" /\ request' = [request EXCEPT ![t] = Idle]
    BY DEF CommitEdit
  <1> DEFINE n == Cardinality(archive) + 1
             base == WithRow(to, TRUE, title)
             copy == Arrived(d, archive, title, to)
  <1>3. /\ request[t] # Idle /\ d \in Docs /\ IsDocument(loaded, Groups)
        /\ d \in saved /\ loaded.accreditation => doc[d].accreditation
    BY <1>2 DEF Idle, IInv, Typed, IsRequest, AccreditationStays
  <1>4. \/ Accreditation(title) # {} /\ to \in Accreditation(title)
        \/ Accreditation(title) = {} /\ loaded.accreditation /\ to \in FreshGroups /\ to # own
        \/ Accreditation(title) = {} /\ ~loaded.accreditation /\ to = own
    BY <1>3 DEF Joins, FreshGroups, Open
  <1>5. /\ to \in Groups /\ own \in Groups
        /\ to \in rows => to = own \/ to \in Accreditation(title)
        /\ to # own => accreditation
        /\ to \notin rows => members(to) = {} \/ to = own
        /\ to \in rows \cup FreshGroups \/ to = own
    BY <1>3, <1>4 DEF IsDocument, Accreditation, FreshGroups, IInv, Typed
  <1>6. /\ archive \subseteq members(own)
        /\ archive # {} => accreditation
    BY DEF Archives
  <1>7. /\ row.group = to /\ row.title = title /\ row.accreditation = accreditation
        /\ row.revision = revision
        /\ IsDocument(row, Groups) /\ (loaded.accreditation => row.accreditation)
    <2>1. accreditation \in BOOLEAN
      BY <1>3 DEF IsDocument
    <2>2. revision \in Revisions
      BY <1>3, ExplicitAssumption DEF IsDocument, Revisions
    <2>3. QED
      BY <1>0b, <1>5, <2>1, <2>2 DEF IsDocument
  <1>8. /\ DOMAIN docs = saved
        /\ d \in saved => docs[d] = Written(copy, loaded, row)
        /\ \A e \in archive : e # d => docs[e] = Retitled(e, title, to)
        /\ \A e \in saved : e # d /\ e \notin archive => docs[e] = doc[e]
        /\ archive \subseteq saved
    BY <1>0b, <1>6 DEF members, Arrived
  <1>9. to # own => table = Recount(base, own, to, n)
    BY <1>0b, <1>5
  <1>10. to = own => table = groups /\ gone = {}
    BY <1>0b
  <1>11. gone \subseteq {own} /\ (to = own => gone = {})
         /\ (to # own /\ own \notin gone => \E e \in saved : docs[e].group = own)
         /\ (gone # {} => /\ \/ ~loaded.accreditation
                             \/ \E e \in saved : docs[e].group = own
                          /\ \/ \A e \in saved : docs[e].group # own
                             \/ table[own].archive_doc_count = 0)
    <2> HIDE DEF docs, table, d, loaded, own
    <2>1. gone = IF to # own /\ (Emptied(loaded, to, docs)
                          \/ (loaded.accreditation /\ table[own].archive_doc_count = 0))
                 THEN {own} ELSE {}
      BY <1>0b DEF gone
    <2>2. to # own => ~(loaded.accreditation /\ Emptied(loaded, to, docs))
      BY <1>1, <1>0b
    <2>3. Emptied(loaded, to, docs) <=> to # own /\ \A e \in saved : docs[e].group # own
      BY <1>8 DEF Emptied, own
    <2> HIDE DEF gone
    <2>4. QED
      BY <2>1, <2>2, <2>3
  <1>12. \A e \in saved : IsDocument(doc[e], Groups)
    BY DEF IInv, Typed
  <1>13. d \in saved =>
            /\ IsDocument(docs[d], Groups)
            /\ doc[d] = loaded => docs[d] = row
            /\ docs[d].group = IF to = own THEN doc[d].group ELSE to
            /\ d \in archive => docs[d].title = title
            /\ doc[d].accreditation => docs[d].accreditation
            /\ accreditation => docs[d].accreditation
            /\ row.revision = loaded.revision => docs[d].revision = doc[d].revision
    <2> HIDE DEF docs, d, loaded, accreditation
    <2> SUFFICES ASSUME d \in saved
                 PROVE  /\ IsDocument(docs[d], Groups)
                        /\ doc[d] = loaded => docs[d] = row
                        /\ docs[d].group = IF to = own THEN doc[d].group ELSE to
                        /\ d \in archive => docs[d].title = title
                        /\ doc[d].accreditation => docs[d].accreditation
                        /\ accreditation => docs[d].accreditation
                        /\ row.revision = loaded.revision => docs[d].revision = doc[d].revision
      OBVIOUS
    <2>1. IsDocument(doc[d], Groups) /\ to \in Groups
      BY <1>5, <1>12
    <2>2. d \notin archive => copy = doc[d]
      BY DEF Arrived
    <2>3. d \in archive =>
            /\ IsDocument(copy, Groups)
            /\ copy.group = to /\ copy.title = title /\ copy.accreditation
            /\ copy.revision = doc[d].revision
            /\ doc[d].group = own /\ accreditation
      <3> SUFFICES ASSUME d \in archive
                   PROVE  /\ IsDocument(copy, Groups)
                          /\ copy.group = to /\ copy.title = title /\ copy.accreditation
                          /\ copy.revision = doc[d].revision
                          /\ doc[d].group = own /\ accreditation
        OBVIOUS
      <3>1. copy = Retitled(d, title, to)
        BY DEF Arrived
      <3>2. doc[d].group = own /\ accreditation
        BY <1>6 DEF members
      <3>3. Retitled(d, title, to).revision = doc[d].revision
        BY <2>1 DEF Retitled, IsDocument, Columns
      <3> HIDE DEF copy
      <3>4. QED
        BY <2>1, <3>1, <3>2, <3>3, RetitledIs
    <2> HIDE DEF copy
    <2>4. IsDocument(copy, Groups) /\ (loaded.accreditation => copy.accreditation)
          /\ (doc[d].accreditation => copy.accreditation) /\ copy.revision = doc[d].revision
      BY <1>3, <2>1, <2>2, <2>3
    <2>5. /\ docs[d] = Written(copy, loaded, row)
          /\ IsDocument(docs[d], Groups)
          /\ copy = loaded => docs[d] = row
          /\ docs[d].group = IF row.group = loaded.group THEN copy.group ELSE row.group
          /\ docs[d].title = IF row.title = loaded.title THEN copy.title ELSE row.title
          /\ docs[d].revision = IF row.revision = loaded.revision THEN copy.revision ELSE row.revision
          /\ copy.accreditation => docs[d].accreditation
          /\ row.accreditation /\ (loaded.accreditation => copy.accreditation)
                => docs[d].accreditation
      BY <1>3, <1>7, <1>8, <2>4, WrittenIs
    <2>6. doc[d] = loaded => docs[d] = row
      <3>1. CASE d \notin archive
        BY <2>2, <2>5, <3>1
      <3>2. ASSUME d \in archive, doc[d] = loaded
            PROVE  docs[d] = row
        <4>1. /\ docs[d].group = row.group /\ docs[d].title = row.title
              /\ docs[d].revision = row.revision
              /\ docs[d].accreditation /\ row.accreditation
          BY <1>7, <2>3, <2>5, <3>2
        <4>2. docs[d].accreditation = row.accreditation
          BY <1>7, <2>5, <4>1 DEF IsDocument
        <4>3. \A column \in Columns : docs[d][column] = row[column]
          BY <4>1, <4>2 DEF Columns
        <4>4. /\ docs[d] = [column \in Columns |-> docs[d][column]]
              /\ row = [column \in Columns |-> row[column]]
          BY <1>7, <2>5 DEF IsDocument
        <4>5. QED
          BY <4>3, <4>4
      <3>3. QED
        BY <3>1, <3>2
    <2>7. docs[d].group = IF to = own THEN doc[d].group ELSE to
      BY <1>7, <2>2, <2>3, <2>5 DEF own
    <2>8. QED
      BY <1>7, <2>3, <2>4, <2>5, <2>6, <2>7
  <1>14. \A e \in archive : /\ IsDocument(docs[e], Groups) /\ docs[e].group = to
                            /\ docs[e].title = title /\ docs[e].accreditation
                            /\ doc[e].group = own
                            /\ e # d => docs[e].revision = doc[e].revision
    <2> HIDE DEF docs, d, loaded, accreditation
    <2> SUFFICES ASSUME NEW e \in archive
                 PROVE  /\ IsDocument(docs[e], Groups) /\ docs[e].group = to
                        /\ docs[e].title = title /\ docs[e].accreditation
                        /\ doc[e].group = own
                        /\ e # d => docs[e].revision = doc[e].revision
      OBVIOUS
    <2>1. e \in saved /\ doc[e].group = own /\ accreditation
      BY <1>6 DEF members
    <2>2. CASE e = d
      BY <1>13, <2>1, <2>2
    <2>3. CASE e # d
      <3>1. docs[e] = Retitled(e, title, to) /\ IsDocument(doc[e], Groups)
        BY <1>8, <1>12, <2>3
      <3>2. to \in Groups
        BY <1>5
      <3>3. Retitled(e, title, to).revision = doc[e].revision
        BY <3>1 DEF Retitled, IsDocument, Columns
      <3>4. QED
        BY <2>1, <3>1, <3>2, <3>3, RetitledIs
    <2>4. QED
      BY <2>2, <2>3
  <1>15. IsFiniteSet(archive) /\ n \in Nat /\ n = Cardinality(archive) + 1
    <2>1. IsFiniteSet(archive)
      BY <1>6, MembersFinite, FS_Subset DEF IInv
    <2>2. QED
      BY <2>1, FS_CardinalityType
  <1> HIDE DEF docs, table, gone, n
  <1>16. /\ saved' = {e \in saved : docs[e].group \notin gone}
         /\ \A e \in saved' : doc'[e] = docs[e]
         /\ rows' = DOMAIN table \ gone
         /\ \A g \in rows' : groups'[g] = table[g]
    <2>1. doc' = Restrict(docs, {e \in saved : docs[e].group \notin gone})
      BY <1>1
    <2>2. groups' = Restrict(table, DOMAIN table \ gone)
      BY <1>1
    <2>3. QED
      BY <1>8, <2>1, <2>2 DEF Restrict, saved, rows
  <1>17. /\ DOMAIN base = rows \cup {to}
         /\ \A g \in rows : base[g] = groups[g]
         /\ to \notin rows =>
               base[to] = [accreditation |-> TRUE, title |-> title, archive_doc_count |-> 0]
    BY DEF WithRow, rows
  <1>18. \A g \in DOMAIN base : IsGroup(base[g])
    <2> DEFINE made == [accreditation |-> TRUE, title |-> title, archive_doc_count |-> 0]
    <2>1. IsGroup(made)
      BY DEF IsGroup
    <2>2. \A g \in rows : IsGroup(groups[g])
      BY DEF IInv, Typed
    <2>3. to \notin rows => base[to] = made
      BY <1>17
    <2> HIDE DEF base, made
    <2>4. QED
      BY <1>17, <2>1, <2>2, <2>3
  <1> HIDE DEF base
  <1>19. /\ DOMAIN table = IF to = own THEN rows ELSE rows \cup {to}
         /\ to = own => table = groups
         /\ to # own => \A g \in DOMAIN table :
               /\ IsGroup(table[g])
               /\ table[g].accreditation = base[g].accreditation
               /\ table[g].title = base[g].title
               /\ table[g].archive_doc_count = base[g].archive_doc_count
                                  + (IF g = to THEN n ELSE 0) - (IF g = own THEN n ELSE 0)
    <2>1. CASE to = own
      BY <1>10, <2>1 DEF rows
    <2>2. CASE to # own
      <3>1. n \in Int
        BY <1>15
      <3> HIDE DEF own
      <3>2. QED
        BY <1>9, <1>17, <1>18, <2>2, <3>1, RecountIs
    <2>3. QED
      BY <2>1, <2>2
  <1>20. \A g \in DOMAIN table :
            /\ IsGroup(table[g])
            /\ g \in rows => /\ table[g].accreditation = groups[g].accreditation
                             /\ table[g].title = groups[g].title
    <2>1. \A g \in rows : IsGroup(groups[g])
      BY DEF IInv, Typed
    <2>2. QED
      BY <1>17, <1>19, <2>1
  <1>21. accreditation => to \in rows' /\ groups'[to].accreditation /\ groups'[to].title = title
    <2> SUFFICES ASSUME accreditation
                 PROVE  to \in rows' /\ groups'[to].accreditation /\ groups'[to].title = title
      OBVIOUS
    <2>1. to \in DOMAIN table /\ to \notin gone
      BY <1>4, <1>11, <1>19 DEF Accreditation
    <2>2. to \in rows => groups[to].accreditation /\ groups[to].title = title
      BY <1>4 DEF Accreditation, FreshGroups
    <2>3. to \notin rows => table[to].accreditation /\ table[to].title = title
      BY <1>17, <1>19, <2>1
    <2>4. QED
      BY <1>16, <1>20, <2>1, <2>2, <2>3
  <1>22. /\ \A e \in saved : e \in saved' /\ e \in disturbed => e \in disturbed'
         /\ \A g \in rows : g \in rows' /\ g \in disturbed => g \in disturbed'
         /\ stale => {d, to, own} \subseteq disturbed'
         /\ stale /\ d \in saved => doc[d].group \in disturbed'
         /\ to # own /\ d \in archive => {to, own} \subseteq disturbed'
    <2> HIDE DEF stale, d, own, mixed, docs, table, gone
    <2>1. QED
      BY <1>1, <1>0b, Recorded
  <1>23. /\ \A e \in saved : e \in saved' /\ e \in chosen => e \in chosen'
         /\ \A e \in saved' : mixed /\ e \in archive \cup {d} => e \in chosen'
         /\ d \in saved' /\ revision # loaded.revision => d \in chosen'
    <2> HIDE DEF stale, d, own, revision, mixed, docs, table, gone
    <2>1. QED
      BY <1>1, <1>0b, Recorded
  <1>24. GroupsStay
    BY <1>5, <1>11, <1>16, <1>19, <1>20 DEF GroupsStay, IInv, Typed
  <1>25. RequestsOnlyEnd
    BY <1>2 DEF RequestsOnlyEnd, IInv, Typed
  <1> HIDE DEF d, loaded, accreditation, revision
  <1>26. DocsStay
    <2> SUFFICES ASSUME NEW e \in saved'
                 PROVE  e \in saved /\ (doc[e].accreditation => doc'[e].accreditation)
      BY DEF DocsStay
    <2>1. QED
      BY <1>8, <1>13, <1>14, <1>16
  <1>27. DocsFit
    <2> SUFFICES ASSUME NEW e \in saved'
                 PROVE  /\ e \in Docs /\ IsDocument(docs[e], Groups)
                        /\ \/ /\ e \in saved /\ docs[e] = doc[e]
                              /\ e \in disturbed => e \in disturbed'
                              /\ doc[e].group \in rows => doc[e].group \in rows'
                           \/ docs[e].group \in rows' /\ Fits(docs[e], groups')
                           \/ e \in disturbed' /\ Accredited(docs[e], groups')
      BY <1>16 DEF DocsFit
    <2>1. e \in saved /\ e \in Docs /\ docs[e].group \notin gone
      BY <1>16 DEF IInv, Typed
    <2>2. CASE e \in archive
      <3>1. docs[e].group \in rows' /\ Fits(docs[e], groups')
        BY <1>6, <1>14, <1>16, <1>20, <1>21, <2>2 DEF Fits, IsGroup, IsDocument
      <3>2. QED
        BY <1>14, <2>1, <2>2, <3>1
    <2>3. CASE e # d /\ e \notin archive
      <3>1. docs[e] = doc[e]
        BY <1>8, <2>1, <2>3
      <3>2. doc[e].group \in rows => doc[e].group \in rows'
        BY <1>16, <1>19, <2>1, <3>1
      <3>3. QED
        BY <1>12, <1>22, <2>1, <3>1, <3>2
    <2>4. CASE e = d
      <3>1. IsDocument(docs[d], Groups)
        BY <1>13, <2>1, <2>4
      <3>2. Accredited(docs[d], groups')
        <4>1. CASE to # own
          BY <1>5, <1>13, <2>1, <2>4, <4>1 DEF Accredited
        <4>2. CASE to = own
          <5>1. docs[d].group = doc[d].group
            BY <1>13, <2>1, <2>4, <4>2
          <5>2. rows' = rows /\ \A g \in rows : groups'[g] = groups[g]
            BY <1>11, <1>16, <1>19, <4>2
          <5>3. Accredited(doc[d], groups)
            BY <2>1, <2>4 DEF IInv, AccreditationStays
          <5>4. QED
            BY <1>13, <2>1, <2>4, <5>1, <5>2, <5>3 DEF Accredited, rows
        <4>3. QED
          BY <4>1, <4>2
      <3>3. CASE d \in disturbed'
        BY <2>1, <2>4, <3>1, <3>2, <3>3
      <3>4. CASE d \notin disturbed'
        <4>1. doc[d] = loaded /\ docs[d] = row /\ d \notin disturbed
          BY <1>13, <1>22, <2>1, <2>4, <3>4
        <4>2. CASE accreditation
          <5>1. docs[d].group \in rows' /\ Fits(docs[d], groups')
            BY <1>7, <1>16, <1>20, <1>21, <4>1, <4>2 DEF Fits, IsGroup, IsDocument
          <5>2. QED
            BY <2>1, <2>4, <3>1, <5>1
        <4>3. CASE ~accreditation
          <5>1. to = own /\ ~loaded.accreditation
            BY <1>5, <4>3 DEF accreditation
          <5>2. own \in rows /\ Fits(loaded, groups)
            BY <2>1, <2>4, <4>1 DEF IInv, NoOrphan, SameTitle, Fits, rows
          <5>3. rows' = rows /\ groups'[own] = groups[own]
            BY <1>11, <1>16, <1>19, <5>1, <5>2
          <5>4. Fits(row, groups')
            BY <1>3, <1>7, <4>3, <5>1, <5>2, <5>3 DEF Fits, rows, IsDocument
          <5>5. QED
            BY <1>7, <2>1, <2>4, <3>1, <4>1, <5>1, <5>2, <5>3, <5>4
        <4>4. QED
          BY <4>2, <4>3
      <3>5. QED
        BY <3>3, <3>4
    <2>5. QED
      BY <2>2, <2>3, <2>4
  <1>28. CountsFit
    <2> SUFFICES ASSUME NEW g \in rows', g \notin disturbed'
                 PROVE  \/ /\ g \in rows /\ (g \in disturbed => g \in disturbed')
                           /\ members(g)' = members(g)
                           /\ groups'[g].archive_doc_count = groups[g].archive_doc_count
                        \/ /\ groups'[g].archive_doc_count = Cardinality(members(g)')
                           /\ groups'[g].accreditation \/ members(g)' # {}
      BY DEF CountsFit
    <2>1. /\ g \in DOMAIN table /\ g \notin gone /\ groups'[g] = table[g]
          /\ g \in rows => g \notin disturbed
      BY <1>16, <1>22
    <2>2. members(g)' = {e \in saved : docs[e].group = g}
      BY <1>16, <2>1 DEF members
    <2>3. CASE to = own
      <3>1. \A e \in saved : docs[e].group = doc[e].group
        BY <1>6, <1>8, <1>13, <1>14, <2>3 DEF members
      <3>2. members(g)' = members(g)
        BY <2>2, <3>1 DEF members
      <3>3. QED
        BY <1>19, <2>1, <2>3, <3>2
    <2>4. CASE to # own /\ g \notin {to, own}
      <3>1. \A e \in saved : docs[e].group = g <=> doc[e].group = g
        <4> SUFFICES ASSUME NEW e \in saved
                     PROVE  docs[e].group = g <=> doc[e].group = g
          OBVIOUS
        <4>1. CASE e \in archive
          BY <1>6, <1>14, <2>4, <4>1 DEF members
        <4>2. CASE e # d /\ e \notin archive
          BY <1>8, <4>2
        <4>3. CASE e = d
          <5>1. docs[d].group = to
            BY <1>13, <2>4, <4>3
          <5>2. doc[d].group # g
            BY <1>22, <2>4, <4>3 DEF stale
          <5>3. QED
            BY <2>4, <4>3, <5>1, <5>2
        <4>4. QED
          BY <4>1, <4>2, <4>3
      <3>2. members(g)' = members(g)
        BY <2>2, <3>1 DEF members
      <3>3. g \in rows /\ groups[g].archive_doc_count \in Int
        BY <1>19, <2>1, <2>4 DEF IInv, Typed, IsGroup
      <3>4. groups'[g].archive_doc_count = groups[g].archive_doc_count
        BY <1>17, <1>19, <2>1, <2>4, <3>3
      <3>5. QED
        BY <2>1, <3>2, <3>3, <3>4
    <2>5. CASE to # own /\ g \in {to, own}
      <3> DEFINE moved == archive \cup {d}
      <3>1. /\ d \in saved /\ doc[d] = loaded /\ docs[d].group = to /\ doc[d].group = own
            /\ d \notin archive
        BY <1>13, <1>22, <2>5 DEF stale
      <3>2. /\ moved \subseteq members(own) /\ IsFiniteSet(moved) /\ Cardinality(moved) = n
        <4>1. moved \subseteq members(own)
          BY <1>6, <3>1 DEF members
        <4>2. IsFiniteSet(moved) /\ Cardinality(moved) = n
          BY <1>15, <3>1, FS_AddElement
        <4>3. QED
          BY <4>1, <4>2
      <3>3. \A e \in saved : docs[e].group = IF e \in moved THEN to ELSE doc[e].group
        BY <1>8, <1>14, <3>1
      <3> HIDE DEF moved
      <3>4. CASE g = to
        <4>1. members(g)' = members(to) \cup moved
          BY <2>2, <3>2, <3>3, <3>4 DEF members
        <4>2. members(to) \cap moved = {}
          BY <2>5, <3>2 DEF members
        <4>3. base[to].archive_doc_count = Cardinality(members(to))
          <5>1. CASE to \in rows
            BY <1>17, <2>1, <3>4, <5>1 DEF IInv, GroupsCounted
          <5>2. CASE to \notin rows
            BY <1>5, <1>17, <2>5, <5>2, FS_EmptySet
          <5>3. QED
            BY <5>1, <5>2
        <4>4. Cardinality(members(g)') = Cardinality(members(to)) + n
          <5>1. IsFiniteSet(members(to)) /\ Cardinality(members(to)) \in Nat
            BY MembersFinite DEF IInv
          <5>2. Cardinality(members(to) \cup moved)
                   = Cardinality(members(to)) + Cardinality(moved) - Cardinality({})
            BY <3>2, <4>2, <5>1, FS_Union
          <5>3. QED
            BY <1>15, <3>2, <4>1, <5>1, <5>2, FS_EmptySet
        <4>5. members(g)' # {}
          BY <4>1 DEF moved
        <4>6. Cardinality(members(to)) \in Nat
          BY MembersFinite DEF IInv
        <4>7. groups'[g].archive_doc_count = Cardinality(members(g)')
          BY <1>15, <1>19, <2>1, <2>5, <3>4, <4>3, <4>4, <4>6
        <4>8. QED
          BY <4>5, <4>7
      <3>5. CASE g = own
        <4>1. members(g)' = members(own) \ moved
          BY <2>2, <2>5, <3>3, <3>5 DEF members
        <4>2. own \in rows /\ groups[own].archive_doc_count = Cardinality(members(own))
          BY <1>19, <2>1, <2>5, <3>5 DEF IInv, GroupsCounted
        <4>3. /\ Cardinality(members(g)') = Cardinality(members(own)) - n
              /\ Cardinality(members(own)) \in Nat
          <5>1. IsFiniteSet(members(own)) /\ Cardinality(members(own)) \in Nat
            BY MembersFinite DEF IInv
          <5>2. members(own) \cap moved = moved
            BY <3>2
          <5>3. QED
            BY <3>2, <4>1, <5>1, <5>2, FS_Difference
        <4>4. groups'[g].archive_doc_count = Cardinality(members(g)')
          BY <1>15, <1>17, <1>19, <2>1, <2>5, <3>5, <4>2, <4>3
        <4>5. members(g)' # {}
          BY <1>11, <2>1, <2>2, <2>5, <3>5
        <4>6. QED
          BY <4>4, <4>5
      <3>6. QED
        BY <2>5, <3>4, <3>5
    <2>6. QED
      BY <2>3, <2>4, <2>5
  <1>29. GroupsGo
    <2> SUFFICES ASSUME NEW g \in rows \ (disturbed \cup disturbed'), g \notin rows'
                 PROVE  ~groups[g].accreditation /\ Cardinality(members(g) \ saved') <= 1
      BY DEF GroupsGo
    <2>1. g = own /\ to # own /\ gone = {own}
      BY <1>11, <1>16, <1>19
    <2>2. d \in saved /\ doc[d] = loaded /\ doc[d].group = own /\ d \notin archive
      BY <1>22, <2>1 DEF stale
    <2>3. \A e \in saved : docs[e].group # own
      <3>1. CASE table[own].archive_doc_count = 0
        <4> DEFINE moved == archive \cup {d}
        <4>1. groups[own].archive_doc_count = Cardinality(members(own))
          BY <2>1 DEF IInv, GroupsCounted
        <4>2. Cardinality(members(own)) = n
          BY <1>15, <1>17, <1>19, <2>1, <3>1, <4>1, MembersFinite DEF IInv
        <4>3. moved \subseteq members(own) /\ Cardinality(moved) = n
          BY <1>6, <1>15, <2>2, FS_AddElement DEF members
        <4> HIDE DEF moved
        <4>4. moved = members(own)
          BY <4>2, <4>3, MembersFinite, FS_Subset DEF IInv
        <4>5. \A e \in members(own) : docs[e].group = to
          BY <1>13, <1>14, <2>1, <2>2, <4>4 DEF moved
        <4>6. \A e \in saved : e \notin members(own) => docs[e].group = doc[e].group
          BY <1>8, <4>4 DEF moved
        <4>7. QED
          BY <2>1, <4>5, <4>6 DEF members
      <3>2. QED
        BY <1>11, <2>1, <3>1
    <2>4. ~groups[g].accreditation
      <3>1. ~loaded.accreditation
        BY <1>11, <2>1, <2>3
      <3>2. Accredited(doc[d], groups)
        BY <2>2 DEF IInv, AccreditationStays
      <3>3. QED
        BY <2>1, <2>2, <3>1, <3>2 DEF Accredited, rows
    <2>5. members(g) \ saved' = {}
      BY <1>16, <2>1, <2>3 DEF members
    <2>6. QED
      BY <2>4, <2>5, FS_EmptySet
  <1>30. RevisionsFit
    <2> DEFINE moved == archive \cup {d}
    <2>1. ASSUME NEW e \in saved', e \notin chosen', to = own \/ e \notin moved
          PROVE  /\ e \in saved \ chosen
                 /\ doc'[e].group = doc[e].group /\ doc'[e].revision = doc[e].revision
                 /\ doc[e].group \in rows => doc[e].group \in rows'
      <3>1. /\ e \in saved /\ e \notin chosen
            /\ e = d => row.revision = loaded.revision
        BY <1>7, <1>16, <1>23, <2>1
      <3>2. docs[e].group = doc[e].group
        BY <1>8, <1>13, <1>14, <2>1, <3>1
      <3>3. docs[e].revision = doc[e].revision
        BY <1>8, <1>13, <1>14, <2>1, <3>1
      <3>4. QED
        BY <1>16, <1>19, <3>1, <3>2, <3>3
    <2>2. ASSUME NEW e \in saved', e \notin chosen', to # own, e \in moved
          PROVE  /\ e \in saved \ chosen /\ doc'[e].revision = doc[e].revision
                 /\ doc'[e].group \in rows'
                 /\ \/ doc'[e].group \in disturbed'
                    \/ /\ doc[e].group \notin disturbed
                       /\ \A y \in saved' \ chosen' : doc'[y].group = doc'[e].group
                             => y \in saved /\ doc[y].group = doc[e].group
      <3>1. /\ e \in saved /\ e \notin chosen /\ doc'[e] = docs[e]
            /\ e = d => row.revision = loaded.revision
        BY <1>7, <1>16, <1>23, <2>2
      <3>2. docs[e].revision = doc[e].revision /\ docs[e].group = to
        BY <1>13, <1>14, <2>2, <3>1
      <3>3. to \in rows'
        BY <1>5, <1>21, <2>2
      <3>4. members(to) = {} /\ own \notin disturbed
        BY <1>0b, <1>23, <2>2
      <3>5. ASSUME to \notin disturbed'
            PROVE  /\ doc[e].group \notin disturbed
                   /\ \A y \in saved' \ chosen' : doc'[y].group = to
                         => y \in saved /\ doc[y].group = doc[e].group
        <4>1. d \in saved /\ doc[d].group = own
          BY <1>22, <2>2, <3>5 DEF stale
        <4>2. \A y \in moved : doc[y].group = own
          BY <1>14, <4>1
        <4>3. ASSUME NEW y \in saved' \ chosen', doc'[y].group = to
              PROVE  y \in saved /\ y \in moved
          <5>1. y \in saved /\ docs[y].group = to
            BY <1>16, <4>3
          <5>2. y \notin moved => y \in members(to)
            BY <1>8, <5>1 DEF members
          <5>3. QED
            BY <3>4, <5>1, <5>2
        <4>4. QED
          BY <2>2, <3>4, <4>2, <4>3
      <3>6. QED
        BY <3>1, <3>2, <3>3, <3>5
    <2>3. QED
      BY <1>22, <2>1, <2>2 DEF RevisionsFit
  <1>31. QED
    BY <1>24, <1>25, <1>26, <1>27, <1>28, <1>29, <1>30, StepKeeps

-------------------------------------------------------------------------------
\* Every step keeps the invariant, and loses no group that it should not.

LEMMA NextKeeps ==
    ASSUME IInv, Next
    PROVE  IInv' /\ GroupsGo
  <1>1. ASSUME rows \subseteq rows'
        PROVE  GroupsGo
    BY <1>1 DEF GroupsGo
  <1>2. ASSUME NEW title \in Titles, ConfigureTitle(title)
        PROVE  IInv' /\ GroupsGo
    <2>1. rows \subseteq rows'
      BY <1>2 DEF ConfigureTitle, WithRow, rows
    <2>2. QED
      BY <1>1, <1>2, <2>1, ConfigureTitleKeeps
  <1>3. ASSUME NEW title \in Titles, RemoveTitle(title)
        PROVE  IInv' /\ GroupsGo
    BY <1>3, RemoveTitleKeeps
  <1>4. ASSUME NEW t \in Threads, NEW title \in Titles, NEW own \in Groups \cup {NoGroup},
               NEW revision \in Explicit \cup {Unspecified}, BeginUpload(t, title, own, revision)
        PROVE  IInv' /\ GroupsGo
    <2>1. rows' = rows
      BY <1>4 DEF BeginUpload, rows
    <2>2. QED
      BY <1>1, <1>4, <2>1, BeginUploadKeeps
  <1>5. ASSUME NEW t \in Threads, NEW d \in Docs, Find(t, d)
        PROVE  IInv' /\ GroupsGo
    <2>1. rows' = rows
      BY <1>5 DEF Find, rows
    <2>2. QED
      BY <1>1, <1>5, <2>1, FindKeeps
  <1>6. ASSUME NEW t \in Threads, NEW title \in Titles,
               NEW revision \in Explicit \cup {Unspecified}, CommitEdit(t, title, revision)
        PROVE  IInv' /\ GroupsGo
    BY <1>6, CommitEditKeeps
  <1>7. ASSUME NEW t \in Threads, CommitUpload(t)
        PROVE  IInv' /\ GroupsGo
    <2>1. rows \subseteq rows'
      BY <1>7 DEF CommitUpload, Recount, WithRow, rows
    <2>2. QED
      BY <1>1, <1>7, <2>1, CommitUploadKeeps
  <1>8. ASSUME NEW t \in Threads, CommitDestroy(t)
        PROVE  IInv' /\ GroupsGo
    BY <1>8, CommitDestroyKeeps
  <1>9. ASSUME NEW t \in Threads, Rollback(t)
        PROVE  IInv' /\ GroupsGo
    <2>1. rows' = rows
      BY <1>9 DEF Rollback, rows
    <2>2. QED
      BY <1>1, <1>9, <2>1, RollbackKeeps
  <1>10. QED
    BY <1>2, <1>3, <1>4, <1>5, <1>6, <1>7, <1>8, <1>9 DEF Next

LEMMA InitHolds == Init => IInv
  <1> SUFFICES ASSUME Init
               PROVE  IInv
    OBVIOUS
  <1>1. saved = {} /\ rows = {} /\ DOMAIN request = Threads
    BY DEF Init, saved, rows
  <1>2. \A t \in Threads : request[t] = Idle /\ request[t].op = "idle"
    BY DEF Init, Idle
  <1>3. Typed /\ UploadsApart /\ UploadsFit /\ AccreditationStays
    BY <1>1, <1>2 DEF Typed, IsRequest, UploadsApart, UploadsFit, AccreditationStays
  <1>4. GroupsCounted /\ NoOrphan /\ SameTitle
    BY <1>1 DEF GroupsCounted, NoOrphan, SameTitle
  <1>5. OrphansChosen /\ AssignedRevisionsDistinct
    BY <1>1 DEF OrphansChosen, AssignedRevisionsDistinct
  <1>6. QED
    BY <1>3, <1>4, <1>5 DEF IInv

\* The inductive invariant holds of every behaviour.
THEOREM DocumentsInvariant == Spec => []IInv
  <1>1. IInv /\ UNCHANGED vars => IInv'
    BY StutterKeeps
  <1>2. IInv /\ [Next]_vars => IInv'
    BY <1>1, NextKeeps
  <1>3. QED
    BY <1>2, InitHolds, PTL DEF Spec

\* For any documents, groups, titles and threads: the counter by which groups are
\* dissolved is the number of documents, and no plain group is empty.
THEOREM GroupsAlwaysCounted == Spec => []GroupsCounted
  <1>1. IInv => GroupsCounted
    BY DEF IInv
  <1>2. QED
    BY <1>1, DocumentsInvariant, PTL

\* For any documents, groups, titles and threads: every document is in a group
\* that is there.
THEOREM NeverOrphaned == Spec => []NoOrphan
  <1>1. IInv => NoOrphan
    BY DEF IInv
  <1>2. QED
    BY <1>1, DocumentsInvariant, PTL

\* For any documents, groups, titles and threads: the documents of an accreditation
\* group have its title and type.
THEOREM AlwaysSameTitle == Spec => []SameTitle
  <1>1. IInv => SameTitle
    BY DEF IInv
  <1>2. QED
    BY <1>1, DocumentsInvariant, PTL

\* For any documents, groups, titles and threads: a revision that is worked out is
\* not repeated in its group.
THEOREM RevisionsAlwaysDistinct == Spec => []AssignedRevisionsDistinct
  <1>1. IInv => AssignedRevisionsDistinct
    BY DEF IInv
  <1>2. QED
    BY <1>1, DocumentsInvariant, PTL

\* For any documents, groups, titles and threads: an accreditation group goes only
\* with its title, a plain one only with its last document.
THEOREM GroupsAlwaysKept == Spec => GroupsKept
  <1>1. IInv /\ Next =>
          \A g \in rows \ (disturbed \cup disturbed') :
              g \notin rows' =>
                  IF groups[g].accreditation THEN groups[g].title \notin configured'
                  ELSE Cardinality(members(g) \ saved') <= 1
    BY NextKeeps DEF GroupsGo
  <1>2. QED
    BY <1>1, DocumentsInvariant, PTL DEF Spec, GroupsKept
===============================================================================
