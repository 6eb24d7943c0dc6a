-------------------------- MODULE ComplaintRegister --------------------------
(***************************************************************************)
(* The register of complaints: a complaint gets a case reference when it   *)
(* is created, and keeps a history of its statuses and of its assignees.   *)
(*                                                                         *)
(* A request reads the database and later writes what it worked out, at    *)
(* the commit of its transaction; nothing in the schema (no unique index,  *)
(* no lock) stops another request's commit in between.                     *)
(***************************************************************************)
EXTENDS Integers, Sequences, FiniteSets

CONSTANTS
    Complaints,    \* ids of complaints; an id stands for a new row once destroyed
    Users,         \* users a complaint can be assigned to
    Statuses,      \* complaint statuses a user can choose
    InitialStatus, \* status given to a new complaint of the class modelled
    Memos,         \* status memos, as stored
    NoMemo,        \* a null status memo
    Undefined,     \* what a page submits for no memo: the text 'undefined'
    Threads,       \* server threads handling requests
    MaxTime,       \* bound: clock readings told apart at any time
    MaxYear,       \* bound: last year reached
    MaxAssigns,    \* bound: assignments of one complaint
    NoOne          \* no user, in a request that assigns nobody

ASSUME StatusAssumption == InitialStatus \in Statuses
ASSUME MemoAssumption == NoMemo \in Memos /\ Undefined \notin Memos
ASSUME BoundsAssumption == {MaxTime, MaxYear, MaxAssigns} \subseteq Nat
ASSUME NoOneAssumption == NoOne \notin Users

VARIABLES
    year,           \* current year, two digits in the code
    case_reference, \* complaint -> its [year, sequence], for complaints with a row
    status_changes, \* rows of the status_changes table
    assigns,        \* complaint -> its rows of the assigns table, oldest first
    request,        \* what each thread has read and not yet committed
    contended       \* history: complaints whose request overlapped with another

vars == <<year, case_reference, status_changes, assigns, request, contended>>

Idle == [op |-> "idle"]
Never == 0  \* a null end_date

saved == DOMAIN case_reference

Open == {t \in Threads : request[t] # Idle}
Held(c) == \E t \in Open : request[t].complaint = c

\* The clock: dates are only ever compared with the dates in the rows and in the
\* open requests, so a reading is a number above all of those.
Now ==
    LET dates == {s.change_date : s \in status_changes} \cup {request[t].date : t \in Open}
    IN  CHOOSE n \in 1..(Cardinality(dates) + MaxTime + 1) :
            /\ \A d \in dates : d < n
            /\ n = 1 \/ n - 1 \in dates

\* The complaints whose requests a request of kind op for c overlaps with: two
\* creates both read the highest reference, two updates the same history.
Contention(op, c) ==
    LET others == {request[t].complaint : t \in
                     {u \in Open : \/ request[u].complaint = c
                                   \/ op = "create" /\ request[u].op = "create"}}
    IN  IF others = {} THEN {} ELSE others \cup {c}

-----------------------------------------------------------------------------
\* Case references

RefLess(r, s) == r.year < s.year \/ (r.year = s.year /\ r.sequence < s.sequence)

\* CaseReference.max, over the references that are in the table
Highest(refs) == CHOOSE r \in refs : \A s \in refs : ~RefLess(r, s)

\* Mutant of InitParams: the number of references instead of the highest one.
InitParams_Counted(refs) ==
    [year |-> year,
     sequence |-> Cardinality({r \in refs : r.year = year}) + 1]

\* CaseReference#init_params: one more than the highest reference if that is of
\* this year, else the first of this year.
InitParams(refs) ==
    [year |-> year,
     sequence |-> IF refs # {} /\ Highest(refs).year = year
                  THEN Highest(refs).sequence + 1
                  ELSE 1]

-----------------------------------------------------------------------------
\* Status changes and assignments of one complaint

history(c) == {s \in status_changes : s.complaint = c}

Latest(S) == CHOOSE s \in S : \A o \in S : o.change_date <= s.change_date

current_status(c) == Latest(history(c))

\* What a page can submit as a memo, and what is stored of it.
Submitted == Memos \cup {Undefined}
Stored(memo) == IF memo = Undefined THEN NoMemo ELSE memo

\* status_changes_attributes=: a row is built only if the submitted status is
\* another one, or its memo is.  The memo is compared as it was submitted, so that
\* 'undefined' is another memo than none.
BuildsChange(c, status, memo) ==
    \/ status # current_status(c).status
    \/ memo # current_status(c).memo

\* Mutant of Closed: the earliest open row is ended.
Closed_First(c, date) ==
    LET first == CHOOSE s \in history(c) : \A o \in history(c) : s.change_date <= o.change_date
    IN  (status_changes \ {first}) \cup {[first EXCEPT !.end_date = date]}

\* Mutant of Closed: the date is written to the wrong column.
Closed_Redated(c, date) ==
    IF history(c) = {} THEN status_changes
    ELSE (status_changes \ {current_status(c)})
            \cup {[current_status(c) EXCEPT !.change_date = date]}

\* StatusChange before_create: the complaint's row with the latest change_date
\* ends when the new one starts.
Closed(c, date) ==
    IF history(c) = {} THEN status_changes
    ELSE (status_changes \ {current_status(c)})
            \cup {[current_status(c) EXCEPT !.end_date = date]}

\* notify_assignee, run when the row is built: `assigns` reads the table, so it
\* does not count the row being built.
Notifies(c) == Len(assigns[c]) > 1

\* The row a request adds to the assigns table, if it assigns anybody.
NewAssign(r) ==
    IF r.user = NoOne THEN <<>>
    ELSE <<[user |-> r.user, by |-> r.op, notified |-> r.notified]>>

\* Assignments c has, counting those that open requests would add.
AssignsOf(c) ==
    Len(assigns[c])
        + Cardinality({t \in Open : request[t].complaint = c /\ request[t].user # NoOne})

-----------------------------------------------------------------------------
Init ==
    /\ year = 1
    /\ case_reference = [c \in {} |-> 0]
    /\ status_changes = {}
    /\ assigns = [c \in {} |-> <<>>]
    /\ request = [t \in Threads |-> Idle]
    /\ contended = {}

\* The calendar year turns.
NewYear ==
    /\ year < MaxYear
    /\ year' = year + 1
    /\ UNCHANGED <<case_reference, status_changes, assigns, request, contended>>

\* ComplaintsController#create up to the read that allocates the reference
BeginCreate(t, c, user) ==
    /\ request[t] = Idle
    /\ c \notin saved /\ ~Held(c)
    /\ Now <= MaxTime
    /\ request' = [request EXCEPT ![t] =
          [op |-> "create", complaint |-> c, date |-> Now, user |-> user, notified |-> FALSE,
           reference |-> InitParams({case_reference[d] : d \in saved})]]
    /\ contended' = contended \cup Contention("create", c)
    /\ UNCHANGED <<year, case_reference, status_changes, assigns>>

\* The transaction of the create commits.
CommitCreate(t) ==
    /\ request[t].op = "create"
    /\ LET r == request[t]
       IN  /\ case_reference' = [c \in saved \cup {r.complaint} |->
                 IF c = r.complaint THEN r.reference ELSE case_reference[c]]
           /\ status_changes' = status_changes \cup
                 {[complaint |-> r.complaint, change_date |-> r.date, end_date |-> Never,
                   status |-> InitialStatus, memo |-> NoMemo]}
           /\ assigns' = [c \in saved \cup {r.complaint} |->
                 IF c = r.complaint THEN NewAssign(r) ELSE assigns[c]]
    /\ request' = [request EXCEPT ![t] = Idle]
    /\ UNCHANGED <<year, contended>>

\* ComplaintsController#update: the attributes are assigned.  The status change
\* gets its date and the new assignee's mail is sent here, before the save.
BeginUpdate(t, c, status, memo, user) ==
    /\ request[t] = Idle
    /\ c \in saved
    /\ user = NoOne \/ AssignsOf(c) < MaxAssigns
    /\ Now <= MaxTime
    /\ request' = [request EXCEPT ![t] =
          [op |-> "update", complaint |-> c, date |-> Now, user |-> user,
           builds |-> BuildsChange(c, status, memo), status |-> status, memo |-> memo,
           notified |-> user # NoOne /\ Notifies(c)]]
    /\ contended' = contended \cup Contention("update", c)
    /\ UNCHANGED <<year, case_reference, status_changes, assigns>>

\* The save writes the rows that were built.
CommitUpdate(t) ==
    /\ request[t].op = "update"
    /\ LET r == request[t]
       IN  /\ status_changes' =
                 IF ~r.builds THEN status_changes
                 ELSE Closed(r.complaint, r.date) \cup
                        {[complaint |-> r.complaint, change_date |-> r.date,
                          end_date |-> Never, status |-> r.status, memo |-> Stored(r.memo)]}
           /\ assigns' = [assigns EXCEPT ![r.complaint] = @ \o NewAssign(r)]
    /\ request' = [request EXCEPT ![t] = Idle]
    /\ UNCHANGED <<year, case_reference, contended>>

\* The save is rolled back; mail that was sent stays sent.
Rollback(t) ==
    /\ request[t] # Idle
    /\ request' = [request EXCEPT ![t] = Idle]
    /\ UNCHANGED <<year, case_reference, status_changes, assigns, contended>>

\* ComplaintsController#destroy, with everything that depends on the complaint
Destroy(c) ==
    /\ c \in saved /\ ~Held(c)
    /\ case_reference' = [d \in saved \ {c} |-> case_reference[d]]
    /\ status_changes' = status_changes \ history(c)
    /\ contended' = contended \ {c}
    /\ assigns' = [d \in saved \ {c} |-> assigns[d]]
    /\ UNCHANGED <<year, request>>

Next ==
    \/ NewYear
    \/ \E t \in Threads, c \in Complaints, u \in Users \cup {NoOne} : BeginCreate(t, c, u)
    \/ \E t \in Threads, c \in Complaints, s \in Statuses, m \in Submitted, u \in Users \cup {NoOne} :
          BeginUpdate(t, c, s, m, u)
    \/ \E t \in Threads : CommitCreate(t) \/ CommitUpdate(t) \/ Rollback(t)
    \/ \E c \in Complaints : Destroy(c)

Spec == Init /\ [][Next]_vars

-----------------------------------------------------------------------------
References == [year : 1..MaxYear, sequence : 1..MaxTime]

StatusChanges ==
    [complaint : Complaints, change_date : 1..MaxTime, end_date : {Never} \cup 1..MaxTime,
     status : Statuses, memo : Memos]

TypeOK ==
    /\ year \in 1..MaxYear
    /\ contended \subseteq Complaints
    /\ saved \subseteq Complaints /\ DOMAIN assigns = saved
    /\ \A c \in saved : case_reference[c] \in References
    /\ status_changes \subseteq StatusChanges
    /\ \A s \in status_changes : s.complaint \in saved
    /\ \A c \in saved : \A k \in DOMAIN assigns[c] :
          assigns[c][k] \in [user : Users, by : {"create", "update"}, notified : BOOLEAN]
    /\ \A t \in Threads : request[t].op \in {"idle", "create", "update"}

\* Complaints whose creates did not overlap with others are referenced in the
\* order they were created, across turns of the year and whatever was destroyed
\* or rolled back in between.
RefsInOrder ==
    \A c, d \in saved \ contended :
        (\E s \in history(c) : \A o \in history(d) : s.change_date < o.change_date)
            => RefLess(case_reference[c], case_reference[d])

\* No two complaints in the register have the same reference: what the unique
\* index of migration 20191030215908 stood for.
RefsUnique == \A c, d \in saved : c # d => case_reference[c] # case_reference[d]

\* What a status change says.
Stated(s) == <<s.status, s.memo>>

\* Unless two updates of it overlapped, a complaint's status changes follow on
\* from one another without gap or overlap: each ends when the next starts, only
\* the current one is open, and every one differs from the one before it, but that
\* a status without a memo may be repeated, still without one.
StatusHistory ==
    \A s \in {o \in status_changes : o.complaint \notin contended} :
        LET later == {o \in history(s.complaint) : o.change_date > s.change_date}
        IN  IF later = {} THEN s.end_date = Never
            ELSE \E next \in later :
                    /\ \A o \in later : next.change_date <= o.change_date
                    /\ s.end_date = next.change_date
                    /\ Stated(s) = Stated(next) => next.memo = NoMemo

\* A recorded status change is never rewritten, whatever requests overlap: it
\* keeps its date, status and memo while its complaint stays.
HistoryKept ==
    [][\A s \in status_changes :
          s.complaint \in saved' =>
              \E o \in status_changes' : o = [s EXCEPT !.end_date = o.end_date]]_vars

\* complaint.rb:172, "only create a status_change object if this is a new complaint
\* or if the status is changing": a status change says something else than the one
\* before it, unless updates overlapped.
StatusChanging ==
    \A s, next \in status_changes :
        (/\ s.complaint = next.complaint /\ s.complaint \notin contended
         /\ s.end_date = next.change_date)
            => Stated(s) # Stated(next)

\* complaint.rb:102, "i.e. when complaint is updated with a new assign": whoever
\* an update assigns the complaint to is notified.
NewAssigneeNotified ==
    \A c \in saved : \A k \in DOMAIN assigns[c] :
        assigns[c][k].by = "update" => assigns[c][k].notified
=============================================================================
