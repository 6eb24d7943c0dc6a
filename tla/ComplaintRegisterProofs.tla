------------------------ MODULE ComplaintRegisterProofs ------------------------
(***************************************************************************)
(* The register of complaints, for any number of users, complaints and     *)
(* threads: a recorded status change is never rewritten, however requests  *)
(* overlap; and when they do not, references are in the order of creation  *)
(* and the status changes of a complaint follow on from one another.       *)
(*                                                                         *)
(* The first is about one step: the commit of an update ends the row it    *)
(* takes for the current one, and all it changes is the end date.  The     *)
(* others need to know what each open request has read: that a create that *)
(* no other overlapped is later than all there is, and that an update that *)
(* no other overlapped has decided on the history that is there (IInv).    *)
(***************************************************************************)
EXTENDS ComplaintRegister, BoundedSets, FiniteSetTheorems, TLAPS

\* Every row is what its columns say, and nothing more.
Rows == \A s \in status_changes : s = [column \in DOMAIN s |-> s[column]]

\* s, as it is or with another end date, is among R.
KeptIn(s, R) == \E o \in R : o = [s EXCEPT !.end_date = o.end_date]

\* A row that stays as it is, is kept.
LEMMA Stays ==
    ASSUME NEW s, s = [column \in DOMAIN s |-> s[column]], NEW R, s \in R
    PROVE  KeptIn(s, R)
  <1>1. s = [s EXCEPT !.end_date = s.end_date]
    OBVIOUS
  <1>2. QED
    BY <1>1 DEF KeptIn

\* A row that gets an end date is kept.
LEMMA Ended ==
    ASSUME NEW s, NEW date, NEW R, [s EXCEPT !.end_date = date] \in R
    PROVE  KeptIn(s, R)
  <1> DEFINE o == [s EXCEPT !.end_date = date]
  <1>1. o = [s EXCEPT !.end_date = o.end_date]
    OBVIOUS
  <1>2. QED
    BY <1>1 DEF KeptIn

\* What a step does to the table: it takes no row away but those of complaints
\* that go, and rewrites none but for its end date.
Rewrites == \A s \in status_changes : s.complaint \in saved' => KeptIn(s, status_changes')

\* A table that only grows keeps its rows.
LEMMA Grows ==
    ASSUME Rows, NEW new, new = [column \in DOMAIN new |-> new[column]],
           status_changes' = status_changes \cup {new}
    PROVE  Rows' /\ Rewrites
  <1>1. Rows'
    BY DEF Rows
  <1>2. Rewrites
    BY Stays DEF Rows, Rewrites
  <1>3. QED
    BY <1>1, <1>2

\* Rows that nothing touches are kept.
LEMMA Same ==
    ASSUME Rows, status_changes' = status_changes
    PROVE  Rows' /\ Rewrites
  BY Stays DEF Rows, Rewrites

\* The commit of an update ends a row and adds one, if it built any.
LEMMA CommitUpdateRewrites ==
    ASSUME Rows, NEW t \in Threads, CommitUpdate(t)
    PROVE  Rows' /\ Rewrites
  <1> DEFINE r    == request[t]
             cur  == current_status(r.complaint)
             over == [cur EXCEPT !.end_date = r.date]
             new  == [complaint |-> r.complaint, change_date |-> r.date,
                      end_date |-> Never, status |-> r.status, memo |-> Stored(r.memo)]
  <1>1. CASE ~r.builds
    BY <1>1, Same DEF CommitUpdate
  <1>2. new = [column \in DOMAIN new |-> new[column]]
    OBVIOUS
  <1>3. over = [column \in DOMAIN over |-> over[column]]
    OBVIOUS
  <1>4. CASE r.builds /\ history(r.complaint) = {}
    <2>1. status_changes' = status_changes \cup {new}
      BY <1>4 DEF CommitUpdate, Closed
    <2> HIDE DEF new
    <2>2. QED
      BY <2>1, <1>2, Grows
  <1>5. CASE r.builds /\ history(r.complaint) # {}
    <2>1. status_changes' = (status_changes \ {cur}) \cup {over} \cup {new}
      BY <1>5 DEF CommitUpdate, Closed
    <2> HIDE DEF new, cur
    <2>2. \A s \in status_changes : KeptIn(s, status_changes')
      <3> SUFFICES ASSUME NEW s \in status_changes
                   PROVE  KeptIn(s, status_changes')
        OBVIOUS
      <3>1. CASE s = cur
        <4>1. [s EXCEPT !.end_date = r.date] \in status_changes'
          BY <3>1, <2>1
        <4> HIDE DEF r
        <4>2. QED
          BY <4>1, Ended
      <3>2. CASE s # cur
        <4>1. s \in status_changes'
          BY <3>2, <2>1
        <4>2. QED
          BY <4>1, Stays DEF Rows
      <3>3. QED
        BY <3>1, <3>2
    <2> HIDE DEF over
    <2>3. Rows'
      BY <2>1, <1>2, <1>3 DEF Rows
    <2>4. QED
      BY <2>2, <2>3 DEF Rewrites
  <1>6. QED
    BY <1>1, <1>4, <1>5

\* For any complaints, users, statuses and threads: whatever requests overlap,
\* a status change keeps its date, status and memo while its complaint stays.
THEOREM HistoryAlwaysKept == Spec => HistoryKept
  <1>1. Init => Rows
    BY DEF Init, Rows
  <1>2. ASSUME Rows, [Next]_vars
        PROVE  Rows' /\ Rewrites
    <2>1. ASSUME NEW t \in Threads, CommitCreate(t)
          PROVE  Rows' /\ Rewrites
      <3> DEFINE new == [complaint |-> request[t].complaint, change_date |-> request[t].date,
                         end_date |-> Never, status |-> InitialStatus, memo |-> NoMemo]
      <3>1. new = [column \in DOMAIN new |-> new[column]]
        OBVIOUS
      <3>2. status_changes' = status_changes \cup {new}
        BY <2>1 DEF CommitCreate
      <3> HIDE DEF new
      <3>3. QED
        BY <1>2, <3>1, <3>2, Grows
    <2>2. ASSUME NEW t \in Threads, CommitUpdate(t)
          PROVE  Rows' /\ Rewrites
      BY <1>2, <2>2, CommitUpdateRewrites
    <2>3. ASSUME NEW c \in Complaints, Destroy(c)
          PROVE  Rows' /\ Rewrites
      <3>1. status_changes' = {s \in status_changes : s.complaint # c}
        BY <2>3 DEF Destroy, history
      <3>2. c \notin saved'
        BY <2>3 DEF Destroy, saved
      <3>3. Rows'
        BY <1>2, <3>1 DEF Rows
      <3>4. Rewrites
        BY <1>2, <3>1, <3>2, Stays DEF Rows, Rewrites
      <3>5. QED
        BY <3>3, <3>4
    <2>4. CASE status_changes' = status_changes
      BY <1>2, <2>4, Same
    <2>5. QED
      BY <1>2, <2>1, <2>2, <2>3, <2>4
      DEF Next, vars, NewYear, BeginCreate, BeginUpdate, Rollback
  <1>3. Rewrites /\ Next => \A s \in status_changes :
          s.complaint \in saved' =>
              \E o \in status_changes' : o = [s EXCEPT !.end_date = o.end_date]
    BY DEF Rewrites, KeptIn
  <1>4. QED
    BY <1>1, <1>2, <1>3, PTL DEF Spec, HistoryKept
-------------------------------------------------------------------------------
\* What requests and rows are made of.

AnyReference == [year : Nat, sequence : 0 .. MaxTime]

Creates ==
    [op : {"create"}, complaint : Complaints, date : 1..MaxTime, user : Users \cup {NoOne},
     notified : {FALSE}, reference : AnyReference]

Updates ==
    [op : {"update"}, complaint : Complaints, date : 1..MaxTime, user : Users \cup {NoOne},
     builds : BOOLEAN, status : Statuses, memo : Submitted, notified : BOOLEAN]

Typed ==
    /\ year \in Nat
    /\ saved \subseteq Complaints
    /\ \A c \in saved : case_reference[c] \in AnyReference
    /\ \A s \in status_changes : s \in StatusChanges /\ s.complaint \in saved
    /\ \A t \in Threads : request[t] \in {Idle} \cup Creates \cup Updates
    /\ DOMAIN request = Threads

\* The row that a current one is replaced by.
Ending(s, date) == [s EXCEPT !.end_date = date]

\* The row that a request adds.
Added(r) ==
    [complaint |-> r.complaint, change_date |-> r.date, end_date |-> Never,
     status |-> r.status, memo |-> Stored(r.memo)]

Initial(r) ==
    [complaint |-> r.complaint, change_date |-> r.date, end_date |-> Never,
     status |-> InitialStatus, memo |-> NoMemo]

\* Ending a row changes its end date alone.
LEMMA EndingIs ==
    ASSUME NEW s \in StatusChanges, NEW date \in 1..MaxTime
    PROVE  /\ Ending(s, date) \in StatusChanges
           /\ Ending(s, date).complaint = s.complaint
           /\ Ending(s, date).change_date = s.change_date
           /\ Ending(s, date).end_date = date
           /\ Ending(s, date).status = s.status
           /\ Ending(s, date).memo = s.memo
  BY DEF Ending, StatusChanges

\* The latest of some rows is one of them, and none is later.
LEMMA LatestIs ==
    ASSUME NEW S, S \subseteq StatusChanges, S # {}
    PROVE  /\ Latest(S) \in S
           /\ \A o \in S : o.change_date <= Latest(S).change_date
  <1> DEFINE dates == {s.change_date : s \in S}
  <1>1. dates \subseteq 0 .. MaxTime /\ dates # {}
    BY DEF StatusChanges
  <1>2. PICK d \in dates : \A e \in dates : e <= d
    <2> HIDE DEF dates
    <2>1. MaxTime \in Nat
      BY BoundsAssumption
    <2>2. QED
      BY <1>1, <2>1, Greatest
  <1>3. PICK s \in S : s.change_date = d
    OBVIOUS
  <1>4. \A o \in S : o.change_date <= s.change_date
    BY <1>2, <1>3
  <1>5. QED
    BY <1>4 DEF Latest

\* A request's clock reading is later than any date there is.
LEMMA NowIsLater ==
    ASSUME Typed
    PROVE  /\ Now \in Nat \ {0}
           /\ \A s \in status_changes : s.change_date < Now
           /\ \A t \in Open : request[t].date < Now
  <1> DEFINE dates == {s.change_date : s \in status_changes} \cup {request[t].date : t \in Open}
             top == Cardinality(dates) + MaxTime + 1
  <1>1. dates \subseteq 1 .. MaxTime
    <2>1. \A s \in status_changes : s.change_date \in 1 .. MaxTime
      BY DEF Typed, StatusChanges
    <2>2. \A t \in Open : request[t].date \in 1 .. MaxTime
      BY DEF Typed, Open, Creates, Updates
    <2>3. QED
      BY <2>1, <2>2
  <1>2. MaxTime \in Nat
    BY BoundsAssumption
  <1>3. Cardinality(dates) \in Nat
    <2> HIDE DEF dates
    <2>1. IsFiniteSet(1 .. MaxTime)
      BY <1>2, FS_Interval
    <2>2. QED
      BY <1>1, <2>1, FS_Subset, FS_CardinalityType
  <1>4. \E n \in 1 .. top : (\A d \in dates : d < n) /\ (n = 1 \/ n - 1 \in dates)
    <2> HIDE DEF dates
    <2>1. CASE dates = {}
      <3>1. 1 \in 1 .. top
        BY <1>2, <1>3
      <3>2. QED
        BY <2>1, <3>1
    <2>2. CASE dates # {}
      <3>1. PICK d \in dates : \A e \in dates : e <= d
        <4>1. dates \subseteq 0 .. MaxTime
          BY <1>1
        <4>2. QED
          BY <2>2, <4>1, <1>2, Greatest
      <3>2. d + 1 \in 1 .. top /\ \A e \in dates : e < d + 1
        BY <1>1, <1>2, <1>3, <3>1
      <3>3. QED
        BY <1>1, <3>2
    <2>3. QED
      BY <2>1, <2>2
  <1>5. Now = CHOOSE n \in 1 .. top : (\A d \in dates : d < n) /\ (n = 1 \/ n - 1 \in dates)
    BY DEF Now
  <1>6. Now \in 1 .. top /\ \A d \in dates : d < Now
    <2> HIDE DEF dates, top
    <2>1. QED
      BY <1>4, <1>5
  <1>7. QED
    BY <1>6
-------------------------------------------------------------------------------
\* The highest of some references is one of them, and none is above it: among
\* those of the last year, the last.
LEMMA HighestIs ==
    ASSUME NEW refs, refs \subseteq AnyReference, refs # {},
           NEW y \in Nat, \A r \in refs : r.year <= y
    PROVE  /\ Highest(refs) \in refs
           /\ \A s \in refs : ~RefLess(Highest(refs), s)
  <1> DEFINE years == {r.year : r \in refs}
  <1>1. PICK last \in years : \A e \in years : e <= last
    <2>1. years \subseteq 0 .. y /\ years # {}
      BY DEF AnyReference
    <2> HIDE DEF years
    <2>2. QED
      BY <2>1, Greatest
  <1> DEFINE sequences == {r.sequence : r \in {s \in refs : s.year = last}}
  <1>2. PICK top \in sequences : \A e \in sequences : e <= top
    <2>1. sequences \subseteq 0 .. MaxTime /\ sequences # {} /\ MaxTime \in Nat
      BY BoundsAssumption DEF AnyReference
    <2> HIDE DEF sequences
    <2>2. QED
      BY <2>1, Greatest
  <1>3. PICK r \in refs : r.year = last /\ r.sequence = top
    OBVIOUS
  <1>4. ASSUME NEW s \in refs
        PROVE  ~RefLess(r, s)
    <2>1. s.year <= last /\ (s.year = last => s.sequence <= top)
      BY <1>1, <1>2
    <2>2. {r.year, s.year, r.sequence, s.sequence} \subseteq Nat
      BY BoundsAssumption DEF AnyReference
    <2> HIDE DEF years, sequences
    <2>3. QED
      BY <2>1, <2>2, <1>3 DEF RefLess
  <1>5. QED
    BY <1>3, <1>4 DEF Highest

\* A new reference is of this year and above all that there are, by one.
LEMMA NewReference ==
    ASSUME year \in Nat, NEW refs, refs \subseteq AnyReference, \A r \in refs : r.year <= year
    PROVE  /\ InitParams(refs).year = year
           /\ InitParams(refs).sequence \in Nat
           /\ \A s \in refs : RefLess(s, InitParams(refs))
           /\ \/ InitParams(refs).sequence = 1
              \/ \E s \in refs : InitParams(refs).sequence = s.sequence + 1
  <1> DEFINE new == InitParams(refs)
             high == Highest(refs)
  <1>1. \A r \in refs : r.year \in Nat /\ r.sequence \in Nat
    BY BoundsAssumption DEF AnyReference
  <1>2. new.year = year
    BY DEF InitParams
  <1>3. CASE refs = {}
    BY <1>2, <1>3 DEF InitParams
  <1>4. CASE refs # {} /\ high.year = year
    <2>1. high \in refs /\ \A s \in refs : ~RefLess(high, s)
      BY <1>4, HighestIs
    <2>2. new.sequence = high.sequence + 1
      BY <1>4 DEF InitParams
    <2>3. \A s \in refs : RefLess(s, new)
      <3> SUFFICES ASSUME NEW s \in refs
                   PROVE  s.year < year \/ (s.year = year /\ s.sequence < high.sequence + 1)
        BY <1>2, <2>2 DEF RefLess
      <3>1. ~RefLess(high, s)
        BY <2>1
      <3> HIDE DEF high
      <3>2. QED
        BY <1>1, <1>4, <2>1, <3>1 DEF RefLess
    <2> HIDE DEF high
    <2>4. QED
      BY <1>1, <1>2, <2>1, <2>2, <2>3
  <1>5. CASE refs # {} /\ high.year # year
    <2>1. high \in refs /\ \A s \in refs : ~RefLess(high, s)
      BY <1>5, HighestIs
    <2>2. new.sequence = 1
      BY <1>5 DEF InitParams
    <2>3. \A s \in refs : s.year < year
      <3> SUFFICES ASSUME NEW s \in refs
                   PROVE  s.year < year
        OBVIOUS
      <3>1. ~RefLess(high, s)
        BY <2>1
      <3>2. high.year < year
        <4> HIDE DEF high
        <4>1. QED
          BY <1>1, <1>5, <2>1
      <3> HIDE DEF high
      <3>3. QED
        BY <1>1, <2>1, <3>1, <3>2 DEF RefLess
    <2> HIDE DEF high
    <2>4. QED
      BY <1>1, <1>2, <2>2, <2>3 DEF RefLess
  <1>6. QED
    BY <1>3, <1>4, <1>5
-------------------------------------------------------------------------------
\* The inductive invariant.

\* No reference is of a year that has not begun.
YearsPast ==
    /\ \A c \in saved : case_reference[c].year <= year
    /\ \A t \in Threads : request[t].op = "create" => request[t].reference.year <= year

\* A sequence number has its place in time: the numbers below it were given to
\* earlier creates.
Dated ==
    /\ \A c \in saved : \E s \in history(c) : case_reference[c].sequence <= s.change_date
    /\ \A t \in Threads : request[t].op = "create" => request[t].reference.sequence <= request[t].date

\* What a request is about: a complaint that is not there yet and nobody else's,
\* or one that is there and has a past.
Targets ==
    \A t \in Threads :
        /\ request[t].op = "create" =>
              /\ request[t].complaint \notin saved
              /\ \A u \in Threads \ {t} :
                    request[u] # Idle => request[u].complaint # request[t].complaint
        /\ request[t].op = "update" =>
              /\ request[t].complaint \in saved
              /\ \E s \in history(request[t].complaint) : s.change_date < request[t].date

\* A create that no other overlapped is later than every complaint there is, by
\* its reference and by its date.
CreateIsLast ==
    \A t \in Threads :
        request[t].op = "create" /\ request[t].complaint \notin contended =>
            /\ \A u \in Threads \ {t} : request[u].op # "create"
            /\ \A c \in saved : /\ RefLess(case_reference[c], request[t].reference)
                                /\ \E s \in history(c) : s.change_date < request[t].date

\* Two requests about one complaint make it contended.
Alone ==
    \A t, u \in Threads :
        t # u /\ request[t] # Idle /\ request[u] # Idle
              /\ request[t].complaint = request[u].complaint
            => request[t].complaint \in contended

\* An update that no other overlapped has decided on the history that is there.
UpdateIsCurrent ==
    \A t \in Threads :
        request[t].op = "update" /\ request[t].complaint \notin contended =>
            /\ \A s \in history(request[t].complaint) : s.change_date < request[t].date
            /\ request[t].builds =
                  BuildsChange(request[t].complaint, request[t].status, request[t].memo)

\* The rows of H that come after s, and s as StatusHistory has it.
After(H, s) == {o \in H : o.change_date > s.change_date}

Linked(H, s) ==
    IF After(H, s) = {} THEN s.end_date = Never
    ELSE \E next \in After(H, s) :
            /\ \A o \in After(H, s) : next.change_date <= o.change_date
            /\ s.end_date = next.change_date
            /\ Stated(s) = Stated(next) => next.memo = NoMemo

\* Rows that follow on from one another, with no date twice.
Follows(H) ==
    /\ \A s, o \in H : s.change_date = o.change_date => s = o
    /\ \A s \in H : Linked(H, s)

\* The history of a complaint, followed on from.
Chained(c) == Follows(history(c))

IInv ==
    /\ Typed /\ YearsPast /\ Dated /\ Targets
    /\ CreateIsLast /\ RefsInOrder
    /\ Alone /\ UpdateIsCurrent
    /\ \A c \in saved \ contended : Chained(c)
-------------------------------------------------------------------------------
\* A request is told by its op.
LEMMA Ops ==
    ASSUME Typed, NEW t \in Threads
    PROVE  /\ request[t] = Idle <=> request[t].op = "idle"
           /\ request[t].op = "create" <=> request[t] \in Creates
           /\ request[t].op = "update" <=> request[t] \in Updates
           /\ request[t].op \in {"idle", "create", "update"}
  <1>1. request[t] \in {Idle} \cup Creates \cup Updates
    BY DEF Typed
  <1>2. Idle.op = "idle"
    BY DEF Idle
  <1>3. \A r \in Creates : r.op = "create"
    BY DEF Creates
  <1>4. \A r \in Updates : r.op = "update"
    BY DEF Updates
  <1>5. QED
    BY <1>1, <1>2, <1>3, <1>4

\* What the history of a complaint says follows from its rows.
LEMMA SameHistory ==
    ASSUME NEW c, history(c)' = history(c)
    PROVE  /\ Chained(c)' <=> Chained(c)
           /\ \A status, memo : BuildsChange(c, status, memo)' = BuildsChange(c, status, memo)
  BY DEF Chained, BuildsChange, current_status

\* The turn of the year moves nothing.
LEMMA NewYearKeeps ==
    ASSUME IInv, NewYear
    PROVE  IInv'
  <1>1. UNCHANGED <<case_reference, status_changes, request, contended>> /\ year' = year + 1
    BY DEF NewYear
  <1>2. Typed'
    BY <1>1 DEF IInv, Typed, saved
  <1>3. YearsPast'
    <2>1. \A c \in saved : case_reference[c].year \in Nat
      BY DEF IInv, Typed, AnyReference
    <2>2. \A t \in Threads : request[t].op = "create" => request[t].reference.year \in Nat
      BY Ops DEF IInv, Creates, AnyReference
    <2>3. year \in Nat
      BY DEF IInv, Typed
    <2>4. QED
      BY <1>1, <2>1, <2>2, <2>3 DEF IInv, YearsPast, saved
  <1>4. saved' = saved /\ \A c : history(c)' = history(c)
    BY <1>1 DEF saved, history
  <1>5. Dated' /\ Targets'
    BY <1>1, <1>4 DEF IInv, Dated, Targets
  <1>6. CreateIsLast' /\ RefsInOrder' /\ Alone'
    BY <1>1, <1>4 DEF IInv, CreateIsLast, RefsInOrder, Alone
  <1>7. UpdateIsCurrent' /\ \A c \in saved' \ contended' : Chained(c)'
    BY <1>1, <1>4, SameHistory DEF IInv, UpdateIsCurrent
  <1>8. QED
    BY <1>2, <1>3, <1>5, <1>6, <1>7 DEF IInv

\* A request that is given up leaves the others as they were.
LEMMA RollbackKeeps ==
    ASSUME IInv, NEW t \in Threads, Rollback(t)
    PROVE  IInv'
  <1>1. UNCHANGED <<year, case_reference, status_changes, contended>>
        /\ request' = [request EXCEPT ![t] = Idle]
    BY DEF Rollback
  <1>2. DOMAIN request = Threads
    BY DEF IInv, Typed
  <1>3. \A u \in Threads : request'[u] = IF u = t THEN Idle ELSE request[u]
    BY <1>1, <1>2
  <1>4. request'[t].op = "idle"
    BY <1>3 DEF Idle
  <1>5. Typed'
    BY <1>1, <1>2, <1>3 DEF IInv, Typed, saved
  <1>6. YearsPast' /\ Dated'
    BY <1>1, <1>3, <1>4 DEF IInv, YearsPast, Dated, saved, history
  <1>7. Targets' /\ Alone'
    BY <1>1, <1>3, <1>4 DEF IInv, Targets, Alone, saved, history
  <1>8. CreateIsLast' /\ RefsInOrder'
    BY <1>1, <1>3, <1>4 DEF IInv, CreateIsLast, RefsInOrder, saved, history
  <1>9. \A c : history(c)' = history(c)
    BY <1>1 DEF history
  <1>10. UpdateIsCurrent' /\ \A c \in saved' \ contended' : Chained(c)'
    BY <1>1, <1>3, <1>4, <1>9, SameHistory DEF IInv, UpdateIsCurrent, saved
  <1>11. QED
    BY <1>5, <1>6, <1>7, <1>8, <1>9, <1>10 DEF IInv

\* Requests that overlap make each other's complaints contended.
LEMMA ContentionIs ==
    ASSUME NEW op, NEW c, NEW u \in Open,
           request[u].complaint = c \/ (op = "create" /\ request[u].op = "create")
    PROVE  {c, request[u].complaint} \subseteq Contention(op, c)
  BY DEF Contention

\* Another request comes to stand beside those there are: what is said of the
\* requests holds of it, and of the others as before.
LEMMA BeginKeeps ==
    ASSUME IInv, NEW t \in Threads, request[t] = Idle, NEW r \in Creates \cup Updates,
           UNCHANGED <<year, case_reference, status_changes>>,
           request' = [request EXCEPT ![t] = r],
           contended' = contended \cup Contention(r.op, r.complaint),
           r.op = "create" =>
              /\ r.complaint \notin saved /\ ~Held(r.complaint)
              /\ r.reference.year <= year /\ r.reference.sequence <= r.date
              /\ \A c \in saved : RefLess(case_reference[c], r.reference),
           r.op = "update" =>
              /\ r.complaint \in saved
              /\ r.builds = BuildsChange(r.complaint, r.status, r.memo),
           \A s \in status_changes : s.change_date < r.date
    PROVE  IInv'
  <1>1. \A u \in Threads : request'[u] = IF u = t THEN r ELSE request[u]
    BY DEF IInv, Typed
  <1>2. saved' = saved /\ \A c : history(c)' = history(c)
    BY DEF saved, history
  <1>3. r.op \in {"create", "update"} /\ r # Idle
    <2>1. r.op \in {"create", "update"}
      BY DEF Creates, Updates
    <2>2. Idle.op = "idle"
      BY DEF Idle
    <2>3. QED
      BY <2>1, <2>2
  <1>4. \A u \in Threads \ {t} :
           (/\ request[u] # Idle
            /\ request[u].complaint = r.complaint \/ (r.op = "create" /\ request[u].op = "create"))
              => {r.complaint, request[u].complaint} \subseteq contended'
    <2> SUFFICES ASSUME NEW u \in Threads \ {t}, request[u] # Idle,
                        \/ request[u].complaint = r.complaint
                        \/ r.op = "create" /\ request[u].op = "create"
                 PROVE  {r.complaint, request[u].complaint} \subseteq contended'
      OBVIOUS
    <2>1. u \in Open
      BY DEF Open
    <2>2. {r.complaint, request[u].complaint} \subseteq Contention(r.op, r.complaint)
      BY <2>1, ContentionIs
    <2>3. QED
      BY <2>2
  <1>5. \A u \in Threads : request[u].op = "create" => request[u] # Idle
    BY DEF Idle
  <1>6. contended \subseteq contended'
    OBVIOUS
  <1>7. Typed'
    BY <1>1, <1>2 DEF IInv, Typed
  <1>8. YearsPast' /\ Dated'
    BY <1>1, <1>2, <1>3 DEF IInv, YearsPast, Dated
  <1>9. \A c \in saved : \E s \in history(c) : s.change_date < r.date
    BY DEF IInv, Dated, history
  <1>10. Targets'
    <2> SUFFICES ASSUME NEW u \in Threads
                 PROVE  /\ request'[u].op = "create" =>
                            /\ request'[u].complaint \notin saved'
                            /\ \A v \in Threads \ {u} :
                                 request'[v] # Idle => request'[v].complaint # request'[u].complaint
                        /\ request'[u].op = "update" =>
                            /\ request'[u].complaint \in saved'
                            /\ \E s \in history(request'[u].complaint) :
                                 s.change_date < request'[u].date
      BY <1>2 DEF Targets, Idle
    <2>1. CASE u = t
      <3>1. request'[u] = r
        BY <1>1, <2>1
      <3>2. r.op = "create" => \A v \in Threads \ {u} :
               request'[v] # Idle => request'[v].complaint # r.complaint
        BY <1>1, <2>1 DEF Held, Open
      <3>3. QED
        BY <1>2, <1>3, <1>9, <3>1, <3>2
    <2>2. CASE u # t
      <3>1. request'[u] = request[u]
        BY <1>1, <2>2
      <3>2. request[u].op = "create" => request[u].complaint # r.complaint
        <4>1. r.op = "create" => (request[u] # Idle => request[u].complaint # r.complaint)
          BY DEF Held, Open
        <4>2. request[u].op = "create" => request[u].complaint \notin saved
          BY DEF IInv, Targets
        <4>3. QED
          BY <1>3, <1>5, <4>1, <4>2
      <3>3. QED
        BY <1>1, <1>2, <3>1, <3>2 DEF IInv, Targets
    <2>3. QED
      BY <2>1, <2>2
  <1>11. CreateIsLast'
    <2> SUFFICES ASSUME NEW u \in Threads, request'[u].op = "create",
                        request'[u].complaint \notin contended'
                 PROVE  /\ \A v \in Threads \ {u} : request'[v].op # "create"
                        /\ \A c \in saved : /\ RefLess(case_reference[c], request'[u].reference)
                                            /\ \E s \in history(c) : s.change_date < request'[u].date
      BY <1>2 DEF CreateIsLast
    <2>1. CASE u = t
      BY <1>1, <1>4, <1>5, <1>9, <2>1
    <2>2. CASE u # t
      <3>1. request'[u] = request[u]
        BY <1>1, <2>2
      <3>2. r.op # "create"
        BY <1>4, <1>5, <2>2, <3>1
      <3>3. QED
        BY <1>1, <1>6, <2>2, <3>1, <3>2 DEF IInv, CreateIsLast
    <2>3. QED
      BY <2>1, <2>2
  <1>12. RefsInOrder'
    BY <1>2, <1>6 DEF IInv, RefsInOrder
  <1>13. Alone'
    <2> SUFFICES ASSUME NEW u \in Threads, NEW v \in Threads, u # v, request'[u] # Idle,
                        request'[v] # Idle, request'[u].complaint = request'[v].complaint
                 PROVE  request'[u].complaint \in contended'
      BY DEF Alone, Idle
    <2>1. CASE u = t
      BY <1>1, <1>4, <2>1
    <2>2. CASE v = t
      BY <1>1, <1>4, <2>2
    <2>3. CASE u # t /\ v # t
      BY <1>1, <1>6, <2>3 DEF IInv, Alone
    <2>4. QED
      BY <2>1, <2>2, <2>3
  <1>14. UpdateIsCurrent'
    <2> SUFFICES ASSUME NEW u \in Threads, request'[u].op = "update",
                        request'[u].complaint \notin contended'
                 PROVE  /\ \A s \in history(request'[u].complaint) : s.change_date < request'[u].date
                        /\ request'[u].builds =
                             BuildsChange(request'[u].complaint, request'[u].status, request'[u].memo)
      BY <1>2, SameHistory DEF UpdateIsCurrent
    <2>1. CASE u = t
      BY <1>1, <2>1 DEF history
    <2>2. CASE u # t
      BY <1>1, <1>6, <2>2 DEF IInv, UpdateIsCurrent
    <2>3. QED
      BY <2>1, <2>2
  <1>15. \A c \in saved' \ contended' : Chained(c)'
    BY <1>2, <1>6, SameHistory DEF IInv
  <1>16. QED
    BY <1>7, <1>8, <1>10, <1>11, <1>12, <1>13, <1>14, <1>15 DEF IInv

\* A create begins with a reference above all that it reads.
LEMMA BeginCreateKeeps ==
    ASSUME IInv, NEW t \in Threads, NEW c \in Complaints, NEW user \in Users \cup {NoOne},
           BeginCreate(t, c, user)
    PROVE  IInv'
  <1> DEFINE refs == {case_reference[d] : d \in saved}
             new == InitParams(refs)
             r == [op |-> "create", complaint |-> c, date |-> Now, user |-> user,
                   notified |-> FALSE, reference |-> new]
  <1>1. Typed /\ YearsPast /\ Dated
    BY DEF IInv
  <1>2. refs \subseteq AnyReference /\ year \in Nat /\ \A e \in refs : e.year <= year
    BY <1>1 DEF Typed, YearsPast
  <1>3. /\ new.year = year /\ new.sequence \in Nat
        /\ \A d \in saved : RefLess(case_reference[d], new)
        /\ \/ new.sequence = 1
           \/ \E d \in saved : new.sequence = case_reference[d].sequence + 1
    <2> HIDE DEF new
    <2>1. /\ InitParams(refs).year = year /\ InitParams(refs).sequence \in Nat
          /\ \A e \in refs : RefLess(e, InitParams(refs))
          /\ \/ InitParams(refs).sequence = 1
             \/ \E e \in refs : InitParams(refs).sequence = e.sequence + 1
      <3> HIDE DEF refs
      <3>1. QED
        BY <1>2, NewReference
    <2>2. QED
      BY <2>1 DEF new
  <1>4. /\ Now \in 1 .. MaxTime
        /\ \A s \in status_changes : s.change_date < Now
    <2>1. Now <= MaxTime
      BY DEF BeginCreate
    <2> HIDE DEF new
    <2>2. QED
      BY <1>1, <2>1, NowIsLater, BoundsAssumption
  <1>5. new.sequence <= Now
    <2>1. CASE new.sequence = 1
      BY <1>4, <2>1
    <2>2. ASSUME NEW d \in saved, new.sequence = case_reference[d].sequence + 1
          PROVE  new.sequence <= Now
      <3>1. PICK s \in history(d) : case_reference[d].sequence <= s.change_date
        BY <1>1 DEF Dated
      <3>2. s \in status_changes /\ s.change_date \in Nat
        BY <1>1 DEF history, Typed, StatusChanges
      <3>3. s.change_date < Now /\ case_reference[d].sequence \in Nat
        BY <1>1, <1>4, <3>2 DEF Typed, AnyReference
      <3> HIDE DEF new
      <3>4. QED
        BY <1>4, <2>2, <3>1, <3>2, <3>3
    <2>3. QED
      BY <1>3, <2>1, <2>2
  <1>6. new \in AnyReference
    <2>1. new = [year |-> new.year, sequence |-> new.sequence]
      BY DEF InitParams
    <2> HIDE DEF new
    <2>2. new.sequence \in 0 .. MaxTime
      BY <1>3, <1>4, <1>5, BoundsAssumption
    <2>3. QED
      BY <1>2, <1>3, <2>1, <2>2 DEF AnyReference
  <1>7. /\ request[t] = Idle /\ c \notin saved /\ ~Held(c)
        /\ UNCHANGED <<year, case_reference, status_changes>>
        /\ request' = [request EXCEPT ![t] = r]
        /\ contended' = contended \cup Contention("create", c)
    BY DEF BeginCreate
  <1> HIDE DEF new
  <1>8. r \in Creates
    BY <1>4, <1>6 DEF Creates
  <1>9. /\ r.op = "create" /\ r.complaint = c /\ r.date = Now /\ r.reference = new
    OBVIOUS
  <1>10. new.year <= year
    BY <1>2, <1>3
  <1> HIDE DEF r
  <1>11. QED
    BY <1>3, <1>4, <1>5, <1>7, <1>8, <1>9, <1>10, BeginKeeps

\* An update begins with the status that is current.
LEMMA BeginUpdateKeeps ==
    ASSUME IInv, NEW t \in Threads, NEW c \in Complaints, NEW status \in Statuses,
           NEW memo \in Submitted, NEW user \in Users \cup {NoOne},
           BeginUpdate(t, c, status, memo, user)
    PROVE  IInv'
  <1> DEFINE builds == BuildsChange(c, status, memo)
             notified == user # NoOne /\ Notifies(c)
             r == [op |-> "update", complaint |-> c, date |-> Now, user |-> user,
                   builds |-> builds, status |-> status, memo |-> memo, notified |-> notified]
  <1>1. /\ request[t] = Idle /\ c \in saved
        /\ UNCHANGED <<year, case_reference, status_changes>>
        /\ request' = [request EXCEPT ![t] = r]
        /\ contended' = contended \cup Contention("update", c)
    BY DEF BeginUpdate
  <1>2. /\ Now \in 1 .. MaxTime
        /\ \A s \in status_changes : s.change_date < Now
    <2>1. Now <= MaxTime
      BY DEF BeginUpdate
    <2>2. QED
      BY <2>1, NowIsLater, BoundsAssumption DEF IInv
  <1>3. builds \in BOOLEAN /\ notified \in BOOLEAN
    BY DEF BuildsChange
  <1>4. r \in Updates
    <2> HIDE DEF builds, notified
    <2>1. QED
      BY <1>2, <1>3 DEF Updates
  <1>5. /\ r.op = "update" /\ r.complaint = c /\ r.date = Now
        /\ r.builds = builds /\ r.status = status /\ r.memo = memo
    OBVIOUS
  <1> HIDE DEF r
  <1>6. QED
    BY <1>1, <1>2, <1>4, <1>5, BeginKeeps

\* A complaint goes with its rows; no request is about it.
LEMMA DestroyKeeps ==
    ASSUME IInv, NEW c \in Complaints, Destroy(c)
    PROVE  IInv'
  <1>1. /\ c \in saved
        /\ UNCHANGED <<year, request>>
        /\ saved' = saved \ {c}
        /\ \A d \in saved' : case_reference'[d] = case_reference[d]
        /\ status_changes' = {s \in status_changes : s.complaint # c}
        /\ contended' = contended \ {c}
    BY DEF Destroy, saved, history
  <1>2. \A t \in Threads : request[t] # Idle => request[t].complaint # c
    BY DEF Destroy, Held, Open
  <1>3. \A d : d # c => history(d)' = history(d)
    BY <1>1 DEF history
  <1>4. \A t \in Threads : request[t].op # "idle" => request[t] # Idle
    BY DEF Idle
  <1>5. Typed'
    BY <1>1 DEF IInv, Typed
  <1>6. YearsPast' /\ Dated'
    BY <1>1, <1>3 DEF IInv, YearsPast, Dated
  <1>7. Targets'
    BY <1>1, <1>2, <1>3, <1>4 DEF IInv, Targets, Idle
  <1>8. CreateIsLast'
    BY <1>1, <1>2, <1>3, <1>4 DEF IInv, CreateIsLast
  <1>9. RefsInOrder'
    BY <1>1, <1>3 DEF IInv, RefsInOrder
  <1>10. Alone'
    BY <1>1, <1>2 DEF IInv, Alone, Idle
  <1>11. UpdateIsCurrent'
    BY <1>1, <1>2, <1>3, <1>4, SameHistory DEF IInv, UpdateIsCurrent
  <1>12. \A d \in saved' \ contended' : Chained(d)'
    BY <1>1, <1>3, SameHistory DEF IInv
  <1>13. QED
    BY <1>5, <1>6, <1>7, <1>8, <1>9, <1>10, <1>11, <1>12 DEF IInv

\* A complaint enters the register with one row.  No other complaint notices,
\* but creates that overlap, and those are contended.
LEMMA CommitCreateKeeps ==
    ASSUME IInv, NEW t \in Threads, CommitCreate(t)
    PROVE  IInv'
  <1>0. PICK r : r = request[t]
    OBVIOUS
  <1> DEFINE first == Initial(r)
  <1>1. /\ r \in Creates /\ r # Idle /\ r.op = "create"
        /\ r.complaint \notin saved
        /\ \A u \in Threads \ {t} : request[u] # Idle => request[u].complaint # r.complaint
    BY <1>0, Ops DEF CommitCreate, Idle, IInv, Targets
  <1>2. /\ UNCHANGED <<year, contended>>
        /\ saved' = saved \cup {r.complaint}
        /\ case_reference'[r.complaint] = r.reference
        /\ \A d \in saved : case_reference'[d] = case_reference[d]
        /\ status_changes' = status_changes \cup {first}
    BY <1>0, <1>1 DEF CommitCreate, saved, Initial
  <1>3. \A u \in Threads : request'[u] = IF u = t THEN Idle ELSE request[u]
    BY DEF CommitCreate, IInv, Typed
  <1>4. /\ first \in StatusChanges /\ first.complaint = r.complaint
        /\ first.change_date = r.date /\ first.end_date = Never
    BY <1>1, StatusAssumption, MemoAssumption DEF Initial, Creates, StatusChanges
  <1>5. r.complaint \in Complaints /\ r.date \in 1 .. MaxTime /\ r.reference \in AnyReference
    BY <1>1 DEF Creates
  <1> HIDE DEF first
  <1>6. history(r.complaint)' = {first}
    BY <1>1, <1>2, <1>4 DEF history, IInv, Typed
  <1>7. \A d : d # r.complaint => history(d)' = history(d)
    BY <1>2, <1>4 DEF history
  <1>8. \A u \in Threads : request'[u].op # "idle" =>
           u # t /\ request'[u] = request[u] /\ request[u] # Idle /\ request[u].complaint # r.complaint
    <2>1. Idle.op = "idle"
      BY DEF Idle
    <2>2. QED
      BY <1>1, <1>3, <2>1
  <1>9. \A u \in Threads : request'[u] # Idle => request'[u].op # "idle"
    BY <1>3, Ops DEF IInv
  <1>10. Typed'
    <2>1. DOMAIN request' = Threads
      BY DEF CommitCreate, IInv, Typed
    <2>2. \A u \in Threads : request'[u] \in {Idle} \cup Creates \cup Updates
      BY <1>3 DEF IInv, Typed
    <2>3. QED
      BY <1>2, <1>4, <1>5, <2>1, <2>2 DEF IInv, Typed
  <1>11. r.reference.year <= year /\ r.reference.sequence <= r.date
    BY <1>0, <1>1 DEF IInv, YearsPast, Dated
  <1>12. YearsPast'
    BY <1>2, <1>8, <1>11 DEF IInv, YearsPast
  <1>13. Dated'
    BY <1>2, <1>4, <1>6, <1>7, <1>8, <1>11 DEF IInv, Dated
  <1>14. Targets'
    <2> SUFFICES ASSUME NEW u \in Threads
                 PROVE  /\ request'[u].op = "create" =>
                            /\ request'[u].complaint \notin saved'
                            /\ \A v \in Threads \ {u} :
                                 request'[v] # Idle => request'[v].complaint # request'[u].complaint
                        /\ request'[u].op = "update" =>
                            /\ request'[u].complaint \in saved'
                            /\ \E s \in history(request[u].complaint)' :
                                 s.change_date < request'[u].date
      BY <1>8 DEF Targets, Idle
    <2>1. CASE request'[u].op = "idle"
      BY <2>1
    <2>2. CASE request'[u].op # "idle"
      BY <1>2, <1>7, <1>8, <1>9, <2>2 DEF IInv, Targets
    <2>3. QED
      BY <2>1, <2>2
  <1>15. \A u \in Threads :
            request'[u].op = "create" => request'[u].complaint \in contended
    <2> SUFFICES ASSUME NEW u \in Threads, request'[u].op = "create",
                        request'[u].complaint \notin contended
                 PROVE  FALSE
      OBVIOUS
    <2>1. u # t /\ request[u].op = "create" /\ request[u].complaint \notin contended
      BY <1>8
    <2>2. request[t].op # "create"
      BY <2>1 DEF IInv, CreateIsLast
    <2>3. QED
      BY <1>0, <1>1, <2>2
  <1>16. CreateIsLast'
    BY <1>2, <1>15 DEF CreateIsLast
  <1>17. RefsInOrder'
    <2> SUFFICES ASSUME NEW c \in saved' \ contended, NEW d \in saved' \ contended,
                        NEW s \in history(c)', \A o \in history(d)' : s.change_date < o.change_date
                 PROVE  RefLess(case_reference'[c], case_reference'[d])
      BY <1>2 DEF RefsInOrder, RefLess
    <2>1. CASE c # r.complaint /\ d # r.complaint
      BY <1>2, <1>7, <2>1 DEF IInv, RefsInOrder
    <2>2. CASE c # r.complaint /\ d = r.complaint
      <3>1. RefLess(case_reference[c], r.reference)
        BY <1>0, <1>1, <1>2, <2>2 DEF IInv, CreateIsLast
      <3>2. QED
        BY <1>2, <2>2, <3>1
    <2>3. CASE c = r.complaint
      <3>1. s.change_date = r.date
        BY <1>4, <1>6, <2>3
      <3>2. d # r.complaint
        BY <1>4, <1>5, <1>6, <2>3, <3>1
      <3>3. PICK o \in history(d) : o.change_date < r.date
        BY <1>0, <1>1, <1>2, <2>3, <3>2 DEF IInv, CreateIsLast
      <3>4. o \in history(d)' /\ o.change_date \in Nat
        BY <1>7, <3>2 DEF history, IInv, Typed, StatusChanges
      <3>5. QED
        BY <1>5, <3>1, <3>3, <3>4
    <2>4. QED
      BY <2>1, <2>2, <2>3
  <1>18. Alone'
    BY <1>2, <1>8, <1>9 DEF IInv, Alone, Idle
  <1>19. UpdateIsCurrent'
    BY <1>2, <1>7, <1>8, SameHistory DEF IInv, UpdateIsCurrent
  <1>20. Chained(r.complaint)'
    <2>1. Follows({first})
      BY <1>4, <1>5 DEF Follows, Linked, After
    <2>2. QED
      BY <1>6, <2>1 DEF Chained
  <1>21. \A c \in saved' \ contended' : Chained(c)'
    BY <1>2, <1>7, <1>20, SameHistory DEF IInv
  <1>22. QED
    BY <1>10, <1>12, <1>13, <1>14, <1>16, <1>17, <1>18, <1>19, <1>21 DEF IInv

\* A history follows on when its latest row ends where a different one starts, or one
\* without a memo.
LEMMA FollowsOn ==
    ASSUME NEW H, H \subseteq StatusChanges, Follows(H),
           NEW cur \in H, \A o \in H : o.change_date <= cur.change_date,
           NEW date \in 1 .. MaxTime, \A o \in H : o.change_date < date,
           NEW new \in StatusChanges, new.change_date = date, new.end_date = Never,
           Stated(cur) = Stated(new) => new.memo = NoMemo
    PROVE  Follows((H \ {cur}) \cup {Ending(cur, date), new})
  <1> DEFINE over == Ending(cur, date)
             K == (H \ {cur}) \cup {over, new}
  <1>1. /\ cur \in StatusChanges
        /\ over.change_date = cur.change_date /\ over.end_date = date
        /\ Stated(over) = Stated(cur) /\ over.memo = cur.memo
    BY EndingIs DEF Stated
  <1>2. \A s \in H : s.change_date \in Nat
    BY DEF StatusChanges
  <1>3. date \in Nat
    OBVIOUS
  <1>4. \A s, o \in H : s.change_date = o.change_date => s = o
    BY DEF Follows
  <1> HIDE DEF over
  <1>5. \A s, o \in K : s.change_date = o.change_date => s = o
    BY <1>1, <1>2, <1>3, <1>4
  <1>6. ASSUME NEW s \in K
        PROVE  Linked(K, s)
    <2>1. CASE s = new
      <3>1. After(K, s) = {}
        BY <2>1, <1>1, <1>2, <1>3 DEF After
      <3>2. QED
        BY <2>1, <3>1 DEF Linked
    <2>2. CASE s = over
      <3>1. After(K, s) = {new}
        BY <2>2, <1>1, <1>2, <1>3 DEF After
      <3>2. QED
        <4>1. \A o \in After(K, s) : new.change_date <= o.change_date
          BY <3>1, <1>3
        <4>2. s.end_date = new.change_date /\ (Stated(s) = Stated(new) => new.memo = NoMemo)
          BY <2>2, <1>1
        <4>3. new \in After(K, s)
          BY <3>1
        <4> HIDE DEF K
        <4>4. QED
          BY <4>1, <4>2, <4>3 DEF Linked
    <2>3. CASE s \in H \ {cur}
      <3>1. cur \in After(H, s)
        BY <2>3, <1>2, <1>4 DEF After
      <3>2. PICK next \in After(H, s) :
                /\ \A o \in After(H, s) : next.change_date <= o.change_date
                /\ s.end_date = next.change_date
                /\ Stated(s) = Stated(next) => next.memo = NoMemo
        BY <2>3, <3>1 DEF Follows, Linked
      <3>3. over \in After(K, s)
        BY <3>1, <1>1 DEF After
      <3>4. \A o \in After(K, s) : next.change_date <= o.change_date
        BY <3>1, <3>2, <1>1, <1>2, <1>3 DEF After
      <3>5. CASE next = cur
        BY <3>2, <3>3, <3>4, <3>5, <1>1 DEF Linked
      <3>6. CASE next # cur
        <4>1. next \in After(K, s)
          BY <3>6 DEF After
        <4>2. QED
          BY <3>2, <3>4, <4>1 DEF Linked
      <3>7. QED
        BY <3>5, <3>6
    <2>4. QED
      BY <2>1, <2>2, <2>3
  <1> HIDE DEF K
  <1>7. Follows(K)
    BY <1>5, <1>6 DEF Follows
  <1>8. QED
    BY <1>7 DEF K, over

\* An update moves no date, but adds one: the rest of the register goes by the
\* dates, and the history of its complaint follows on.
LEMMA CommitUpdateKeeps ==
    ASSUME IInv, NEW t \in Threads, CommitUpdate(t)
    PROVE  IInv'
  <1>0. PICK r : r = request[t]
    OBVIOUS
  <1> DEFINE k == r.complaint
             cur == current_status(k)
             new == Added(r)
  <1>1. /\ r \in Updates /\ r # Idle /\ r.op = "update" /\ k \in saved
        /\ k \in Complaints /\ r.date \in 1 .. MaxTime
        /\ r.status \in Statuses /\ r.memo \in Submitted /\ r.builds \in BOOLEAN
    BY <1>0, Ops DEF CommitUpdate, Idle, IInv, Targets, Updates
  <1>2. PICK past \in history(k) : past.change_date < r.date
    BY <1>0, <1>1 DEF IInv, Targets
  <1>3. UNCHANGED <<year, contended, case_reference>> /\ saved' = saved
    BY DEF CommitUpdate, saved
  <1>4. \A u \in Threads : request'[u] = IF u = t THEN Idle ELSE request[u]
    BY DEF CommitUpdate, IInv, Typed
  <1>5. /\ new \in StatusChanges /\ new.complaint = k
        /\ new.change_date = r.date /\ new.end_date = Never
        /\ new.status = r.status /\ new.memo = Stored(r.memo)
    <2>1. Stored(r.memo) \in Memos
      BY <1>1, MemoAssumption DEF Stored, Submitted
    <2>2. QED
      BY <1>1, <2>1 DEF Added, StatusChanges
  <1>6. history(k) \subseteq StatusChanges
    BY DEF history, IInv, Typed
  <1>7. cur \in history(k) /\ \A o \in history(k) : o.change_date <= cur.change_date
    BY <1>2, <1>6, LatestIs DEF current_status
  <1> HIDE DEF cur, new
  <1> DEFINE over == Ending(cur, r.date)
  <1>8. /\ cur \in StatusChanges /\ cur \in status_changes /\ cur.complaint = k
        /\ over \in StatusChanges /\ over.complaint = k /\ over.change_date = cur.change_date
    BY <1>1, <1>6, <1>7, EndingIs DEF history
  <1>9. /\ ~r.builds => status_changes' = status_changes
        /\ r.builds => status_changes' = (status_changes \ {cur}) \cup {over, new}
    BY <1>0, <1>2 DEF CommitUpdate, Closed, cur, new, Added, Ending
  <1> HIDE DEF over
  <1>10. \A d : d # k => history(d)' = history(d)
    BY <1>1, <1>5, <1>8, <1>9 DEF history
  <1>11. /\ ~r.builds => history(k)' = history(k)
         /\ r.builds => history(k)' = (history(k) \ {cur}) \cup {over, new}
    BY <1>5, <1>8, <1>9 DEF history
  <1>12. \A c : \A s \in history(c) : \E o \in history(c)' : o.change_date = s.change_date
    BY <1>1, <1>8, <1>10, <1>11
  <1>13. \A c : \A s \in history(c)' : \E o \in history(c) : o.change_date <= s.change_date
    <2> SUFFICES ASSUME NEW c, NEW s \in history(c)'
                 PROVE  \E o \in history(c) : o.change_date <= s.change_date
      OBVIOUS
    <2>1. CASE s \in history(c)
      <3>1. s.change_date \in Nat
        BY <2>1 DEF history, IInv, Typed, StatusChanges
      <3>2. QED
        BY <2>1, <3>1
    <2>2. CASE s = over /\ c = k
      <3>1. cur.change_date \in Nat
        BY <1>8 DEF StatusChanges
      <3>2. QED
        BY <2>2, <3>1, <1>7, <1>8
    <2>3. CASE s = new /\ c = k
      <3>1. past.change_date \in Nat /\ r.date \in Nat
        BY <1>1, <1>2, <1>6 DEF StatusChanges
      <3>2. QED
        BY <2>3, <3>1, <1>2, <1>5
    <2>4. QED
      BY <2>1, <2>2, <2>3, <1>1, <1>10, <1>11
  <1>14. \A u \in Threads : request'[u].op # "idle" => u # t /\ request'[u] = request[u]
    BY <1>4 DEF Idle
  <1>15. \A u \in Threads : request'[u] # Idle => u # t /\ request'[u] = request[u]
    BY <1>4
  <1> HIDE DEF k
  <1>16. Typed'
    <2>1. DOMAIN request' = Threads
      BY DEF CommitUpdate, IInv, Typed
    <2>2. \A u \in Threads : request'[u] \in {Idle} \cup Creates \cup Updates
      BY <1>4 DEF IInv, Typed
    <2>3. \A s \in status_changes' : s \in StatusChanges /\ s.complaint \in saved'
      BY <1>1, <1>3, <1>5, <1>8, <1>9 DEF IInv, Typed
    <2>4. QED
      BY <1>3, <2>1, <2>2, <2>3 DEF IInv, Typed
  <1>17. YearsPast'
    BY <1>3, <1>14 DEF IInv, YearsPast
  <1>18. Dated'
    <2>1. \A c \in saved : \E s \in history(c)' : case_reference[c].sequence <= s.change_date
      BY <1>12 DEF IInv, Dated
    <2>2. QED
      BY <1>3, <1>14, <2>1 DEF IInv, Dated
  <1>19. Targets'
    <2> SUFFICES ASSUME NEW u \in Threads
                 PROVE  /\ request'[u].op = "create" =>
                            /\ request'[u].complaint \notin saved'
                            /\ \A v \in Threads \ {u} :
                                 request'[v] # Idle => request'[v].complaint # request'[u].complaint
                        /\ request'[u].op = "update" =>
                            /\ request'[u].complaint \in saved'
                            /\ \E s \in history(request[u].complaint)' :
                                 s.change_date < request'[u].date
      BY <1>14 DEF Targets, Idle
    <2>1. CASE request'[u].op = "create"
      BY <1>3, <1>14, <1>15, <2>1 DEF IInv, Targets
    <2>2. CASE request'[u].op = "update"
      <3>1. request'[u] = request[u]
        BY <1>14, <2>2
      <3>2. PICK s \in history(request[u].complaint) : s.change_date < request[u].date
        BY <2>2, <3>1 DEF IInv, Targets
      <3>3. \E o \in history(request[u].complaint)' : o.change_date = s.change_date
        <4>1. PICK c : c = request[u].complaint
          OBVIOUS
        <4>2. PICK o \in history(c)' : o.change_date = s.change_date
          BY <1>12, <4>1
        <4>3. history(request[u].complaint)' = history(c)'
          BY <3>1, <4>1 DEF history
        <4>4. QED
          BY <4>2, <4>3
      <3>4. \E x \in history(request[u].complaint)' : x.change_date < request'[u].date
        BY <3>1, <3>2, <3>3
      <3>5. request'[u].complaint \in saved' /\ request'[u].op # "create"
        BY <1>3, <2>2, <3>1 DEF IInv, Targets
      <3>6. QED
        BY <3>4, <3>5
    <2>3. QED
      BY <2>1, <2>2
  <1>20. CreateIsLast'
    <2> SUFFICES ASSUME NEW u \in Threads, request'[u].op = "create",
                        request'[u].complaint \notin contended
                 PROVE  /\ \A v \in Threads \ {u} : request'[v].op # "create"
                        /\ \A c \in saved : /\ RefLess(case_reference[c], request'[u].reference)
                                            /\ \E s \in history(c)' : s.change_date < request'[u].date
      BY <1>3 DEF CreateIsLast
    <2>1. request'[u] = request[u]
      BY <1>14
    <2>2. /\ \A v \in Threads \ {u} : request[v].op # "create"
          /\ \A c \in saved : /\ RefLess(case_reference[c], request[u].reference)
                              /\ \E s \in history(c) : s.change_date < request[u].date
      BY <2>1 DEF IInv, CreateIsLast
    <2>3. QED
      BY <1>12, <1>14, <2>1, <2>2
  <1>21. RefsInOrder'
    <2> SUFFICES ASSUME NEW c \in saved \ contended, NEW d \in saved \ contended,
                        NEW s \in history(c)', \A o \in history(d)' : s.change_date < o.change_date
                 PROVE  RefLess(case_reference[c], case_reference[d])
      BY <1>3 DEF RefsInOrder, RefLess
    <2>1. PICK before \in history(c) : before.change_date <= s.change_date
      BY <1>13
    <2>2. ASSUME NEW o \in history(d)
          PROVE  before.change_date < o.change_date
      <3>1. s.change_date < o.change_date
        BY <1>12
      <3>2. before.change_date \in Nat /\ o.change_date \in Nat
        BY DEF IInv, Typed, history, StatusChanges
      <3>3. s.change_date \in Nat
        BY <1>16 DEF Typed, history, StatusChanges
      <3>4. QED
        BY <2>1, <3>1, <3>2, <3>3
    <2>3. QED
      BY <2>2 DEF IInv, RefsInOrder
  <1>22. Alone'
    BY <1>3, <1>15 DEF IInv, Alone
  <1>23. UpdateIsCurrent'
    <2>1. \A u \in Threads : request'[u].op = "update" /\ request'[u].complaint \notin contended
                               => request'[u] = request[u] /\ request[u].complaint # k
      <3>1. \A u \in Threads : request[u].op = "update" => request[u] # Idle
        BY DEF Idle
      <3>2. QED
        BY <1>0, <1>1, <1>14, <3>1 DEF IInv, Alone, k
    <2>2. QED
      BY <1>3, <1>10, <2>1, SameHistory DEF IInv, UpdateIsCurrent
  <1>24. ASSUME k \notin contended
         PROVE  Follows(history(k)')
    <2>1. Follows(history(k))
      BY <1>1, <1>24 DEF IInv, Chained
    <2>2. CASE ~r.builds
      BY <1>11, <2>1, <2>2
    <2>3. CASE r.builds
      <3>1. \A o \in history(k) : o.change_date < r.date
        BY <1>0, <1>1, <1>24 DEF IInv, UpdateIsCurrent, k
      <3>2. BuildsChange(k, r.status, r.memo)
        BY <1>0, <1>1, <1>24, <2>3 DEF IInv, UpdateIsCurrent, k
      <3>3. Stated(cur) = Stated(new) => new.memo = NoMemo
        BY <1>5, <3>2 DEF BuildsChange, cur, Stated, Stored
      <3>4. Follows((history(k) \ {cur}) \cup {over, new})
        BY <1>1, <1>5, <1>6, <1>7, <2>1, <3>1, <3>3, FollowsOn DEF over
      <3>5. QED
        BY <1>11, <2>3, <3>4
    <2>4. QED
      BY <1>1, <2>2, <2>3
  <1>25. \A c \in saved' \ contended' : Chained(c)'
    BY <1>3, <1>10, <1>24, SameHistory DEF IInv, Chained
  <1>26. QED
    BY <1>16, <1>17, <1>18, <1>19, <1>20, <1>21, <1>22, <1>23, <1>25 DEF IInv
-------------------------------------------------------------------------------
\* The register is empty to begin with, and every step keeps the invariant.
THEOREM RegisterInvariant == Spec => []IInv
  <1>1. Init => IInv
    <2> SUFFICES ASSUME Init
                 PROVE  IInv
      OBVIOUS
    <2>1. saved = {} /\ status_changes = {} /\ year \in Nat /\ DOMAIN request = Threads
      BY DEF Init, saved
    <2>2. \A t \in Threads : request[t] = Idle /\ request[t].op = "idle"
      BY DEF Init, Idle
    <2>3. Typed
      BY <2>1, <2>2 DEF Typed
    <2>4. YearsPast /\ Dated /\ Targets /\ CreateIsLast /\ RefsInOrder /\ Alone /\ UpdateIsCurrent
      BY <2>1, <2>2 DEF YearsPast, Dated, Targets, CreateIsLast, RefsInOrder, Alone, UpdateIsCurrent
    <2>5. QED
      BY <2>1, <2>3, <2>4 DEF IInv
  <1>2. IInv /\ [Next]_vars => IInv'
    <2> SUFFICES ASSUME IInv, [Next]_vars
                 PROVE  IInv'
      OBVIOUS
    <2>1. CASE NewYear
      BY <2>1, NewYearKeeps
    <2>2. ASSUME NEW t \in Threads, NEW c \in Complaints, NEW u \in Users \cup {NoOne},
                 BeginCreate(t, c, u)
          PROVE  IInv'
      BY <2>2, BeginCreateKeeps
    <2>3. ASSUME NEW t \in Threads, NEW c \in Complaints, NEW s \in Statuses, NEW m \in Submitted,
                 NEW u \in Users \cup {NoOne}, BeginUpdate(t, c, s, m, u)
          PROVE  IInv'
      BY <2>3, BeginUpdateKeeps
    <2>4. ASSUME NEW t \in Threads, CommitCreate(t)
          PROVE  IInv'
      BY <2>4, CommitCreateKeeps
    <2>5. ASSUME NEW t \in Threads, CommitUpdate(t)
          PROVE  IInv'
      BY <2>5, CommitUpdateKeeps
    <2>6. ASSUME NEW t \in Threads, Rollback(t)
          PROVE  IInv'
      BY <2>6, RollbackKeeps
    <2>7. ASSUME NEW c \in Complaints, Destroy(c)
          PROVE  IInv'
      BY <2>7, DestroyKeeps
    <2>8. CASE UNCHANGED vars
      <3>1. UNCHANGED <<year, case_reference, status_changes, request, contended>>
        BY <2>8 DEF vars
      <3>2. saved' = saved /\ \A c : history(c)' = history(c)
        BY <3>1 DEF saved, history
      <3>3. Typed' /\ YearsPast' /\ Dated' /\ Targets'
        BY <3>1, <3>2 DEF IInv, Typed, YearsPast, Dated, Targets
      <3>4. CreateIsLast' /\ RefsInOrder' /\ Alone'
        BY <3>1, <3>2 DEF IInv, CreateIsLast, RefsInOrder, Alone
      <3>5. UpdateIsCurrent' /\ \A c \in saved' \ contended' : Chained(c)'
        BY <3>1, <3>2, SameHistory DEF IInv, UpdateIsCurrent
      <3>6. QED
        BY <3>3, <3>4, <3>5 DEF IInv
    <2>9. QED
      BY <2>1, <2>2, <2>3, <2>4, <2>5, <2>6, <2>7, <2>8 DEF Next
  <1>3. QED
    BY <1>1, <1>2, PTL DEF Spec

\* For any users, complaints and threads: complaints whose creates did not overlap
\* are referenced in the order they were created, whatever the year, and whatever
\* was destroyed or rolled back in between.
THEOREM RefsAlwaysInOrder == Spec => []RefsInOrder
  <1>1. IInv => RefsInOrder
    BY DEF IInv
  <1>2. QED
    BY <1>1, RegisterInvariant, PTL

\* For any users, complaints and threads: unless updates of it overlapped, a
\* complaint's status changes follow on from one another.
THEOREM HistoryAlwaysFollows == Spec => []StatusHistory
  <1>1. IInv => StatusHistory
    <2> SUFFICES ASSUME IInv, NEW s \in status_changes, s.complaint \notin contended
                 PROVE  LET later == {o \in history(s.complaint) : o.change_date > s.change_date}
                        IN  IF later = {} THEN s.end_date = Never
                            ELSE \E next \in later :
                                    /\ \A o \in later : next.change_date <= o.change_date
                                    /\ s.end_date = next.change_date
                                    /\ Stated(s) = Stated(next) => next.memo = NoMemo
      BY DEF StatusHistory
    <2>1. s \in history(s.complaint) /\ s.complaint \in saved
      BY DEF history, IInv, Typed
    <2>2. Follows(history(s.complaint))
      BY <2>1 DEF IInv, Chained
    <2>3. QED
      BY <2>1, <2>2 DEF Follows, Linked, After
  <1>2. QED
    BY <1>1, RegisterInvariant, PTL
===============================================================================
