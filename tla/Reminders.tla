------------------------------ MODULE Reminders ------------------------------
(***************************************************************************)
(* Reminders and the rake task that mails them.                            *)
(*                                                                         *)
(* A reminder has a start_date and a type, and a `next` date that every    *)
(* save computes anew from those two.  Once a day, cron runs the task: it  *)
(* loads the reminders whose `next` falls on that (UTC) day, mails each of *)
(* them and saves it, which moves `next` on.                               *)
(*                                                                         *)
(* Time is counted in ticks, DayLen to a UTC day.  A start_date is the     *)
(* site's midnight, tick Midnight of its day; cron runs the task at tick   *)
(* CronTick of every day, once, as the README asks.                        *)
(***************************************************************************)
EXTENDS Integers, FiniteSets

CONSTANTS
    Ids,             \* ids of reminders
    Increments,      \* days between two dates, per reminder type; 0: one-time
    DayLen,          \* ticks in a day
    Midnight,        \* when in a UTC day the site's midnight is
    CronTick,        \* when in a UTC day cron runs the task
    MaxDay,          \* bound: last day of a behaviour
    Null             \* a null date

ASSUME DayAssumption ==
    /\ DayLen \in Nat \ {0}
    /\ {Midnight, CronTick} \subseteq 0..(DayLen - 1)
ASSUME IncrementsAssumption == Increments \subseteq Nat
ASSUME BoundAssumption == MaxDay \in Nat \ {0}
ASSUME NullAssumption == Null \notin Int

VARIABLES
    now,       \* the clock
    reminders, \* id -> its row, for the ids that have one
    queue,     \* the objects the running task has loaded and not yet reminded
    ran,       \* the task has been started today
    mailed,    \* history: mails sent, [id, date it was sent for, day it was sent]
    since,     \* history: id -> time of the last save by a user
    disturbed, \* history: ids whose delivery failed, or saved while loaded
    dropped    \* history: ids that were due when another one's delivery failed

vars == <<now, reminders, queue, ran, mailed, since, disturbed, dropped>>

-----------------------------------------------------------------------------
rows == DOMAIN reminders
Day(moment) == moment \div DayLen
today == Day(now)
StartOf(day) == day * DayLen + Midnight

\* Days a user picks a start date from: yesterday to tomorrow.
StartDays == (today - 1)..(today + 1)

\* Mutant of calculate_next: the test for past dates comes before the advancing.
calculate_next_NilFirst(start, increment) ==
    IF start + DayLen <= now THEN Null
    ELSE IF increment = 0 \/ start > now THEN start ELSE start + increment * DayLen

\* calculate_next: the start date, advanced by the increment until it is in the
\* future; for a one-time reminder, null once the start date is a day past.
calculate_next(start, increment) ==
    IF increment = 0
    THEN IF start + DayLen <= now THEN Null ELSE start
    ELSE start + increment * DayLen *
            (CHOOSE k \in 0..(now + DayLen + 1) :
                /\ start + increment * DayLen * k > now
                /\ k = 0 \/ start + increment * DayLen * (k - 1) <= now)

\* Mutant of due_today: whatever is due by today.
due_today_OrEarlier == {i \in rows : reminders[i].next # Null /\ Day(reminders[i].next) <= today}

due_today == {i \in rows : reminders[i].next # Null /\ Day(reminders[i].next) = today}

Queued(i) == \E q \in queue : q.id = i

-----------------------------------------------------------------------------
Init ==
    /\ now = DayLen
    /\ reminders = [i \in {} |-> 0]
    /\ queue = {}
    /\ ran = FALSE
    /\ mailed = {}
    /\ since = [i \in {} |-> 0]
    /\ disturbed = {}
    /\ dropped = {}

\* Time passes, but not over the minute of the task before it has run.
Tick ==
    /\ now < MaxDay * DayLen
    /\ now % DayLen = CronTick => ran /\ queue = {}
    /\ now' = now + 1
    /\ ran' = (ran /\ Day(now + 1) = today)
    /\ UNCHANGED <<reminders, queue, mailed, since, disturbed, dropped>>

\* RemindersController#create and #update
Save(i, start, increment) ==
    /\ i \in rows \/ ~Queued(i)
    /\ reminders' = [j \in rows \cup {i} |->
          IF j = i THEN [start |-> start, increment |-> increment,
                         next |-> calculate_next(start, increment)]
          ELSE reminders[j]]
    /\ since' = [j \in rows \cup {i} |-> IF j = i THEN now ELSE since[j]]
    /\ disturbed' = IF Queued(i) THEN disturbed \cup {i} ELSE disturbed \ {i}
    /\ dropped' = dropped \ {i}
    /\ mailed' = {m \in mailed : m.id # i \/ i \in rows}
    /\ UNCHANGED <<now, queue, ran>>

\* RemindersController#destroy
Destroy(i) ==
    /\ i \in rows
    /\ reminders' = [j \in rows \ {i} |-> reminders[j]]
    /\ since' = [j \in rows \ {i} |-> since[j]]
    /\ mailed' = {m \in mailed : m.id # i}
    /\ disturbed' = disturbed \ {i}
    /\ dropped' = dropped \ {i}
    /\ UNCHANGED <<now, queue, ran>>

\* send_reminders_due_today, as cron starts it: the reminders due are loaded.
StartTask ==
    /\ now % DayLen = CronTick
    /\ ~ran
    /\ ran' = TRUE
    /\ queue' = {[id |-> i, row |-> reminders[i]] : i \in due_today}
    /\ UNCHANGED <<now, reminders, mailed, since, disturbed, dropped>>

\* Mutant of Remind: the reminder is mailed and not saved.
Remind_NoSave(q) ==
    /\ q \in queue
    /\ queue' = queue \ {q}
    /\ mailed' = mailed \cup {[id |-> q.id, date |-> q.row.next, day |-> today]}
    /\ UNCHANGED <<now, ran, since, reminders, disturbed, dropped>>

\* remind: the mail is sent, then the save writes the next date, worked out from
\* the start date and type that were loaded.
Remind(q) ==
    /\ q \in queue
    /\ queue' = queue \ {q}
    /\ mailed' = mailed \cup {[id |-> q.id, date |-> q.row.next, day |-> today]}
    /\ reminders' = [i \in rows |->
          IF i = q.id
          THEN [reminders[i] EXCEPT !.next = calculate_next(q.row.start, q.row.increment)]
          ELSE reminders[i]]
    /\ UNCHANGED <<now, ran, since, disturbed, dropped>>

\* Delivering a mail raises: the task ends there, with what is left in its queue.
RemindRaises(q) ==
    /\ q \in queue
    /\ queue' = {}
    /\ disturbed' = disturbed \cup ({q.id} \cap rows)
    /\ dropped' = dropped \cup ({o.id : o \in queue \ {q}} \cap rows)
    /\ UNCHANGED <<now, reminders, ran, mailed, since>>

Next ==
    \/ Tick
    \/ \E i \in Ids, d \in StartDays, n \in Increments : Save(i, StartOf(d), n)
    \/ \E i \in Ids : Destroy(i)
    \/ StartTask
    \/ \E q \in queue : Remind(q) \/ RemindRaises(q)

Spec == Init /\ [][Next]_vars

-----------------------------------------------------------------------------
\* The dates a reminder falls on.
DateOf(i, date) ==
    LET r == reminders[i]
    IN  \/ date = r.start
        \/ /\ r.increment > 0 /\ date > r.start
           /\ (date - r.start) % (r.increment * DayLen) = 0

\* A site's midnight.
IsMidnight(moment) == moment \in Nat /\ moment % DayLen = Midnight

IsRow(r) ==
    /\ r = [start |-> r.start, increment |-> r.increment, next |-> r.next]
    /\ IsMidnight(r.start) /\ r.increment \in Increments
    /\ r.next # Null => IsMidnight(r.next)

\* A row's next date is one of its dates, and only a one-time reminder has none,
\* unless the row was saved while the task had it loaded.
TypeOK ==
    /\ now \in 0..(MaxDay * DayLen)
    /\ rows \subseteq Ids
    /\ \A i \in rows :
          LET r == reminders[i]
          IN  /\ IsRow(r)
              /\ i \in disturbed \/ r.next = Null \/ DateOf(i, r.next)
              /\ r.increment = 0 \/ i \in disturbed \/ r.next # Null
    /\ \A q \in queue : q = [id |-> q.id, row |-> q.row] /\ q.id \in Ids /\ IsRow(q.row)
    /\ ran \in BOOLEAN
    /\ DOMAIN since = rows
    /\ disturbed \cup dropped \subseteq rows

\* The midnights there have been.
Moments == {StartOf(d) : d \in 0..today}

DueMailed(i) ==
    \A date \in Moments :
        (/\ DateOf(i, date) /\ since[i] < date
         /\ Day(date) < today \/ (ran /\ queue = {}))
            => [id |-> i, date |-> date, day |-> Day(date)] \in mailed

\* A reminder is mailed on each of its dates since a user last saved it, whatever
\* users save meanwhile and whatever the task ran into on days the reminder was
\* not due, unless a failing task dropped it or it was saved while loaded.
EveryDateMailed == \A i \in rows \ (disturbed \cup dropped) : DueMailed(i)

\* README.md:271: the task run exactly once a day is "to send any reminders that
\* are due on that day", so one that cannot be delivered keeps no other one back.
AllDueMailed == \A i \in rows \ disturbed : DueMailed(i)

\* Nobody is mailed twice for one date of a reminder.
MailedOnce == \A m, n \in mailed : (m.id = n.id /\ m.date = n.date) => m = n
=============================================================================
