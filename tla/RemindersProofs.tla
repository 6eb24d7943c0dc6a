---------------------------- MODULE RemindersProofs ----------------------------
(***************************************************************************)
(* For any reminders, types and times of day: nobody is mailed twice for   *)
(* one date of a reminder, the rows keep their types and their next date   *)
(* is one of their dates, and, where cron runs the task at the site's      *)
(* midnight or later in the UTC day, every date is mailed.                 *)
(*                                                                         *)
(* Two mails for one date differ in the day they were sent or not at all,  *)
(* so the first invariant says of every mail that it was sent on the day   *)
(* of its date.  It holds because the task loads reminders whose next      *)
(* date is today, and because the day does not turn while any of them      *)
(* waits.                                                                  *)
(*                                                                         *)
(* For the others the invariant has to know more: when the task runs,      *)
(* that what it has loaded is as the rows are, and that the next date of   *)
(* a row is the first of its dates after the moment it was worked out, so  *)
(* that all the dates before it are settled and it is itself ahead.        *)
(***************************************************************************)
EXTENDS Reminders, BoundedSets, TLAPS

-------------------------------------------------------------------------------
\* One mail for a date.

\* What the task has loaded falls on the day the task runs.
QueueIsToday ==
    \A q \in queue : now % DayLen = CronTick /\ Day(q.row.next) = today

\* A mail is for the day it was sent on.
MailedOnTheDay ==
    \A m \in mailed : /\ m = [id |-> m.id, date |-> m.date, day |-> m.day]
                      /\ m.day = Day(m.date)

IInv == QueueIsToday /\ MailedOnTheDay

\* A step that keeps the queue, the clock and the mails, or takes some of each
\* away, keeps the invariant.
LEMMA Fewer ==
    ASSUME IInv, queue' \subseteq queue, mailed' \subseteq mailed, now' = now
    PROVE  IInv'
  BY DEF IInv, QueueIsToday, MailedOnTheDay, Day, today

\* The queue is empty whenever time passes.
LEMMA TickKeeps ==
    ASSUME IInv, Tick
    PROVE  IInv'
  <1>1. queue = {}
    BY DEF IInv, QueueIsToday, Tick
  <1>2. QED
    BY <1>1 DEF IInv, QueueIsToday, MailedOnTheDay, Tick, Day

\* What is loaded is what falls on today.
LEMMA StartTaskKeeps ==
    ASSUME IInv, StartTask
    PROVE  IInv'
  <1>1. MailedOnTheDay'
    BY DEF IInv, MailedOnTheDay, StartTask, Day
  <1>2. QueueIsToday'
    <2> SUFFICES ASSUME NEW q \in queue'
                 PROVE  now' % DayLen = CronTick /\ Day(q.row.next) = today'
      BY DEF QueueIsToday, Day
    <2>1. PICK i \in due_today : q = [id |-> i, row |-> reminders[i]]
      BY DEF StartTask
    <2>2. q.row.next = reminders[i].next
      BY <2>1
    <2>3. QED
      BY <2>1, <2>2 DEF StartTask, due_today, today, Day
  <1>3. QED
    BY <1>1, <1>2 DEF IInv

\* A mail that is sent was loaded, so it is for today.
LEMMA RemindKeeps ==
    ASSUME IInv, NEW q \in queue, Remind(q)
    PROVE  IInv'
  <1>1. QueueIsToday'
    BY DEF IInv, QueueIsToday, Remind, Day, today
  <1>2. MailedOnTheDay'
    <2> DEFINE sent == [id |-> q.id, date |-> q.row.next, day |-> today]
    <2>1. sent = [id |-> sent.id, date |-> sent.date, day |-> sent.day]
      OBVIOUS
    <2>2. sent.day = Day(sent.date)
      BY DEF IInv, QueueIsToday
    <2>3. mailed' = mailed \cup {sent}
      BY DEF Remind
    <2> HIDE DEF sent
    <2>4. QED
      BY <2>1, <2>2, <2>3 DEF IInv, MailedOnTheDay, Day
  <1>3. QED
    BY <1>1, <1>2 DEF IInv

\* For any reminders, types, length of a day and hours: whatever users save and
\* delete and wherever a delivery fails, nobody is mailed twice for one date.
THEOREM AlwaysMailedOnce == Spec => []MailedOnce
  <1>1. Init => IInv
    BY DEF Init, IInv, QueueIsToday, MailedOnTheDay
  <1>2. IInv /\ [Next]_vars => IInv'
    <2> SUFFICES ASSUME IInv, [Next]_vars
                 PROVE  IInv'
      OBVIOUS
    <2>1. CASE Tick
      BY <2>1, TickKeeps
    <2>2. ASSUME NEW i \in Ids, NEW d \in StartDays, NEW n \in Increments,
                 Save(i, StartOf(d), n)
          PROVE  IInv'
      BY <2>2, Fewer DEF Save
    <2>3. ASSUME NEW i \in Ids, Destroy(i)
          PROVE  IInv'
      BY <2>3, Fewer DEF Destroy
    <2>4. CASE StartTask
      BY <2>4, StartTaskKeeps
    <2>5. ASSUME NEW q \in queue, Remind(q)
          PROVE  IInv'
      BY <2>5, RemindKeeps
    <2>6. ASSUME NEW q \in queue, RemindRaises(q)
          PROVE  IInv'
      BY <2>6, Fewer DEF RemindRaises
    <2>7. CASE UNCHANGED vars
      BY <2>7, Fewer DEF vars
    <2>8. QED
      BY <2>1, <2>2, <2>3, <2>4, <2>5, <2>6, <2>7 DEF Next
  <1>3. IInv => MailedOnce
    BY DEF IInv, MailedOnTheDay, MailedOnce
  <1>4. QED
    BY <1>1, <1>2, <1>3, PTL DEF Spec

-------------------------------------------------------------------------------
\* Days and the moments in them.

LEMMA Moment ==
    ASSUME NEW n \in Int
    PROVE  /\ Day(n) \in Int /\ n % DayLen \in 0..(DayLen - 1)
           /\ n = DayLen * Day(n) + (n % DayLen)
  BY DayAssumption DEF Day

LEMMA DayOf ==
    ASSUME NEW d \in Int, NEW tick \in 0..(DayLen - 1)
    PROVE  Day(DayLen * d + tick) = d /\ (DayLen * d + tick) % DayLen = tick
  BY DayAssumption DEF Day

LEMMA LaterDay ==
    ASSUME NEW m \in Int, NEW n \in Int, m <= n
    PROVE  Day(m) <= Day(n)
  BY DayAssumption DEF Day

\* A number that is greater by one is greater by a whole period.
LEMMA Multiples ==
    ASSUME NEW k \in Int, NEW l \in Int, NEW period \in Nat, k < l
    PROVE  period * k + period <= period * l
  OBVIOUS

\* A midnight that is to come is not on an earlier day, and on a later one if
\* today's has been.
LEMMA MidnightAhead ==
    ASSUME NEW n \in Nat, NEW m, IsMidnight(m), m > n
    PROVE  /\ Day(m) >= Day(n)
           /\ n % DayLen >= Midnight => Day(m) > Day(n)
  <1>1. Day(m) >= Day(n) /\ Day(m) \in Int /\ Day(n) \in Int
    BY LaterDay, Moment DEF IsMidnight
  <1>2. n % DayLen >= Midnight => Day(m) # Day(n)
    <2>1. /\ m = DayLen * Day(m) + Midnight
          /\ n = DayLen * Day(n) + (n % DayLen)
      BY Moment DEF IsMidnight
    <2>2. Midnight \in Nat /\ DayLen * Day(n) \in Int /\ n % DayLen \in Int
      BY Moment, DayAssumption
    <2>3. QED
      BY <2>1, <2>2
  <1>3. QED
    BY <1>1, <1>2

\* Today's midnight, when it has been.
LEMMA MidnightToday ==
    ASSUME NEW n \in Nat, NEW m, IsMidnight(m), Day(m) = Day(n), n % DayLen >= Midnight
    PROVE  m <= n /\ n < m + DayLen
  <1>1. /\ m = DayLen * Day(m) + Midnight
        /\ n = DayLen * Day(n) + (n % DayLen)
        /\ n % DayLen \in 0..(DayLen - 1) /\ DayLen * Day(n) \in Int
    BY Moment, DayAssumption DEF IsMidnight
  <1>2. QED
    BY <1>1, DayAssumption

\* A midnight after another is on a later day.
LEMMA LaterMidnight ==
    ASSUME NEW m, IsMidnight(m), NEW n \in Nat, n >= m + DayLen
    PROVE  Day(n) > Day(m)
  <1>1. PICK d \in Int : d = Day(m)
    BY Moment DEF IsMidnight
  <1>2. m = DayLen * d + Midnight /\ Midnight \in 0..(DayLen - 1) /\ DayLen \in Nat
    <2>1. m \in Int /\ m % DayLen = Midnight
      BY DEF IsMidnight
    <2>2. m = DayLen * Day(m) + (m % DayLen)
      BY <2>1, Moment
    <2>3. QED
      BY <1>1, <2>1, <2>2, DayAssumption
  <1>3. Day(DayLen * (d + 1) + Midnight) = d + 1
    <2>1. d + 1 \in Int
      OBVIOUS
    <2>2. QED
      BY <1>2, <2>1, DayOf
  <1>4. DayLen * (d + 1) + Midnight = m + DayLen /\ m + DayLen \in Int /\ m + DayLen <= n
    BY <1>2 DEF IsMidnight
  <1>5. Day(m + DayLen) <= Day(n)
    BY <1>4, LaterDay
  <1>6. Day(n) \in Int
    BY Moment
  <1>7. QED
    BY <1>1, <1>3, <1>4, <1>5, <1>6

\* Time goes on by a tick: in the day, or, at its end, to the next.
LEMMA NextTick ==
    ASSUME NEW n \in Nat
    PROVE  \/ Day(n + 1) = Day(n) /\ (n + 1) % DayLen = (n % DayLen) + 1
           \/ Day(n + 1) = Day(n) + 1 /\ n % DayLen = DayLen - 1 /\ (n + 1) % DayLen = 0
  <1> DEFINE d == Day(n)
             tick == n % DayLen
  <1>1. n = DayLen * d + tick /\ d \in Int /\ tick \in 0..(DayLen - 1)
    BY Moment
  <1> HIDE DEF d, tick
  <1>2. CASE tick = DayLen - 1
    <2>1. n + 1 = DayLen * (d + 1) + 0 /\ d + 1 \in Int /\ 0 \in 0..(DayLen - 1)
      BY <1>1, <1>2, DayAssumption
    <2>2. Day(n + 1) = d + 1 /\ (n + 1) % DayLen = 0
      BY <2>1, DayOf
    <2>3. QED
      BY <1>2, <2>2 DEF d, tick
  <1>3. CASE tick # DayLen - 1
    <2>1. n + 1 = DayLen * d + (tick + 1) /\ tick + 1 \in 0..(DayLen - 1)
      BY <1>1, <1>3, DayAssumption
    <2>2. QED
      BY <1>1, <2>1, DayOf DEF d, tick
  <1>4. QED
    BY <1>2, <1>3

-------------------------------------------------------------------------------
\* Dates.

\* date is one of those that start and increment give.
On(start, increment, date) ==
    \E k \in Nat : date = start + increment * DayLen * k /\ (increment = 0 => k = 0)

IsDate(r, date) ==
    \/ date = r.start
    \/ /\ r.increment > 0 /\ date > r.start
       /\ (date - r.start) % (r.increment * DayLen) = 0

LEMMA DatesAre ==
    ASSUME NEW r, IsRow(r), NEW date \in Int
    PROVE  IsDate(r, date) <=> On(r.start, r.increment, date)
  <1> DEFINE start == r.start
             increment == r.increment
             period == increment * DayLen
  <1>1. start \in Nat /\ increment \in Nat
    BY IncrementsAssumption DEF IsRow, IsMidnight
  <1>2. IsDate(r, date) <=> \/ date = start
                            \/ increment > 0 /\ date > start /\ (date - start) % period = 0
    BY DEF IsDate
  <1> HIDE DEF start, increment
  <1>3. period \in Nat /\ (increment > 0 => period > 0)
    BY <1>1, DayAssumption
  <1>4. ASSUME increment > 0, date > start, (date - start) % period = 0
        PROVE  On(start, increment, date)
    <2> DEFINE k == (date - start) \div period
    <2>1. k \in Int /\ date - start = period * k
      BY <1>1, <1>3, <1>4
    <2> HIDE DEF k
    <2>2. k > 0
      <3> SUFFICES ASSUME k <= 0 PROVE FALSE
        BY <2>1
      <3>1. period * k <= 0
        BY <1>3, <2>1
      <3>2. QED
        BY <1>1, <1>4, <2>1, <3>1
    <2>3. k \in Nat /\ date = start + period * k
      BY <1>1, <1>3, <2>1, <2>2
    <2>4. QED
      BY <1>4, <2>3 DEF On
  <1>5. ASSUME date = start
        PROVE  On(start, increment, date)
    <2>1. date = start + period * 0
      BY <1>1, <1>3, <1>5
    <2>2. QED
      BY <2>1 DEF On
  <1>6. ASSUME On(start, increment, date), date # start
        PROVE  increment > 0 /\ date > start /\ (date - start) % period = 0
    <2>1. PICK k \in Nat : date = start + period * k /\ (increment = 0 => k = 0)
      BY <1>6 DEF On
    <2>2. k > 0 /\ increment > 0
      BY <1>1, <1>3, <1>6, <2>1
    <2>3. period * k > 0 /\ (period * k) % period = 0
      BY <1>3, <2>2
    <2>4. date - start = period * k
      BY <1>1, <1>3, <2>1
    <2>5. QED
      BY <1>1, <1>3, <2>2, <2>3, <2>4
  <1>7. QED
    BY <1>2, <1>4, <1>5, <1>6 DEF start, increment

-------------------------------------------------------------------------------
\* The next date.

\* The advancing ends: there is a first date that is in the future.
LEMMA FirstAhead ==
    ASSUME now \in Nat, NEW start \in Nat, NEW period \in Nat \ {0}
    PROVE  \E k \in 0..(now + DayLen + 1) :
              start + period * k > now /\ (k = 0 \/ start + period * (k - 1) <= now)
  <1> DEFINE S == {k \in 0..now : start + period * k <= now}
  <1>1. CASE S = {}
    <2>1. start + period * 0 > now
      <3>1. 0 \in 0..now
        OBVIOUS
      <3>2. ~(start + period * 0 <= now)
        BY <1>1, <3>1
      <3>3. start + period * 0 \in Int
        OBVIOUS
      <3>4. QED
        BY <3>2, <3>3
    <2>2. 0 \in 0..(now + DayLen + 1)
      BY DayAssumption
    <2>3. QED
      BY <2>1, <2>2
  <1>2. CASE S # {}
    <2>1. S \in SUBSET (0..now)
      OBVIOUS
    <2> HIDE DEF S
    <2>2. PICK k \in S : \A l \in S : l <= k
      BY <1>2, <2>1, Greatest
    <2>3. k \in 0..now /\ start + period * k <= now
      BY <2>2 DEF S
    <2>4. start + period * (k + 1) > now
      <3> SUFFICES ASSUME start + period * (k + 1) <= now
                   PROVE  FALSE
        BY <2>3
      <3>1. k + 1 <= period * (k + 1)
        BY <2>3
      <3>2. k + 1 \in 0..now
        BY <2>3, <3>1
      <3>3. k + 1 \in S
        BY <3>2 DEF S
      <3>4. QED
        BY <2>2, <2>3, <3>3
    <2>5. k + 1 \in 0..(now + DayLen + 1) /\ (k + 1) - 1 = k
      BY <2>3, DayAssumption
    <2>6. QED
      BY <2>3, <2>4, <2>5
  <1>3. QED
    BY <1>1, <1>2

\* A midnight and some days are a midnight.
LEMMA MidnightAgain ==
    ASSUME NEW m, IsMidnight(m), NEW n \in Nat
    PROVE  IsMidnight(m + DayLen * n)
  <1>1. m \in Nat /\ m % DayLen = Midnight
    BY DEF IsMidnight
  <1>2. PICK d \in Int : m = DayLen * d + Midnight
    BY <1>1, Moment
  <1>3. m + DayLen * n = DayLen * (d + n) + Midnight /\ m + DayLen * n \in Nat
    BY <1>1, <1>2, DayAssumption
  <1>4. Midnight \in 0..(DayLen - 1) /\ d + n \in Int
    BY DayAssumption
  <1>5. (DayLen * (d + n) + Midnight) % DayLen = Midnight
    BY <1>4, DayOf
  <1>6. QED
    BY <1>3, <1>5 DEF IsMidnight

\* calculate_next is the first of the dates that is to come; for a one-time
\* reminder, the date, until it is a day past.
LEMMA NextIs ==
    ASSUME now \in Nat, NEW start, IsMidnight(start), NEW increment \in Nat,
           NEW next, next = calculate_next(start, increment)
    PROVE  /\ increment = 0 =>
                 \/ next = Null /\ start <= now
                 \/ next = start /\ next # Null
           /\ increment > 0 =>
                 /\ next # Null /\ next > now
                 /\ On(start, increment, next)
                 /\ \A date \in Int : On(start, increment, date) /\ date < next => date <= now
           /\ next # Null => IsMidnight(next)
  <1>1. start \in Nat /\ start # Null /\ \A n \in Nat : n # Null
    BY NullAssumption DEF IsMidnight
  <1>2. CASE increment = 0
    BY <1>1, <1>2, DayAssumption DEF calculate_next
  <1>3. CASE increment # 0
    <2> DEFINE period == increment * DayLen
    <2>1. period \in Nat \ {0}
      BY <1>3, DayAssumption
    <2>2. PICK k \in 0..(now + DayLen + 1) :
             /\ next = start + period * k
             /\ start + period * k > now /\ (k = 0 \/ start + period * (k - 1) <= now)
      <3> DEFINE P(k) == start + period * k > now /\ (k = 0 \/ start + period * (k - 1) <= now)
      <3>1. \E k \in 0..(now + DayLen + 1) : P(k)
        BY <1>1, <2>1, FirstAhead
      <3>2. next = start + period * (CHOOSE k \in 0..(now + DayLen + 1) : P(k))
        BY <1>3 DEF calculate_next
      <3> HIDE DEF P
      <3>3. P(CHOOSE k \in 0..(now + DayLen + 1) : P(k))
            /\ (CHOOSE k \in 0..(now + DayLen + 1) : P(k)) \in 0..(now + DayLen + 1)
        BY <3>1
      <3>4. QED
        BY <3>2, <3>3 DEF P
    <2>3. next \in Nat /\ next > now /\ On(start, increment, next)
      BY <1>1, <1>3, <2>1, <2>2 DEF On
    <2>4. ASSUME NEW date \in Int, On(start, increment, date), date < next
          PROVE  date <= now
      <3>1. PICK l \in Nat : date = start + period * l
        BY <2>4 DEF On
      <3>2. l < k
        <4> SUFFICES ASSUME l >= k PROVE FALSE
          BY <2>2
        <4>1. period * l >= period * k
          BY <2>1, <2>2
        <4>2. QED
          BY <1>1, <2>1, <2>2, <2>4, <3>1, <4>1
      <3>3. period * l <= period * (k - 1)
        BY <2>1, <2>2, <3>2
      <3>4. start + period * (k - 1) <= now
        BY <2>2, <3>2
      <3>5. QED
        BY <1>1, <2>1, <2>2, <3>1, <3>3, <3>4
    <2>5. IsMidnight(next)
      <3>1. next = start + DayLen * (increment * k) /\ increment * k \in Nat
        BY <1>1, <2>2, DayAssumption
      <3>2. QED
        BY <3>1, MidnightAgain
    <2>6. QED
      BY <1>1, <1>3, <2>3, <2>4, <2>5
  <1>4. QED
    BY <1>2, <1>3

-------------------------------------------------------------------------------
\* What the task has loaded is due today, and is as the rows are, unless a user
\* saved them meanwhile; and the task has started when its minute is over.
Clock ==
    /\ now >= DayLen
    /\ ran => now % DayLen >= CronTick
    /\ now % DayLen > CronTick => ran

Loaded ==
    /\ \A q \in queue :
          /\ ran /\ now % DayLen = CronTick
          /\ q.row.next # Null /\ Day(q.row.next) = today
          /\ q.id \in rows \ disturbed => q.row = reminders[q.id]
    /\ \A p, q \in queue : p.id = q.id => p = q

RowsInv == TypeOK /\ Clock /\ Loaded

\* A row whose next date is worked out from what it says.
LEMMA SavedRow ==
    ASSUME now \in Nat, NEW r, IsRow(r), r.next = calculate_next(r.start, r.increment)
    PROVE  /\ r.next = Null \/ IsDate(r, r.next)
           /\ r.increment = 0 \/ r.next # Null
  <1>1. IsMidnight(r.start) /\ r.increment \in Nat /\ (r.next # Null => r.next \in Int)
    BY IncrementsAssumption DEF IsRow, IsMidnight
  <1>2. /\ r.increment = 0 => r.next = Null \/ r.next = r.start
        /\ r.increment > 0 => r.next # Null /\ On(r.start, r.increment, r.next)
    BY <1>1, NextIs
  <1>3. r.next # r.start /\ r.next # Null => IsDate(r, r.next)
    BY <1>1, <1>2, DatesAre
  <1>4. QED
    BY <1>1, <1>2, <1>3 DEF IsDate

LEMMA InitRows == Init => RowsInv
  <1> SUFFICES ASSUME Init
               PROVE  RowsInv
    OBVIOUS
  <1>1. rows = {} /\ queue = {} /\ ran = FALSE
    BY DEF Init, rows
  <1>2. now % DayLen = 0 /\ now \in 0..(MaxDay * DayLen) /\ now >= DayLen
    BY DayAssumption, BoundAssumption DEF Init
  <1>3. Clock
    BY <1>1, <1>2, DayAssumption DEF Clock
  <1>4. QED
    BY <1>1, <1>2, <1>3 DEF RowsInv, TypeOK, Loaded, Init

LEMMA TickRows ==
    ASSUME RowsInv, Tick
    PROVE  RowsInv'
  <1>1. now \in Nat /\ now' = now + 1 /\ now < MaxDay * DayLen /\ MaxDay * DayLen \in Nat
    BY DayAssumption, BoundAssumption DEF RowsInv, TypeOK, Tick
  <1>2. rows' = rows /\ UNCHANGED <<reminders, queue, disturbed, dropped, since>>
    BY DEF Tick, rows
  <1>3. queue = {}
    BY DEF RowsInv, Loaded, Tick
  <1>4. /\ ran' => ran /\ Day(now + 1) = Day(now)
        /\ ran /\ Day(now + 1) = Day(now) => ran'
        /\ ran' \in BOOLEAN
        /\ now % DayLen = CronTick => ran
    BY DEF Tick, today
  <1>5. TypeOK'
    BY <1>1, <1>2, <1>3, <1>4 DEF RowsInv, TypeOK, DateOf
  <1>6. Clock'
    <2>1. now % DayLen \in Int /\ CronTick \in 0..(DayLen - 1) /\ Day(now) \in Int
      BY <1>1, Moment, DayAssumption
    <2>2. CASE Day(now + 1) = Day(now) /\ (now + 1) % DayLen = (now % DayLen) + 1
      <3>1. /\ ran => now % DayLen >= CronTick
            /\ now % DayLen > CronTick => ran
            /\ now >= DayLen /\ DayLen \in Nat
        BY DayAssumption DEF RowsInv, Clock
      <3>2. now' >= DayLen /\ now' % DayLen = (now % DayLen) + 1
        BY <1>1, <2>2, <3>1
      <3>3. /\ ran' => now' % DayLen >= CronTick
            /\ now' % DayLen > CronTick => ran'
        BY <1>4, <2>1, <2>2, <3>1, <3>2
      <3>4. QED
        BY <3>2, <3>3 DEF Clock
    <2>3. CASE Day(now + 1) = Day(now) + 1 /\ (now + 1) % DayLen = 0
      <3>1. ~ran'
        BY <1>4, <2>1, <2>3
      <3>2. now' >= DayLen
        BY <1>1, DayAssumption DEF RowsInv, Clock
      <3>3. QED
        BY <1>1, <2>1, <2>3, <3>1, <3>2 DEF Clock
    <2>4. QED
      BY <1>1, <2>2, <2>3, NextTick
  <1>7. QED
    BY <1>2, <1>3, <1>5, <1>6 DEF RowsInv, Loaded

\* The row a user saves.
LEMMA SaveIs ==
    ASSUME RowsInv, NEW d \in StartDays, NEW n \in Increments
    PROVE  IsRow([start |-> StartOf(d), increment |-> n,
                  next |-> calculate_next(StartOf(d), n)])
  <1>1. now \in Nat /\ today \in Int /\ today >= 1
    <2>1. now \in Nat /\ now >= DayLen * 1 + 0
      BY DayAssumption DEF RowsInv, TypeOK, Clock
    <2>2. Day(DayLen * 1 + 0) = 1
      BY DayAssumption, DayOf
    <2>3. DayLen * 1 + 0 \in Int
      BY DayAssumption
    <2>4. 1 <= Day(now) /\ Day(now) \in Int
      BY <2>1, <2>2, <2>3, LaterDay, Moment
    <2>5. QED
      BY <2>1, <2>4 DEF today
  <1>2. d \in Nat
    BY <1>1 DEF StartDays
  <1>3. IsMidnight(StartOf(d))
    <2>1. Midnight \in 0..(DayLen - 1) /\ DayLen \in Nat
      BY DayAssumption
    <2>2. StartOf(d) = DayLen * d + Midnight /\ StartOf(d) \in Nat
      BY <1>2, <2>1 DEF StartOf
    <2>3. QED
      BY <1>2, <2>1, <2>2, DayOf DEF IsMidnight
  <1>4. PICK next : next = calculate_next(StartOf(d), n)
    OBVIOUS
  <1>5. next # Null => IsMidnight(next)
    BY <1>1, <1>3, <1>4, NextIs, IncrementsAssumption
  <1>6. QED
    BY <1>3, <1>4, <1>5 DEF IsRow

LEMMA SaveRows ==
    ASSUME RowsInv, NEW i \in Ids, NEW d \in StartDays, NEW n \in Increments,
           Save(i, StartOf(d), n)
    PROVE  RowsInv'
  <1> DEFINE r == [start |-> StartOf(d), increment |-> n, next |-> calculate_next(StartOf(d), n)]
  <1>1. IsRow(r) /\ r.next = calculate_next(r.start, r.increment) /\ now \in Nat
    BY SaveIs DEF RowsInv, TypeOK
  <1>2. /\ reminders' = [j \in rows \cup {i} |-> IF j = i THEN r ELSE reminders[j]]
        /\ UNCHANGED <<now, queue, ran>>
        /\ DOMAIN since' = rows \cup {i}
        /\ disturbed' = (IF Queued(i) THEN disturbed \cup {i} ELSE disturbed \ {i})
        /\ dropped' = dropped \ {i}
        /\ i \in rows \/ ~Queued(i)
    BY DEF Save
  <1> HIDE DEF r
  <1>3. /\ rows' = rows \cup {i} /\ reminders'[i] = r
        /\ \A j \in rows : j # i => reminders'[j] = reminders[j]
    BY <1>2 DEF rows
  <1>4. /\ r.next = Null \/ IsDate(r, r.next)
        /\ r.increment = 0 \/ r.next # Null
    BY <1>1, SavedRow
  <1>5. \A j \in rows' : /\ IsRow(reminders'[j])
                         /\ \/ j \in disturbed' \/ reminders'[j].next = Null
                            \/ IsDate(reminders'[j], reminders'[j].next)
                         /\ \/ reminders'[j].increment = 0 \/ j \in disturbed'
                            \/ reminders'[j].next # Null
    BY <1>1, <1>2, <1>3, <1>4 DEF RowsInv, TypeOK, DateOf, IsDate
  <1>6. TypeOK'
    BY <1>2, <1>3, <1>5 DEF RowsInv, TypeOK, DateOf, IsDate
  <1>7. Loaded'
    BY <1>2, <1>3 DEF RowsInv, Loaded, Queued, Day, today
  <1>8. QED
    BY <1>2, <1>6, <1>7 DEF RowsInv, Clock

LEMMA DestroyRows ==
    ASSUME RowsInv, NEW i \in Ids, Destroy(i)
    PROVE  RowsInv'
  <1>1. /\ reminders' = [j \in rows \ {i} |-> reminders[j]]
        /\ DOMAIN since' = rows \ {i}
        /\ disturbed' = disturbed \ {i} /\ dropped' = dropped \ {i}
        /\ UNCHANGED <<now, queue, ran>>
    BY DEF Destroy
  <1>2. rows' = rows \ {i} /\ \A j \in rows' : reminders'[j] = reminders[j]
    BY <1>1 DEF rows
  <1>3. TypeOK'
    BY <1>1, <1>2 DEF RowsInv, TypeOK, DateOf
  <1>4. Loaded'
    BY <1>1, <1>2 DEF RowsInv, Loaded, Day, today
  <1>5. QED
    BY <1>1, <1>3, <1>4 DEF RowsInv, Clock

LEMMA StartTaskRows ==
    ASSUME RowsInv, StartTask
    PROVE  RowsInv'
  <1>1. /\ now % DayLen = CronTick /\ ran' = TRUE
        /\ queue' = {[id |-> i, row |-> reminders[i]] : i \in due_today}
        /\ UNCHANGED <<now, reminders, since, disturbed, dropped>>
    BY DEF StartTask
  <1>2. rows' = rows
    BY <1>1 DEF rows
  <1>3. \A q \in queue' : \E i \in rows :
            /\ q = [id |-> i, row |-> reminders[i]] /\ q.id = i /\ q.row = reminders[i]
            /\ reminders[i].next # Null /\ Day(reminders[i].next) = today
    BY <1>1 DEF due_today
  <1>4. TypeOK'
    BY <1>1, <1>2, <1>3 DEF RowsInv, TypeOK, DateOf
  <1>5. Loaded'
    <2>1. \A q \in queue' : /\ ran' /\ now' % DayLen = CronTick
                            /\ q.row.next # Null /\ Day(q.row.next) = Day(now')
                            /\ q.id \in rows' \ disturbed' => q.row = reminders'[q.id]
      BY <1>1, <1>2, <1>3 DEF today
    <2>2. \A p, q \in queue' : p.id = q.id => p = q
      BY <1>3
    <2>3. QED
      BY <2>1, <2>2 DEF Loaded, Day, today
  <1>6. Clock'
    BY <1>1, DayAssumption DEF RowsInv, Clock
  <1>7. QED
    BY <1>4, <1>5, <1>6 DEF RowsInv

LEMMA RemindRows ==
    ASSUME RowsInv, NEW q \in queue, Remind(q)
    PROVE  RowsInv'
  <1>1. PICK next : next = calculate_next(q.row.start, q.row.increment)
    OBVIOUS
  <1>2. /\ queue' = queue \ {q} /\ UNCHANGED <<now, ran, since, disturbed, dropped>>
        /\ reminders' = [i \in rows |-> IF i = q.id THEN [reminders[i] EXCEPT !.next = next]
                                        ELSE reminders[i]]
    BY <1>1 DEF Remind
  <1>3. rows' = rows /\ \A i \in rows : i # q.id => reminders'[i] = reminders[i]
    BY <1>2 DEF rows
  <1>4. now \in Nat /\ IsRow(q.row) /\ q.id \in Ids
    BY DEF RowsInv, TypeOK
  <1>5. next # Null => IsMidnight(next)
    <2>1. IsMidnight(q.row.start) /\ q.row.increment \in Nat
      BY <1>4, IncrementsAssumption DEF IsRow
    <2>2. QED
      BY <1>1, <1>4, <2>1, NextIs
  <1>6. ASSUME q.id \in rows
        PROVE  /\ IsRow(reminders'[q.id])
               /\ q.id \notin disturbed =>
                     /\ reminders'[q.id].next = Null
                          \/ IsDate(reminders'[q.id], reminders'[q.id].next)
                     /\ reminders'[q.id].increment = 0 \/ reminders'[q.id].next # Null
    <2>1. PICK o : o = reminders[q.id]
      OBVIOUS
    <2>2. PICK r : r = [o EXCEPT !.next = next]
      OBVIOUS
    <2>3. IsRow(o) /\ reminders'[q.id] = r
      BY <1>2, <1>6, <2>1, <2>2 DEF RowsInv, TypeOK
    <2>4. r = [start |-> o.start, increment |-> o.increment, next |-> next]
      BY <2>2, <2>3 DEF IsRow
    <2>5. r.start = o.start /\ r.increment = o.increment /\ r.next = next
      BY <2>4
    <2>6. IsRow(r)
      BY <1>5, <2>3, <2>4, <2>5 DEF IsRow
    <2>7. q.id \notin disturbed => o = q.row
      BY <1>6, <2>1 DEF RowsInv, Loaded
    <2>8. q.id \notin disturbed => /\ r.next = Null \/ IsDate(r, r.next)
                                   /\ r.increment = 0 \/ r.next # Null
      BY <1>1, <1>4, <2>5, <2>6, <2>7, SavedRow
    <2>9. QED
      BY <2>3, <2>6, <2>8
  <1>7. \A i \in rows' : /\ IsRow(reminders'[i])
                         /\ i \notin disturbed =>
                               /\ \/ reminders'[i].next = Null
                                  \/ IsDate(reminders'[i], reminders'[i].next)
                               /\ reminders'[i].increment = 0 \/ reminders'[i].next # Null
    BY <1>3, <1>6 DEF RowsInv, TypeOK, DateOf, IsDate
  <1>8. TypeOK'
    BY <1>2, <1>3, <1>7 DEF RowsInv, TypeOK, DateOf, IsDate
  <1>9. Loaded'
    BY <1>2, <1>3 DEF RowsInv, Loaded, Day, today
  <1>10. QED
    BY <1>2, <1>8, <1>9 DEF RowsInv, Clock

LEMMA RaiseRows ==
    ASSUME RowsInv, NEW q \in queue, RemindRaises(q)
    PROVE  RowsInv'
  <1>1. /\ queue' = {} /\ UNCHANGED <<now, reminders, ran, since>>
        /\ disturbed \subseteq disturbed' /\ disturbed' \cup dropped' \subseteq rows
    BY DEF RemindRaises, RowsInv, TypeOK
  <1>2. rows' = rows
    BY <1>1 DEF rows
  <1>3. TypeOK'
    BY <1>1, <1>2 DEF RowsInv, TypeOK, DateOf
  <1>4. QED
    BY <1>1, <1>3 DEF RowsInv, Loaded, Clock

LEMMA NextRows == RowsInv /\ [Next]_vars => RowsInv'
  <1> SUFFICES ASSUME RowsInv, [Next]_vars
               PROVE  RowsInv'
    OBVIOUS
  <1>1. ASSUME NEW i \in Ids, NEW d \in StartDays, NEW n \in Increments,
               Save(i, StartOf(d), n)
        PROVE  RowsInv'
    BY <1>1, SaveRows
  <1>2. ASSUME NEW i \in Ids, Destroy(i)
        PROVE  RowsInv'
    BY <1>2, DestroyRows
  <1>3. ASSUME NEW q \in queue, Remind(q)
        PROVE  RowsInv'
    BY <1>3, RemindRows
  <1>4. ASSUME NEW q \in queue, RemindRaises(q)
        PROVE  RowsInv'
    BY <1>4, RaiseRows
  <1>5. CASE UNCHANGED vars
    <2>1. rows' = rows
      BY <1>5 DEF vars, rows
    <2>2. QED
      BY <1>5, <2>1 DEF vars, RowsInv, TypeOK, Clock, Loaded, DateOf, Day, today
  <1>6. QED
    BY <1>1, <1>2, <1>3, <1>4, <1>5, TickRows, StartTaskRows DEF Next

LEMMA RowsInvariant == Spec => []RowsInv
  BY InitRows, NextRows, PTL DEF Spec

\* For any reminders, types, length of a day and hours: every row's next date is
\* one of its own dates, and only a one-time reminder has none, whatever users
\* save and delete and wherever a delivery fails.
THEOREM TypeCorrect == Spec => []TypeOK
  <1>1. RowsInv => TypeOK
    BY DEF RowsInv
  <1>2. QED
    BY <1>1, RowsInvariant, PTL

-------------------------------------------------------------------------------
\* Every date is mailed, where cron runs the task not before the site's midnight.

\* Date of i was not to be mailed since i was saved, or was mailed.
Settled(i, date) ==
    date <= since[i] \/ [id |-> i, date |-> date, day |-> Day(date)] \in mailed

\* The next date of i is on a later day, or today and the task will see to it.
Ahead(i) ==
    \/ Day(reminders[i].next) > today
    \/ Day(reminders[i].next) = today /\ (~ran \/ Queued(i))

\* All dates of i are settled as far as its next date, which is ahead; but that
\* the next date of a one-time reminder may be that of which it was reminded.
Due(i) ==
    /\ since[i] \in Nat
    /\ reminders[i].next = Null => Settled(i, reminders[i].start)
    /\ reminders[i].next # Null =>
          /\ \A date \in Int : IsDate(reminders[i], date) /\ date < reminders[i].next
                                  => Settled(i, date)
          /\ Ahead(i) \/ (reminders[i].increment = 0 /\ Settled(i, reminders[i].next))

DueInv == \A i \in rows \ (disturbed \cup dropped) : Due(i)

\* Two dates of one reminder are a day apart at least.
LEMMA DatesApart ==
    ASSUME NEW r, IsRow(r), NEW d \in Int, NEW e \in Int, IsDate(r, d), IsDate(r, e), d < e
    PROVE  r.increment > 0 /\ d + DayLen <= e
  <1>1. r.start \in Nat /\ r.increment \in Nat
    BY IncrementsAssumption DEF IsRow, IsMidnight
  <1> DEFINE period == r.increment * DayLen
  <1>2. period \in Nat /\ (r.increment > 0 => period >= DayLen)
    BY <1>1, DayAssumption
  <1>3. PICK k \in Nat : d = r.start + period * k /\ (r.increment = 0 => k = 0)
    BY DatesAre DEF On
  <1>4. PICK l \in Nat : e = r.start + period * l /\ (r.increment = 0 => l = 0)
    BY DatesAre DEF On
  <1> HIDE DEF period
  <1>5. k < l
    <2> SUFFICES ASSUME l <= k PROVE FALSE
      OBVIOUS
    <2>1. period * l <= period * k
      BY <1>2
    <2>2. QED
      BY <1>1, <1>2, <1>3, <1>4, <2>1
  <1>6. r.increment > 0
    BY <1>1, <1>3, <1>4, <1>5
  <1>7. period * k + period <= period * l
    BY <1>2, <1>5, Multiples
  <1>8. QED
    BY <1>1, <1>2, <1>3, <1>4, <1>6, <1>7, DayAssumption

\* A row that a step leaves alone, its mails and its turn in the queue as well.
LEMMA DueStays ==
    ASSUME NEW i, Due(i), reminders'[i] = reminders[i], since'[i] = since[i],
           \A date : [id |-> i, date |-> date, day |-> Day(date)] \in mailed
                        => [id |-> i, date |-> date, day |-> Day(date)] \in mailed',
           Ahead(i) => Ahead(i)'
    PROVE  Due(i)'
  <1>1. \A date : Settled(i, date) => Settled(i, date)'
    BY DEF Settled, Day
  <1>2. \A date : IsDate(reminders[i], date)' <=> IsDate(reminders[i], date)
    BY DEF IsDate
  <1>3. QED
    BY <1>1, <1>2 DEF Due

\* Saving settles what is past, and sets the next date ahead.
LEMMA SaveDue ==
    ASSUME Midnight <= CronTick, RowsInv, NEW i \in Ids, NEW d \in StartDays,
           NEW n \in Increments, Save(i, StartOf(d), n), i \notin disturbed'
    PROVE  Due(i)'
  <1>0. PICK r : r = [start |-> StartOf(d), increment |-> n, next |-> calculate_next(StartOf(d), n)]
    OBVIOUS
  <1>1. IsRow(r) /\ r.next = calculate_next(r.start, r.increment) /\ now \in Nat
    BY <1>0, SaveIs DEF RowsInv, TypeOK
  <1>2. reminders'[i] = r /\ since'[i] = now /\ UNCHANGED <<now, queue, ran>>
    BY <1>0 DEF Save
  <1>3. IsMidnight(r.start) /\ r.start \in Nat /\ r.increment \in Nat
    BY <1>1, IncrementsAssumption DEF IsRow, IsMidnight
  <1>4. \A date : date <= now => Settled(i, date)'
    BY <1>2 DEF Settled
  <1>5. r.next # Null => IsMidnight(r.next) /\ r.next \in Nat
    BY <1>1 DEF IsRow, IsMidnight
  <1>6. r.next # Null /\ r.next > now => Ahead(i)'
    <2> SUFFICES ASSUME r.next # Null, r.next > now
                 PROVE  Ahead(i)'
      OBVIOUS
    <2>1. /\ Day(r.next) >= Day(now)
          /\ now % DayLen >= Midnight => Day(r.next) > Day(now)
      BY <1>1, <1>5, MidnightAhead
    <2>2. now % DayLen < Midnight => ~ran
      <3>1. now % DayLen \in Int /\ Midnight \in Int /\ CronTick \in Int
        BY <1>1, Moment, DayAssumption
      <3>2. QED
        BY <3>1 DEF RowsInv, Clock
    <2>3. now % DayLen \in Int /\ Midnight \in Int /\ Day(r.next) \in Int /\ Day(now) \in Int
      BY <1>1, <1>5, Moment, DayAssumption
    <2>4. today' = Day(now) /\ Day(reminders'[i].next) = Day(r.next) /\ ran' = ran
      BY <1>2 DEF today, Day
    <2>5. Day(r.next) > Day(now) \/ (Day(r.next) = Day(now) /\ ~ran)
      BY <2>1, <2>2, <2>3
    <2>6. QED
      BY <1>2, <2>4, <2>5 DEF Ahead, Day
  <1>7. CASE r.increment = 0
    <2>1. \/ r.next = Null /\ r.start <= now
          \/ r.next = r.start /\ r.next # Null
      BY <1>1, <1>3, <1>7, NextIs
    <2>2. \A date \in Int : IsDate(r, date) => date = r.start
      BY <1>3, <1>7 DEF IsDate
    <2>3. r.next <= now \/ r.next > now \/ r.next = Null
      BY <1>1, <1>5
    <2>4. /\ r.next = Null => Settled(i, r.start)'
          /\ r.next # Null => \A date \in Int : IsDate(r, date) => ~(date < r.next)
      BY <1>2, <1>3, <1>4, <2>1, <2>2
    <2>5. r.next # Null => Ahead(i)' \/ Settled(i, r.next)'
      BY <1>2, <1>4, <1>6, <2>3
    <2>6. QED
      BY <1>1, <1>2, <1>7, <2>4, <2>5 DEF Due, IsDate, Settled, Day
  <1>8. CASE r.increment > 0
    <2>1. /\ r.next # Null /\ r.next > now
          /\ \A date \in Int : On(r.start, r.increment, date) /\ date < r.next => date <= now
      BY <1>1, <1>3, <1>8, NextIs
    <2>2. \A date \in Int : IsDate(r, date) /\ date < r.next => Settled(i, date)'
      BY <1>1, <1>4, <2>1, DatesAre
    <2>3. QED
      BY <1>1, <1>2, <1>6, <2>1, <2>2 DEF Due, IsDate, Settled, Day
  <1>9. QED
    BY <1>3, <1>7, <1>8

\* A mail settles the date it is for, and no other has come since.
LEMMA RemindDue ==
    ASSUME Midnight <= CronTick, RowsInv, NEW q \in queue, Remind(q),
           q.id \in rows \ disturbed, Due(q.id)
    PROVE  Due(q.id)'
  <1>1. PICK i, r : i = q.id /\ r = q.row
    OBVIOUS
  <1>2. /\ r = reminders[i] /\ IsRow(r) /\ i \in rows \ disturbed
        /\ r.next # Null /\ Day(r.next) = today /\ now % DayLen = CronTick /\ now \in Nat
    BY <1>1 DEF RowsInv, TypeOK, Loaded
  <1>3. IsMidnight(r.start) /\ r.start \in Nat /\ r.increment \in Nat
        /\ IsMidnight(r.next) /\ r.next \in Nat /\ IsDate(r, r.next)
    BY <1>1, <1>2, IncrementsAssumption DEF RowsInv, TypeOK, DateOf, IsDate, IsRow, IsMidnight
  <1>4. r.next <= now /\ now < r.next + DayLen
    <2>1. now % DayLen >= Midnight
      BY <1>2, DayAssumption
    <2>2. QED
      BY <1>2, <1>3, <2>1, MidnightToday DEF today
  <1>5. PICK next : next = calculate_next(r.start, r.increment)
    OBVIOUS
  <1>6. /\ mailed' = mailed \cup {[id |-> i, date |-> r.next, day |-> today]}
        /\ UNCHANGED <<now, ran, since>>
        /\ reminders'[i] = [r EXCEPT !.next = next]
    BY <1>1, <1>2, <1>5 DEF Remind
  <1>7. PICK s : s = [r EXCEPT !.next = next]
    OBVIOUS
  <1>8. s.start = r.start /\ s.increment = r.increment /\ s.next = next /\ reminders'[i] = s
    <2>1. s = [start |-> r.start, increment |-> r.increment, next |-> next]
      BY <1>2, <1>7 DEF IsRow
    <2>2. QED
      BY <1>6, <1>7, <2>1
  <1>9. \A date : /\ IsDate(s, date) <=> IsDate(r, date)
                  /\ Settled(i, date) => Settled(i, date)'
    BY <1>6, <1>8 DEF IsDate, Settled, Day
  <1>10. Settled(i, r.next)'
    BY <1>2, <1>6 DEF Settled, Day
  <1>11. since'[i] \in Nat
    BY <1>1, <1>6 DEF Due
  <1>12. CASE r.increment = 0
    <2>1. \A date \in Int : IsDate(r, date) => date = r.start
      BY <1>3, <1>12 DEF IsDate
    <2>2. r.next = r.start /\ (next = Null \/ next = r.start)
      BY <1>2, <1>3, <1>5, <1>12, <2>1, NextIs
    <2>3. \A date \in Int : IsDate(s, date) => ~(date < r.start)
      BY <1>3, <1>9, <2>1
    <2>4. /\ s.next = Null => Settled(i, s.start)'
          /\ s.next # Null => Settled(i, s.next)' /\ s.next = r.start
      BY <1>8, <1>10, <2>2
    <2>5. QED
      BY <1>1, <1>8, <1>11, <1>12, <2>3, <2>4 DEF Due, IsDate, Settled, Day
  <1>13. CASE r.increment > 0
    <2>1. /\ next # Null /\ next > now /\ IsMidnight(next) /\ next \in Nat
          /\ \A date \in Int : On(r.start, r.increment, date) /\ date < next => date <= now
      BY <1>2, <1>3, <1>5, <1>13, NextIs DEF IsMidnight
    <2>2. ASSUME NEW date \in Int, IsDate(r, date), date < next
          PROVE  Settled(i, date)'
      <3>1. date <= now
        BY <1>2, <2>1, <2>2, DatesAre
      <3>2. CASE date < r.next
        BY <1>1, <1>2, <1>9, <2>2, <3>2 DEF Due
      <3>3. CASE date = r.next
        BY <1>10, <3>3
      <3>4. CASE date > r.next
        <4>1. r.next + DayLen <= date
          BY <1>2, <1>3, <2>2, <3>4, DatesApart
        <4>2. QED
          BY <1>2, <1>3, <1>4, <3>1, <4>1, DayAssumption
      <3>5. QED
        BY <1>3, <3>2, <3>3, <3>4
    <2>3. Ahead(i)'
      <3>1. Day(next) > Day(now)
        <4>1. now % DayLen >= Midnight
          BY <1>2, DayAssumption
        <4>2. QED
          BY <1>2, <2>1, <4>1, MidnightAhead
      <3>2. QED
        BY <1>6, <1>8, <3>1 DEF Ahead, Day, today
    <2>4. QED
      BY <1>1, <1>8, <1>9, <1>11, <2>1, <2>2, <2>3 DEF Due, IsDate, Settled, Day
  <1>14. QED
    BY <1>3, <1>12, <1>13

\* While time passes nothing is due that the task has not seen.
LEMMA TickDue ==
    ASSUME RowsInv, Tick, NEW i \in rows, Ahead(i), reminders[i].next # Null
    PROVE  Ahead(i)'
  <1>1. /\ now \in Nat /\ now' = now + 1 /\ UNCHANGED <<reminders, queue>>
        /\ ran' => Day(now + 1) = Day(now)
        /\ ran' => ran
        /\ now % DayLen = CronTick => ran /\ queue = {}
    <2>1. /\ ran' => Day(now + 1) = Day(now)
          /\ ran' => ran
          /\ now % DayLen = CronTick => ran /\ queue = {}
      BY DEF Tick, today
    <2>2. QED
      BY <2>1 DEF Tick, RowsInv, TypeOK
  <1>2. PICK next \in Int : next = reminders[i].next
    <2>1. IsRow(reminders[i])
      BY DEF RowsInv, TypeOK
    <2>2. QED
      BY <2>1 DEF IsRow, IsMidnight
  <1>3. Day(next) \in Int /\ Day(now) \in Int /\ now % DayLen \in Int
    BY <1>1, <1>2, Moment
  <1>4. Ahead(i)' <=> \/ Day(next) > Day(now + 1)
                      \/ Day(next) = Day(now + 1) /\ (~ran' \/ Queued(i))
    BY <1>1, <1>2 DEF Ahead, today, Day, Queued
  <1>5. CASE Day(next) > Day(now)
    <2>1. CASE Day(now + 1) = Day(now)
      BY <1>4, <1>5, <2>1
    <2>2. CASE Day(now + 1) = Day(now) + 1
      <3>1. Day(now + 1) # Day(now)
        BY <1>3, <2>2
      <3>2. Day(next) > Day(now + 1) \/ Day(next) = Day(now + 1)
        BY <1>3, <1>5, <2>2
      <3>3. QED
        BY <1>1, <1>4, <3>1, <3>2
    <2>3. QED
      BY <1>1, <2>1, <2>2, NextTick
  <1>6. CASE Day(next) = Day(now) /\ ~ran
    <2>1. now % DayLen < CronTick /\ CronTick \in 0..(DayLen - 1) /\ DayLen \in Nat
      BY <1>1, <1>3, <1>6, DayAssumption DEF RowsInv, Clock
    <2>2. Day(now + 1) = Day(now)
      BY <1>1, <1>3, <2>1, NextTick
    <2>3. QED
      BY <1>1, <1>4, <1>6, <2>2
  <1>7. ~Queued(i)
    BY DEF Queued, RowsInv, Loaded, Tick
  <1>8. QED
    BY <1>2, <1>5, <1>6, <1>7 DEF Ahead, today

LEMMA NextDue == Midnight <= CronTick /\ RowsInv /\ DueInv /\ [Next]_vars => DueInv'
  <1> SUFFICES ASSUME Midnight <= CronTick, RowsInv, DueInv, [Next]_vars,
                      NEW i \in rows', i \notin disturbed', i \notin dropped'
               PROVE  Due(i)'
    BY DEF DueInv
  <1>1. CASE Tick
    <2>1. i \in rows /\ i \notin disturbed /\ i \notin dropped
          /\ UNCHANGED <<reminders, since, mailed>>
      BY <1>1 DEF Tick, rows
    <2>2. Due(i)
      BY <2>1 DEF DueInv
    <2>3. CASE reminders[i].next = Null
      BY <2>1, <2>2, <2>3 DEF Due, Settled, Day
    <2>4. CASE reminders[i].next # Null
      BY <1>1, <2>1, <2>2, <2>4, TickDue, DueStays
    <2>5. QED
      BY <2>3, <2>4
  <1>2. ASSUME NEW j \in Ids, NEW d \in StartDays, NEW n \in Increments,
               Save(j, StartOf(d), n)
        PROVE  Due(i)'
    <2>1. CASE i = j
      BY <1>2, <2>1, SaveDue
    <2>2. CASE i # j
      <3>1. /\ i \in rows /\ i \notin disturbed /\ i \notin dropped
            /\ reminders'[i] = reminders[i] /\ since'[i] = since[i]
            /\ UNCHANGED <<now, queue, ran>>
            /\ mailed' = {m \in mailed : m.id # j \/ j \in rows}
        BY <1>2, <2>2 DEF Save, rows
      <3>2. \A date : [id |-> i, date |-> date, day |-> Day(date)] \in mailed
                         => [id |-> i, date |-> date, day |-> Day(date)] \in mailed'
        BY <2>2, <3>1
      <3>3. Ahead(i) => Ahead(i)'
        BY <3>1 DEF Ahead, Queued, Day, today
      <3>4. Due(i)
        BY <3>1 DEF DueInv
      <3>5. QED
        BY <3>1, <3>2, <3>3, <3>4, DueStays
    <2>3. QED
      BY <2>1, <2>2
  <1>3. ASSUME NEW j \in Ids, Destroy(j)
        PROVE  Due(i)'
    <2>1. /\ i \in rows /\ i # j /\ i \notin disturbed /\ i \notin dropped
          /\ reminders'[i] = reminders[i] /\ since'[i] = since[i]
          /\ UNCHANGED <<now, queue, ran>>
          /\ mailed' = {m \in mailed : m.id # j}
      BY <1>3 DEF Destroy, rows
    <2>2. \A date : [id |-> i, date |-> date, day |-> Day(date)] \in mailed
                       => [id |-> i, date |-> date, day |-> Day(date)] \in mailed'
      BY <2>1
    <2>3. Ahead(i) => Ahead(i)'
      BY <2>1 DEF Ahead, Queued, Day, today
    <2>4. Due(i)
      BY <2>1 DEF DueInv
    <2>5. QED
      BY <2>1, <2>2, <2>3, <2>4, DueStays
  <1>4. CASE StartTask
    <2>1. /\ i \in rows /\ i \notin disturbed /\ i \notin dropped
          /\ UNCHANGED <<now, reminders, since, mailed>>
          /\ queue' = {[id |-> j, row |-> reminders[j]] : j \in due_today}
      BY <1>4 DEF StartTask, rows
    <2>2. Due(i)
      BY <2>1 DEF DueInv
    <2>3. CASE reminders[i].next = Null
      BY <2>1, <2>2, <2>3 DEF Due, Settled, Day
    <2>4. CASE reminders[i].next # Null
      <3>1. Day(reminders[i].next) = today => Queued(i)'
        <4> SUFFICES ASSUME Day(reminders[i].next) = today
                     PROVE  \E q \in queue' : q.id = i
          BY DEF Queued
        <4>1. [id |-> i, row |-> reminders[i]] \in queue'
          BY <2>1, <2>4 DEF due_today
        <4>2. QED
          BY <4>1
      <3>2. Ahead(i) => Ahead(i)'
        BY <2>1, <3>1 DEF Ahead, Day, today
      <3>3. QED
        BY <2>1, <2>2, <3>2, DueStays
    <2>5. QED
      BY <2>3, <2>4
  <1>5. ASSUME NEW q \in queue, Remind(q)
        PROVE  Due(i)'
    <2>1. i \in rows /\ i \notin disturbed /\ i \notin dropped
      BY <1>5 DEF Remind, rows
    <2>2. Due(i)
      BY <2>1 DEF DueInv
    <2>3. CASE i = q.id
      BY <1>5, <2>1, <2>2, <2>3, RemindDue
    <2>4. CASE i # q.id
      <3>1. /\ reminders'[i] = reminders[i] /\ UNCHANGED <<now, since, ran>>
            /\ queue' = queue \ {q} /\ mailed \subseteq mailed'
        BY <1>5, <2>1, <2>4 DEF Remind
      <3>2. Ahead(i) => Ahead(i)'
        BY <2>4, <3>1 DEF Ahead, Queued, Day, today
      <3>3. QED
        BY <2>2, <3>1, <3>2, DueStays
    <2>5. QED
      BY <2>3, <2>4
  <1>6. ASSUME NEW q \in queue, RemindRaises(q)
        PROVE  Due(i)'
    <2>1. /\ i \in rows /\ i \notin disturbed /\ i \notin dropped
          /\ i # q.id /\ \A o \in queue \ {q} : o.id # i
          /\ UNCHANGED <<now, reminders, ran, mailed, since>>
      BY <1>6 DEF RemindRaises, rows
    <2>2. ~Queued(i)
      BY <2>1 DEF Queued
    <2>3. Due(i)
      BY <2>1 DEF DueInv
    <2>4. Ahead(i) => Ahead(i)'
      BY <2>1, <2>2 DEF Ahead, Day, today
    <2>5. QED
      BY <2>1, <2>3, <2>4, DueStays
  <1>7. CASE UNCHANGED vars
    <2>1. i \in rows /\ i \notin disturbed /\ i \notin dropped
      BY <1>7 DEF vars, rows
    <2>2. Due(i)
      BY <2>1 DEF DueInv
    <2>3. Ahead(i) => Ahead(i)'
      BY <1>7 DEF vars, Ahead, Queued, Day, today
    <2>4. QED
      BY <1>7, <2>2, <2>3, DueStays DEF vars
  <1>8. QED
    BY <1>1, <1>2, <1>3, <1>4, <1>5, <1>6, <1>7 DEF Next

\* What is ahead has not been due yet, and what comes after is later.
LEMMA DueIsMailed ==
    ASSUME RowsInv, NEW i \in rows, Due(i), i \notin disturbed
    PROVE  DueMailed(i)
  <1> SUFFICES ASSUME NEW date \in Moments, DateOf(i, date), since[i] < date,
                      Day(date) < today \/ (ran /\ queue = {})
               PROVE  [id |-> i, date |-> date, day |-> Day(date)] \in mailed
    BY DEF DueMailed
  <1>1. PICK r : r = reminders[i]
    OBVIOUS
  <1>2. now \in Nat /\ IsRow(r) /\ r.start \in Nat /\ r.increment \in Nat
    BY <1>1, IncrementsAssumption DEF RowsInv, TypeOK, IsRow, IsMidnight
  <1>3. today \in Int
    BY <1>2, Moment DEF today
  <1>4. date \in Nat /\ IsMidnight(date) /\ Day(date) \in Int /\ Day(date) <= today
    <2>1. PICK d \in 0..today : date = d * DayLen + Midnight
      BY DEF Moments, StartOf
    <2>2. Midnight \in 0..(DayLen - 1) /\ DayLen \in Nat /\ d \in Int
      BY <1>3, <2>1, DayAssumption
    <2>3. date = DayLen * d + Midnight /\ date \in Nat
      BY <1>3, <2>1, <2>2
    <2>4. Day(date) = d /\ date % DayLen = Midnight
      BY <2>2, <2>3, DayOf
    <2>5. QED
      BY <1>3, <2>1, <2>3, <2>4 DEF IsMidnight
  <1>5. IsDate(r, date) /\ since[i] \in Nat
    BY <1>1 DEF DateOf, IsDate, Due
  <1>6. SUFFICES Settled(i, date)
    BY <1>4, <1>5 DEF Settled
  <1>7. CASE r.next = Null
    <2>1. r.increment = 0
      BY <1>1, <1>7 DEF RowsInv, TypeOK
    <2>2. date = r.start
      BY <1>5, <2>1 DEF IsDate
    <2>3. QED
      BY <1>1, <1>7, <2>2 DEF Due
  <1>8. CASE r.next # Null
    <2>1. r.next \in Nat /\ IsMidnight(r.next) /\ IsDate(r, r.next) /\ Day(r.next) \in Int
      BY <1>1, <1>2, <1>8, Moment DEF RowsInv, TypeOK, DateOf, IsDate, IsRow, IsMidnight
    <2>2. CASE date < r.next
      BY <1>1, <1>4, <1>5, <1>8, <2>2 DEF Due
    <2>3. CASE Ahead(i) /\ r.next <= date
      <3>1. Day(r.next) <= Day(date)
        BY <1>4, <2>1, <2>3, LaterDay
      <3>2. Day(r.next) >= today
        BY <1>1, <1>3, <2>1, <2>3 DEF Ahead
      <3>3. Day(r.next) = today /\ Day(date) = today
        BY <1>3, <1>4, <2>1, <3>1, <3>2
      <3>4. ~Ahead(i)
        BY <1>1, <1>3, <3>3 DEF Ahead, Queued
      <3>5. QED
        BY <2>3, <3>4
    <2>4. CASE r.increment = 0 /\ Settled(i, r.next)
      <3>1. date = r.start /\ r.next = r.start
        BY <1>5, <2>1, <2>4 DEF IsDate
      <3>2. QED
        BY <2>4, <3>1
    <2>5. QED
      BY <1>1, <1>4, <1>8, <2>1, <2>2, <2>3, <2>4 DEF Due
  <1>9. QED
    BY <1>7, <1>8

\* Where cron runs the task at the site's midnight or later in the UTC day, for any
\* reminders and types: a reminder is mailed on each of its dates since a user
\* last saved it, unless its delivery or that of another one due failed, or it
\* was saved while the task had it loaded.
THEOREM EveryDateAlwaysMailed ==
    ASSUME Midnight <= CronTick
    PROVE  Spec => []EveryDateMailed
  <1>1. Init => DueInv
    BY DEF Init, DueInv, rows
  <1>2. RowsInv /\ DueInv /\ [Next]_vars => DueInv'
    BY NextDue
  <1>3. RowsInv /\ DueInv => EveryDateMailed
    <2> SUFFICES ASSUME RowsInv, DueInv, NEW i \in rows \ (disturbed \cup dropped)
                 PROVE  DueMailed(i)
      BY DEF EveryDateMailed
    <2>1. QED
      BY DueIsMailed DEF DueInv
  <1>4. QED
    BY <1>1, <1>2, <1>3, RowsInvariant, PTL DEF Spec
================================================================================
