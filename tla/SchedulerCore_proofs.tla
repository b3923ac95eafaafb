------------------------ MODULE SchedulerCore_proofs ------------------------
(***************************************************************************)
(* What the scheduler's arithmetic guarantees for every schedule and time. *)
(***************************************************************************)
EXTENDS SchedulerCore, WellFoundedInduction, TLAPS

\* Every non-empty set of naturals has a least element.
LEMMA LeastNat ==
  ASSUME NEW T, T \subseteq Nat, T # {}
  PROVE  \E x \in T : \A y \in T : x <= y
<1>1. PICK x \in T : \A y \in T : ~ (<<y, x>> \in OpToRel(<, Nat))
  BY WFMin, NatLessThanWellFounded, Zenon
<1>2. \A y \in T : ~ (y < x)
  BY <1>1, Zenon DEF OpToRel
<1> QED
  BY <1>2

\* The day of a time contains it, and is the only day that does.
LEMMA DayStartBounds ==
  ASSUME NEW now \in Int
  PROVE  DayStart(now) \in Int /\ DayStart(now) <= now /\ now < DayStart(now) + Day
BY CoreOK DEF DayStart

LEMMA SameDay ==
  ASSUME NEW now \in Int, NEW x \in Int,
         DayStart(now) <= x, x < DayStart(now) + Day
  PROVE  DayStart(x) = DayStart(now)
<1> DEFINE q == now \div Day
           p == x \div Day
<1>1. q \in Int /\ p \in Int /\ Day \in Nat /\ Day > 0
  BY CoreOK
<1>2. DayStart(now) = Day * q /\ DayStart(x) = Day * p
  BY <1>1 DEF DayStart
<1>3. Day * p <= x /\ x < Day * p + Day
  BY <1>2, DayStartBounds
<1>4. Day * q <= x /\ x < Day * q + Day
  BY <1>2
<1> HIDE DEF q, p
<1>5. \A k \in Int : k >= 1 => Day * k >= Day
  BY <1>1
<1>6. ~ (p - q >= 1) /\ ~ (q - p >= 1)
  <2>1. Day * (p - q) = Day * p - Day * q /\ Day * (q - p) = Day * q - Day * p
    BY <1>1
  <2> QED BY <1>1, <1>3, <1>4, <1>5, <2>1
<1> QED BY <1>1, <1>2, <1>6

\* Among finitely many candidates with times below a bound, LatestIndex picks one
\* whose time no other exceeds, the last of equals.
LEMMA LatestIndexIsLatest ==
  ASSUME NEW n \in Nat, NEW cand, cand \subseteq 1..n, cand # {},
         NEW time, \A k \in cand : time[k] \in Int,
         NEW bound \in Int, \A k \in cand : time[k] <= bound
  PROVE  /\ LatestIndex(cand, time) \in cand
         /\ \A k \in cand :
              \/ time[k] < time[LatestIndex(cand, time)]
              \/ time[k] = time[LatestIndex(cand, time)] /\ k <= LatestIndex(cand, time)
<1>1. PICK e \in cand : \A k \in cand : time[k] <= time[e]
  <2> DEFINE below == {bound - time[k] : k \in cand}
  <2>0. \A k \in cand : bound - time[k] \in Nat
    OBVIOUS
  <2>1. below \subseteq Nat /\ below # {}
    BY <2>0
  <2> HIDE DEF below
  <2>2. PICK m \in below : \A y \in below : m <= y
    BY <2>1, LeastNat
  <2>3. PICK e \in cand : m = bound - time[e]
    BY <2>2 DEF below
  <2>4. \A k \in cand : bound - time[e] <= bound - time[k]
    BY <2>2, <2>3 DEF below
  <2> QED BY <2>4
<1>2. PICK i \in cand : time[i] = time[e] /\ \A k \in cand : time[k] = time[e] => k <= i
  <2> DEFINE after == {n - k : k \in {j \in cand : time[j] = time[e]}}
  <2>1. after \subseteq Nat /\ after # {}
    <3>1. \A k \in cand : k \in Int /\ k <= n
      OBVIOUS
    <3> QED BY <3>1, <1>1
  <2> HIDE DEF after
  <2>2. PICK m \in after : \A y \in after : m <= y
    BY <2>1, LeastNat
  <2>3. PICK i \in cand : time[i] = time[e] /\ m = n - i
    BY <2>2 DEF after
  <2>4. \A k \in cand : time[k] = time[e] => n - i <= n - k
    BY <2>2, <2>3 DEF after
  <2> QED BY <2>3, <2>4
<1> DEFINE Latest(j) == \A k \in cand : time[k] < time[j] \/ (time[k] = time[j] /\ k <= j)
<1>3. Latest(i)
  BY <1>1, <1>2
<1>4. LatestIndex(cand, time) = CHOOSE j \in cand : Latest(j)
  BY DEF LatestIndex
<1>5. (CHOOSE j \in cand : Latest(j)) \in cand /\ Latest(CHOOSE j \in cand : Latest(j))
  BY <1>3
<1> QED BY <1>4, <1>5
-----------------------------------------------------------------------------
\* A schedule whose cron lines are all readable.
Readable(n, m) == m \in [1..n -> [id : JobIds, slot : Slots]]

\* What tick shows was current at some time since next_run was computed: with fresh
\* next_run times the choice of tick (eink_scheduler_decide) is the choice of repaint.
THEOREM DueJobWasCurrent ==
  ASSUME NEW n \in Nat, NEW m, Readable(n, m),
         NEW at \in Int, NEW now \in Int, at <= now, NEW last,
         Decide(WithNext(m, at), now, last) # 0
  PROVE  \E x \in at..now :
           CurrentIndex(WithNext(m, at), x) = Decide(WithNext(m, at), now, last)
<1> DEFINE jobs == WithNext(m, at)
           D == DayStart(at)
           x == IF now < D + Day THEN now ELSE D + Day - 1
           next == [k \in DOMAIN jobs |-> jobs[k].next]
           due == {k \in DOMAIN jobs : jobs[k].next <= now}
           occ == [k \in DOMAIN jobs |-> Occurrence(jobs[k].slot, x)]
           i == LatestIndex(due, next)
<1>1. D \in Int /\ D <= at /\ at < D + Day
  BY DayStartBounds
<1>2. x \in at..now /\ DayStart(x) = D
  <2>1. x \in Int /\ D <= x /\ x < D + Day /\ at <= x /\ x <= now
    BY <1>1, CoreOK
  <2> QED BY <1>1, <2>1, SameDay
<1>3. /\ DOMAIN jobs = 1..n
      /\ \A k \in 1..n : /\ jobs[k].slot \in Slots /\ jobs[k].slot \in Int
                         /\ jobs[k].slot >= 0 /\ jobs[k].slot < Day
                         /\ jobs[k].next = D + jobs[k].slot
  BY CoreOK DEF WithNext, Readable, CronNextRun, Slots
<1>5. due # {} /\ Decide(jobs, now, last) = i
  <2>1. Decide(jobs, now, last) = IF i # 0 /\ jobs[i].id = last THEN 0 ELSE i
    BY DEF Decide
  <2>2. due = {} => i = 0
    BY DEF LatestIndex
  <2> QED BY <2>1, <2>2
<1>b. x = IF now < D + Day THEN now ELSE D + Day - 1
  OBVIOUS
<1> HIDE DEF jobs, D, x, i
<1>4. \A k \in 1..n : Occurrence(jobs[k].slot, x) =
                        IF D + jobs[k].slot > x THEN D + jobs[k].slot - Day ELSE D + jobs[k].slot
  <2>1. \A k \in 1..n : jobs[k].slot # BadCron
    BY <1>3, CoreOK DEF Slots
  <2>2. \A k \in 1..n : CronNextRun(jobs[k].slot, x) = D + jobs[k].slot
    BY <1>2, <2>1 DEF CronNextRun
  <2>3. ASSUME NEW k \in 1..n
        PROVE  Occurrence(jobs[k].slot, x) =
                 IF D + jobs[k].slot > x THEN D + jobs[k].slot - Day ELSE D + jobs[k].slot
    <3>1. CronNextRun(jobs[k].slot, x) = D + jobs[k].slot
      BY <2>2
    <3>2. Occurrence(jobs[k].slot, x) = IF CronNextRun(jobs[k].slot, x) > x
                                        THEN CronNextRun(jobs[k].slot, x) - Day
                                        ELSE CronNextRun(jobs[k].slot, x)
      BY Zenon DEF Occurrence
    <3> QED BY <1>1, <1>2, <1>3, <3>1, <3>2, CoreOK
  <2> QED BY <2>3
<1>6. \A k \in 1..n :
        /\ next[k] = D + jobs[k].slot
        /\ occ[k] = IF D + jobs[k].slot > x THEN D + jobs[k].slot - Day ELSE D + jobs[k].slot
        /\ occ[k] <= x /\ occ[k] \in Int
  <2>1. \A k \in 1..n : next[k] = jobs[k].next /\ occ[k] = Occurrence(jobs[k].slot, x)
    BY <1>3
  <2> HIDE DEF next, occ
  <2> QED BY <1>1, <1>b, <1>2, <1>3, <1>4, <2>1, CoreOK
<1>7. due = {k \in 1..n : D + jobs[k].slot <= x}
  BY <1>1, <1>3, <1>b, CoreOK
<1>8. i \in due /\ \A k \in due : next[k] < next[i] \/ (next[k] = next[i] /\ k <= i)
  <2>1. due \subseteq 1..n /\ \A k \in due : next[k] \in Int /\ next[k] <= now
    BY <1>1, <1>3, <1>6
  <2> QED BY <1>5, <2>1, LatestIndexIsLatest DEF i
<1> HIDE DEF next, due
<1>9. \A k \in 1..n : occ[k] < occ[i] \/ (occ[k] = occ[i] /\ k <= i)
  <2> HIDE DEF occ
  <2>1. i \in 1..n /\ occ[i] = D + jobs[i].slot /\ next[i] = occ[i]
    BY <1>1, <1>2, <1>3, <1>6, <1>7, <1>8
  <2>2. \A k \in due : occ[k] = next[k]
    BY <1>1, <1>2, <1>3, <1>6, <1>7
  <2>3. \A k \in 1..n : k \notin due => occ[k] < D
    <3>1. \A k \in 1..n : k \notin due => D + jobs[k].slot > x
      BY <1>1, <1>2, <1>3, <1>7
    <3>2. \A k \in 1..n : k \notin due => occ[k] = D + jobs[k].slot - Day
      BY <1>6, <3>1
    <3> QED BY <1>1, <1>3, <3>2, CoreOK
  <2>4. D <= occ[i]
    BY <1>1, <1>3, <2>1
  <2> QED BY <1>1, <1>6, <1>7, <1>8, <2>1, <2>2, <2>3, <2>4
<1>10. CurrentIndex(jobs, x) = i
  <2>1. {k \in DOMAIN jobs : occ[k] <= x} = 1..n
    BY <1>3, <1>6
  <2>2. CurrentIndex(jobs, x) = LatestIndex(1..n, occ)
    BY <2>1 DEF CurrentIndex
  <2> HIDE DEF occ
  <2>3. i \in 1..n
    BY <1>7, <1>8
  <2> DEFINE j == LatestIndex(1..n, occ)
  <2>4. j \in 1..n /\ \A k \in 1..n : occ[k] < occ[j] \/ (occ[k] = occ[j] /\ k <= j)
    <3>1. 1..n # {} /\ x \in Int
      BY <1>2, <2>3
    <3>2. \A k \in 1..n : occ[k] \in Int /\ occ[k] <= x
      BY <1>6
    <3> QED BY <3>1, <3>2, LatestIndexIsLatest
  <2>5. j = i
    <3> HIDE DEF j
    <3> QED BY <1>6, <1>9, <2>3, <2>4
  <2> QED BY <2>2, <2>5
<1> QED BY <1>2, <1>5, <1>10 DEF jobs

\* The time of a cron line that comes after now is no sooner than CronNextAfter.
LEMMA NextAfterIsNext ==
  ASSUME NEW slot \in Slots, NEW now \in Int, NEW x \in Int, now < x, x % Day = slot
  PROVE  CronNextAfter(slot, now) <= x
<1> DEFINE D == DayStart(now)
           E == DayStart(x)
<1>1. /\ D \in Int /\ D <= now /\ now < D + Day
      /\ E \in Int /\ E <= x /\ x < E + Day /\ x = E + slot /\ slot \in Int
  BY DayStartBounds, CoreOK DEF DayStart, Slots
<1>2. DayStart(E) = E
  BY <1>1, SameDay, CoreOK
<1>3. CASE E < D + Day
  <2>1. E = D
    <3>1. CASE D <= E
      BY <1>1, <1>2, <1>3, <3>1, SameDay
    <3>2. CASE E < D
      <4>1. DayStart(D) = E
        <5>1. E <= D /\ D < E + Day
          BY <1>1, <3>2, CoreOK
        <5> QED BY <1>1, <5>1, SameDay
      <4>2. DayStart(D) = D
        BY <1>1, SameDay, CoreOK
      <4> QED BY <1>1, <3>2, <4>1, <4>2
    <3> QED BY <1>1, <3>1, <3>2
  <2> QED BY <1>1, <2>1, CoreOK DEF CronNextAfter, CronNextRun
<1>4. CASE E >= D + Day
  BY <1>1, <1>4, CoreOK DEF CronNextAfter, CronNextRun
<1> QED BY <1>1, <1>3, <1>4, CoreOK

\* The wake that eink_scheduler_next_wakeup chooses is at least WakeFloor away and
\* sleeps through no job's time, except within WakeFloor of now.
THEOREM WakesForEverySlot ==
  ASSUME NEW n \in Nat, NEW m, Readable(n, m),
         NEW at \in Int, NEW now \in Int, NEW poll \in Nat
  PROVE  LET wake == NextWakeup(WithNext(m, at), now, poll)
         IN  /\ wake \in Int /\ wake >= now + WakeFloor
             /\ \A i \in 1..n : \A x \in (now + WakeFloor + 1)..(wake - 1) : x % Day # m[i].slot
<1> DEFINE jobs == WithNext(m, at)
           deadline == now + (IF poll = 0 THEN DefaultPoll ELSE poll)
           times == {deadline} \union {CronNextAfter(jobs[i].slot, now) : i \in DOMAIN jobs}
           best == CHOOSE b \in times : \A y \in times : b <= y
<1>1. DOMAIN jobs = 1..n /\ \A i \in 1..n : jobs[i].slot = m[i].slot /\ m[i].slot \in Slots
  BY DEF WithNext, Readable
<1> HIDE DEF jobs
<1>2. \A i \in 1..n : /\ CronNextAfter(m[i].slot, now) \in Int
                      /\ CronNextAfter(m[i].slot, now) > now
  <2>1. \A i \in 1..n : m[i].slot # BadCron /\ m[i].slot \in Int /\ m[i].slot >= 0
    BY <1>1, CoreOK DEF Slots
  <2> QED BY <2>1, DayStartBounds, CoreOK DEF CronNextAfter, CronNextRun
<1>3. deadline \in Int /\ deadline >= now
  BY CoreOK
<1> HIDE DEF deadline
<1>4. \A y \in times : y \in Int /\ y >= now
  BY <1>1, <1>2, <1>3
<1>5. PICK b \in times : \A y \in times : b <= y
  <2> DEFINE above == {y - now : y \in times}
  <2> HIDE DEF times
  <2>1. above \subseteq Nat /\ above # {}
    <3>1. times # {}
      BY DEF times
    <3> QED BY <1>4, <3>1
  <2> HIDE DEF above
  <2>2. PICK a \in above : \A y \in above : a <= y
    BY <2>1, LeastNat
  <2>3. PICK b \in times : a = b - now
    BY <2>2 DEF above
  <2>4. \A y \in times : b - now <= y - now
    BY <2>2, <2>3 DEF above
  <2> QED BY <1>4, <2>4
<1>6. best \in times /\ \A y \in times : best <= y
  <2> HIDE DEF times
  <2> QED BY <1>5
<1>7. NextWakeup(jobs, now, poll) = IF best < now + WakeFloor THEN now + WakeFloor ELSE best
  BY DEF NextWakeup, deadline
<1> HIDE DEF best
<1>8. \A i \in 1..n : best <= CronNextAfter(m[i].slot, now)
  BY <1>1, <1>6
<1>9. best \in Int
  BY <1>4, <1>6
<1> DEFINE wake == NextWakeup(jobs, now, poll)
<1>10. wake \in Int /\ wake >= now + WakeFloor
  BY <1>7, <1>9, CoreOK
<1>11. ASSUME NEW i \in 1..n, NEW x \in (now + WakeFloor + 1)..(wake - 1), x % Day = m[i].slot
       PROVE  FALSE
  <2>1. x \in Int /\ now < x /\ x < wake /\ x > now + WakeFloor
    BY <1>10, CoreOK
  <2>2. CronNextAfter(m[i].slot, now) <= x
    BY <1>1, <1>11, <2>1, NextAfterIsNext
  <2>3. best <= x
    BY <1>2, <1>8, <1>9, <2>1, <2>2
  <2> QED BY <1>7, <1>9, <2>1, <2>3, CoreOK
<1> QED BY <1>10, <1>11 DEF jobs
-----------------------------------------------------------------------------
\* A time of day comes once a day: two times that share it are a day or more apart.
LEMMA OnceADay ==
  ASSUME NEW x \in Int, NEW y \in Int, x < y, x % Day = y % Day
  PROVE  x + Day <= y
<1> DEFINE p == x \div Day
           q == y \div Day
<1>1. p \in Int /\ q \in Int /\ Day \in Nat /\ Day > 0
  BY CoreOK
<1>2. x = Day * p + (x % Day) /\ y = Day * q + (y % Day)
  BY <1>1
<1>3. x % Day \in Int
  BY <1>1
<1> HIDE DEF p, q
<1>4. Day * (q - p) = Day * q - Day * p
  BY <1>1
<1>5. \A k \in Int : (k >= 1 => Day * k >= Day) /\ (k <= 0 => Day * k <= 0)
  BY <1>1
<1>6. y - x = Day * (q - p)
  BY <1>1, <1>2, <1>3, <1>4
<1>7. q - p \in Int /\ ~(q - p <= 0)
  BY <1>1, <1>5, <1>6
<1>8. Day * (q - p) >= Day
  BY <1>1, <1>5, <1>7
<1> QED BY <1>1, <1>6, <1>8

\* The start of a day has time of day 0, and a slot after it has the slot's.
LEMMA TimeOfDay ==
  ASSUME NEW now \in Int, NEW slot \in Slots, NEW k \in {-1, 0, 1}
  PROVE  (DayStart(now) + k * Day + slot) % Day = slot
<1> DEFINE x == DayStart(now) + k * Day + slot
           p == x \div Day
           q == (now \div Day) + k
<1>1. /\ p \in Int /\ q \in Int /\ Day \in Nat /\ Day > 0 /\ x \in Int
      /\ slot \in Int /\ 0 <= slot /\ slot < Day
  BY CoreOK DEF Slots, DayStart
<1>2. x = Day * q + slot
  <2>1. DayStart(now) = Day * (now \div Day) /\ now \div Day \in Int
    BY CoreOK DEF DayStart
  <2>2. CASE k = 0
    BY <1>1, <2>1, <2>2
  <2>3. CASE k = 1
    BY <1>1, <2>1, <2>3
  <2>4. CASE k = -1
    BY <1>1, <2>1, <2>4
  <2> QED BY <2>2, <2>3, <2>4
<1>3. x = Day * p + (x % Day) /\ 0 <= x % Day /\ x % Day < Day /\ x % Day \in Int
  BY <1>1
<1> HIDE DEF x, p, q
<1>4. Day * (q - p) = Day * q - Day * p
  BY <1>1
<1>5. \A j \in Int : (j >= 1 => Day * j >= Day) /\ (j <= -1 => Day * j <= -Day)
  BY <1>1
<1>6. Day * (q - p) = (x % Day) - slot
  BY <1>1, <1>2, <1>3, <1>4
<1>7. q - p \in Int /\ ~(q - p >= 1) /\ ~(q - p <= -1)
  BY <1>1, <1>3, <1>5, <1>6
<1>8. q = p
  BY <1>1, <1>7
<1>9. x % Day = slot
  BY <1>1, <1>2, <1>3, <1>8
<1> QED BY <1>9 DEF x

\* Occurrence is the latest time at or before now with the time of day of the slot.
LEMMA OccurrenceIsLast ==
  ASSUME NEW slot \in Slots, NEW now \in Int
  PROVE  /\ Occurrence(slot, now) \in Int
         /\ Occurrence(slot, now) <= now /\ now < Occurrence(slot, now) + Day
         /\ Occurrence(slot, now) % Day = slot
         /\ \A x \in (Occurrence(slot, now) + 1)..now : x % Day # slot
<1> DEFINE D == DayStart(now)
           o == Occurrence(slot, now)
<1>1. /\ D \in Int /\ D <= now /\ now < D + Day /\ Day \in Nat /\ Day > 0
      /\ slot \in Int /\ 0 <= slot /\ slot < Day /\ slot # BadCron
  BY DayStartBounds, CoreOK DEF Slots
<1>2. o = IF D + slot > now THEN D + slot - Day ELSE D + slot
  BY <1>1 DEF Occurrence, CronNextRun
<1>3. (D + slot) % Day = slot /\ (D + slot - Day) % Day = slot
  <2>1. (D + 0 * Day + slot) % Day = slot /\ (D + (-1) * Day + slot) % Day = slot
    BY TimeOfDay
  <2>2. D + 0 * Day + slot = D + slot /\ D + (-1) * Day + slot = D + slot - Day
    BY <1>1
  <2> QED BY <2>1, <2>2
<1> HIDE DEF D, o
<1>4. o \in Int /\ o <= now /\ now < o + Day /\ o % Day = slot
  BY <1>1, <1>2, <1>3
<1>5. ASSUME NEW x \in (o + 1)..now, x % Day = slot PROVE FALSE
  <2>1. x \in Int /\ o < x /\ x <= now
    BY <1>4
  <2>2. o + Day <= x
    BY <1>4, <1>5, <2>1, OnceADay
  <2> QED BY <1>1, <1>4, <2>1, <2>2
<1> QED BY <1>4, <1>5 DEF o

\* The job repaint and current_image choose is the one whose time of day came last: since
\* it came, within the last day, no job's has; and of jobs with that time of day it is the
\* last of the list.
THEOREM CurrentIsLatestSlot ==
  ASSUME NEW n \in Nat \ {0}, NEW m, Readable(n, m), NEW at \in Int, NEW now \in Int
  PROVE  LET i == CurrentIndex(WithNext(m, at), now)
         IN  /\ i \in 1..n
             /\ \E since \in (now - Day + 1)..now :
                  /\ since % Day = m[i].slot
                  /\ \A x \in (since + 1)..now : \A k \in 1..n : x % Day # m[k].slot
                  /\ \A k \in 1..n : m[k].slot = m[i].slot => k <= i
<1> DEFINE jobs == WithNext(m, at)
           occ == [k \in DOMAIN jobs |-> Occurrence(jobs[k].slot, now)]
           i == LatestIndex(1..n, occ)
<1>1. DOMAIN jobs = 1..n /\ \A k \in 1..n : jobs[k].slot = m[k].slot /\ m[k].slot \in Slots
  BY DEF WithNext, Readable
<1> HIDE DEF jobs
<1>2. \A k \in 1..n : /\ occ[k] = Occurrence(m[k].slot, now)
                      /\ occ[k] \in Int /\ occ[k] <= now /\ now < occ[k] + Day
                      /\ occ[k] % Day = m[k].slot
                      /\ \A x \in (occ[k] + 1)..now : x % Day # m[k].slot
  BY <1>1, OccurrenceIsLast
<1>3. CurrentIndex(jobs, now) = i
  <2>1. {k \in DOMAIN jobs : occ[k] <= now} = 1..n
    BY <1>1, <1>2
  <2> QED BY <2>1 DEF CurrentIndex
<1> HIDE DEF occ
<1>4. i \in 1..n /\ \A k \in 1..n : occ[k] < occ[i] \/ (occ[k] = occ[i] /\ k <= i)
  <2>1. 1..n # {} /\ n \in Nat
    <3>1. 1 \in 1..n
      OBVIOUS
    <3> QED BY <3>1
  <2> QED BY <1>2, <2>1, LatestIndexIsLatest
<1> HIDE DEF i
<1>5. occ[i] \in (now - Day + 1)..now /\ occ[i] % Day = m[i].slot
  BY <1>2, <1>4, CoreOK
<1>6. ASSUME NEW x \in (occ[i] + 1)..now, NEW k \in 1..n PROVE x % Day # m[k].slot
  <2>1. occ[k] <= occ[i] /\ occ[i] \in Int /\ occ[k] \in Int
    BY <1>2, <1>4
  <2>2. x \in (occ[k] + 1)..now
    BY <2>1
  <2> QED BY <1>2, <2>2
<1>7. ASSUME NEW k \in 1..n, m[k].slot = m[i].slot PROVE k <= i
  <2>1. occ[k] = occ[i]
    BY <1>2, <1>4, <1>7
  <2> QED BY <1>2, <1>4, <2>1
<1>8. \E since \in (now - Day + 1)..now :
        /\ since % Day = m[i].slot
        /\ \A x \in (since + 1)..now : \A k \in 1..n : x % Day # m[k].slot
        /\ \A k \in 1..n : m[k].slot = m[i].slot => k <= i
  BY <1>5, <1>6, <1>7
<1> QED BY <1>3, <1>4, <1>8 DEF jobs

\* The next wake is the poll deadline or a job's time within the day, put off to the floor
\* if it comes sooner: nothing else wakes the processor (eink_scheduler_next_wakeup).
THEOREM WakesForAReason ==
  ASSUME NEW n \in Nat, NEW m, Readable(n, m),
         NEW at \in Int, NEW now \in Int, NEW poll \in Nat
  PROVE  LET wake == NextWakeup(WithNext(m, at), now, poll)
         IN  \E x \in Int :
                /\ \/ x = now + (IF poll = 0 THEN DefaultPoll ELSE poll)
                   \/ now < x /\ x <= now + Day /\ \E i \in 1..n : x % Day = m[i].slot
                /\ wake = IF x < now + WakeFloor THEN now + WakeFloor ELSE x
<1> DEFINE jobs == WithNext(m, at)
           deadline == now + (IF poll = 0 THEN DefaultPoll ELSE poll)
           Run(i) == CronNextAfter(jobs[i].slot, now)
           times == {deadline} \union {Run(i) : i \in DOMAIN jobs}
           best == CHOOSE b \in times : \A y \in times : b <= y
<1>1. DOMAIN jobs = 1..n /\ \A i \in 1..n : jobs[i].slot = m[i].slot /\ m[i].slot \in Slots
  BY DEF WithNext, Readable
<1> HIDE DEF jobs
<1>2. \A i \in 1..n : /\ Run(i) \in Int /\ Run(i) > now /\ Run(i) <= now + Day
                      /\ Run(i) % Day = m[i].slot
  <2> SUFFICES ASSUME NEW i \in 1..n
               PROVE  /\ Run(i) \in Int /\ Run(i) > now /\ Run(i) <= now + Day
                      /\ Run(i) % Day = m[i].slot
    OBVIOUS
  <2> DEFINE D == DayStart(now)
             slot == m[i].slot
  <2>1. /\ D \in Int /\ D <= now /\ now < D + Day /\ Day \in Nat /\ slot \in Slots
        /\ slot \in Int /\ 0 <= slot /\ slot < Day /\ slot # BadCron
    <3>1. slot \in Slots
      BY <1>1
    <3> HIDE DEF slot
    <3> QED BY <3>1, DayStartBounds, CoreOK DEF Slots
  <2>2. (D + slot) % Day = slot /\ (D + slot + Day) % Day = slot
    <3>1. (D + 0 * Day + slot) % Day = slot /\ (D + 1 * Day + slot) % Day = slot
      BY <2>1, TimeOfDay
    <3>2. D + 0 * Day + slot = D + slot /\ D + 1 * Day + slot = D + slot + Day
      BY <2>1
    <3> QED BY <3>1, <3>2
  <2>3. Run(i) = IF D + slot > now THEN D + slot ELSE D + slot + Day
    BY <1>1, <2>1 DEF CronNextAfter, CronNextRun
  <2> HIDE DEF D, slot, Run
  <2>4. Run(i) \in Int /\ Run(i) > now /\ Run(i) <= now + Day
    BY <2>1, <2>3
  <2>5. Run(i) % Day = slot
    BY <2>2, <2>3
  <2> QED BY <2>4, <2>5 DEF slot
<1>3. deadline \in Int /\ deadline >= now
  BY CoreOK
<1>4. NextWakeup(jobs, now, poll) = IF best < now + WakeFloor THEN now + WakeFloor ELSE best
  BY DEF NextWakeup
<1> HIDE DEF deadline, Run
<1>5. best \in times
  <2>1. PICK b \in times : \A y \in times : b <= y
    <3> DEFINE above == {y - now : y \in times}
    <3>1. \A y \in times : y \in Int /\ y >= now
      BY <1>1, <1>2, <1>3
    <3>2. deadline \in times
      OBVIOUS
    <3> HIDE DEF times
    <3>3. above \subseteq Nat /\ above # {}
      BY <3>1, <3>2
    <3> HIDE DEF above
    <3>4. PICK a \in above : \A y \in above : a <= y
      BY <3>3, LeastNat
    <3>5. PICK b \in times : a = b - now
      BY <3>4 DEF above
    <3>6. \A y \in times : b - now <= y - now
      BY <3>4, <3>5 DEF above
    <3> QED BY <3>1, <3>6
  <2> HIDE DEF times
  <2> QED BY <2>1
<1> HIDE DEF best
<1>6. best = deadline \/ \E i \in 1..n : best = Run(i)
  BY <1>1, <1>5
<1>7. /\ best \in Int
      /\ \/ best = deadline
         \/ now < best /\ best <= now + Day /\ \E i \in 1..n : best % Day = m[i].slot
  BY <1>2, <1>3, <1>6
<1> QED BY <1>4, <1>7 DEF jobs, deadline
=============================================================================
