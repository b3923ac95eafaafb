-------------------------- MODULE SyncCycle_proofs --------------------------
(***************************************************************************)
(* Proofs about SyncCycle, for every schedule, period and build option.    *)
(***************************************************************************)
EXTENDS SyncCycle, SchedulerCore_proofs

Entry == [id : JobIds, slot : Slots \union {BadCron}]

\* The cloud serves only schedules whose cron lines are readable.
ReadableManifests == \A m \in Manifests : Readable(Len(m), m)

InPass == {"probe", "fetch", "primary", "tick", "repaint", "telemetry"}

\* The device's times are ordered: what it persists was read from a clock that never
\* ran ahead, and the sync's timestamps lie between its start and the clock.
Times ==
    /\ StartTime <= t /\ clock <= t /\ last_sync <= t
    /\ pc = "off" => t <= alarm
    /\ pc \in InPass => start <= now /\ now <= clock

\* The schedule in RAM is one the cloud served, its next_run computed at one time.
FromCloud ==
    /\ saved_sched \in Manifests \union {<<>>}
    /\ \E m \in Manifests \union {<<>>}, at \in Nat : jobs = WithNext(m, at)

\* A pass that has fetched computed next_run since its start, and has shown nothing
\* before it reaches tick.
Fetched ==
    /\ pc \in InPass \ {"telemetry"} => shown = NoJob
    /\ full /\ pc \in {"primary", "tick", "repaint", "telemetry"} =>
         \E m \in Manifests, at \in start..clock : jobs = WithNext(m, at)
    /\ pc \in {"probe", "fetch"} => ~full

Types ==
    /\ build \in Builds
    /\ t \in Nat /\ clock \in Nat /\ last_sync \in Nat
    /\ now \in Nat /\ start \in Nat /\ alarm \in Nat
    /\ pc \in Labels /\ full \in BOOLEAN /\ cloud \in Manifests

TimeInv == Types /\ FromCloud /\ Times

\* Manifests and the empty schedule are functions on 1..n.
LEMMA ScheduleShape ==
  ASSUME NEW m \in Manifests \union {<<>>}
  PROVE  Len(m) \in Nat /\ m \in [1..Len(m) -> Entry] /\ DOMAIN m = 1..Len(m)
<1>1. CASE m \in Manifests
  <2>1. m \in Seq(Entry)
    BY <1>1, CycleOK, Zenon DEF Entry
  <2> QED BY <2>1
<1>2. CASE m = <<>>
  BY <1>2
<1> QED BY <1>1, <1>2

LEMMA PollIsPositive == build \in Builds => Poll \in Nat \ {0}
  BY CycleOK DEF Build, Poll

\* Sleep always ends in the future, even with unreadable cron lines.
LEMMA NextWakeupBounds ==
  ASSUME NEW poll \in Nat, NEW n \in Nat, NEW m \in [1..n -> Entry], NEW at \in Int, NEW c \in Int
  PROVE  /\ NextWakeup(WithNext(m, at), c, poll) \in Int
         /\ NextWakeup(WithNext(m, at), c, poll) >= c + WakeFloor
<1> DEFINE j == WithNext(m, at)
           times == {c + (IF poll = 0 THEN DefaultPoll ELSE poll)}
                      \union {CronNextAfter(j[i].slot, c) : i \in DOMAIN j}
           best == CHOOSE b \in times : \A y \in times : b <= y
<1>1. DOMAIN j = 1..n /\ \A i \in 1..n : j[i].slot \in Slots \union {BadCron}
  BY DEF WithNext, Entry
<1> HIDE DEF j
<1>2. \A s \in Slots \union {BadCron} : CronNextAfter(s, c) \in Int /\ CronNextAfter(s, c) >= c
  <2>1. CronNextRun(BadCron, c) = c + BadCronDelay
    BY DEF CronNextRun
  <2>2. BadCronDelay \in Int /\ BadCronDelay >= 0 /\ Day \in Int /\ Day > 0
    BY CoreOK
  <2>3. CronNextAfter(BadCron, c) \in Int /\ CronNextAfter(BadCron, c) >= c
    BY <2>1, <2>2 DEF CronNextAfter
  <2>4. ASSUME NEW s \in Slots
        PROVE  CronNextAfter(s, c) \in Int /\ CronNextAfter(s, c) >= c
    <3>1. s # BadCron /\ s \in Int /\ s >= 0
      BY CoreOK DEF Slots
    <3>2. CronNextRun(s, c) = DayStart(c) + s
      BY <3>1 DEF CronNextRun
    <3>3. DayStart(c) \in Int /\ c < DayStart(c) + Day
      BY DayStartBounds
    <3> QED BY <2>2, <3>1, <3>2, <3>3 DEF CronNextAfter
  <2> QED BY <2>3, <2>4
<1>3. \A y \in times : y \in Int /\ y >= c
  BY <1>1, <1>2, CoreOK
<1>4. times # {}
  OBVIOUS
<1>5. NextWakeup(j, c, poll) = IF best < c + WakeFloor THEN c + WakeFloor ELSE best
  BY DEF NextWakeup
<1> HIDE DEF times
<1>6. PICK b \in times : \A y \in times : b <= y
  <2> DEFINE above == {y - c : y \in times}
  <2>1. above \subseteq Nat /\ above # {}
    BY <1>3, <1>4
  <2> HIDE DEF above
  <2>2. PICK a \in above : \A y \in above : a <= y
    BY <2>1, LeastNat
  <2>3. PICK b \in times : a = b - c
    BY <2>2 DEF above
  <2>4. \A y \in times : b - c <= y - c
    BY <2>2, <2>3 DEF above
  <2> QED BY <1>3, <2>4
<1>7. best \in times
  BY <1>6
<1> HIDE DEF best
<1>8. best \in Int /\ best >= c
  BY <1>3, <1>7
<1>9. NextWakeup(j, c, poll) \in Int /\ NextWakeup(j, c, poll) >= c + WakeFloor
  BY <1>5, <1>8, CoreOK
<1> QED BY <1>9 DEF j

\* The schedule file is empty and the clocks agree before the first boot.
LEMMA InitTimeInv == Init => TimeInv
<1> SUFFICES ASSUME Init PROVE TimeInv
    OBVIOUS
<1>1. Types
  BY CycleOK DEF Init, Types, Labels
<1>a. Times
  BY CycleOK DEF Init, Times, InPass
<1>2. <<>> = WithNext(<<>>, 0)
  BY DEF WithNext
<1>3. FromCloud
  BY <1>2 DEF Init, FromCloud
<1> QED BY <1>1, <1>a, <1>3 DEF TimeInv

\* The power comes back after the outage.
LEMMA OutageEnds ==
  ASSUME t \in Nat, \E d \in Outages : alarm' = t + d
  PROVE  alarm' \in Nat /\ t <= alarm'
  BY CycleOK

\* Each step keeps the types and the order of the times.
LEMMA StepTypes == TimeInv /\ [Next]_vars => Types' /\ Times'
<1> SUFFICES ASSUME TimeInv, [Next]_vars PROVE Types' /\ Times'
  OBVIOUS
<1>0. build' = build
  BY DEF Next, vars
<1> USE CycleOK, <1>0 DEF TimeInv, Types, Times, InPass, Labels, world, flash, history, pass
<1>1. CASE CloudChanges
  BY <1>1 DEF CloudChanges
<1>2. CASE Elapse
  BY <1>2 DEF Elapse
<1>3. CASE Wake
  <2>1. pc = "off" /\ t' = alarm /\ t <= alarm
    BY <1>3 DEF Wake
  <2>2. clock' \in Nat /\ clock' <= t'
    <3>1. clock' \in {0, clock + (alarm - t)}
      BY <1>3, Zenon DEF Wake
    <3> QED BY <2>1, <3>1
  <2>3. UNCHANGED <<cloud, last_sync, now, start, alarm, full>> /\ pc' \in {"wake_tick", "sync"}
    BY <1>3 DEF Wake
  <2> QED BY <2>1, <2>2, <2>3
<1>4. CASE WakeTick \/ WakeRepaint \/ SyncTick \/ SyncRepaint
  <2>1. UNCHANGED <<t, cloud, clock, last_sync, now, start, alarm, full>>
    BY <1>4 DEF WakeTick, WakeRepaint, SyncTick, SyncRepaint, Displaying
  <2>2. \/ pc' \in {"wake_repaint", "gate"}
        \/ pc \in {"tick", "repaint"} /\ pc' \in {"repaint", "telemetry"}
    BY <1>4, Zenon DEF WakeTick, WakeRepaint, SyncTick, SyncRepaint, Tick, Repaint, Show
  <2> QED BY <2>1, <2>2
<1>5. CASE Gate
  BY <1>5 DEF Gate
<1>6. CASE EnsureWallClock
  <2>1. clock' \in Nat /\ clock' <= t
    BY <1>6 DEF EnsureWallClock
  <2>2. /\ UNCHANGED <<t, cloud, last_sync, alarm>> /\ start' = clock' /\ now' = clock'
        /\ pc' \in {"probe", "fetch"}
    BY <1>6 DEF EnsureWallClock
  <2>3. full' \in BOOLEAN
    BY <1>6 DEF EnsureWallClock
  <2> QED BY <2>1, <2>2, <2>3
<1>7. CASE Probe
  BY <1>7 DEF Probe
<1>8. CASE Fetch
  <2>1. now' \in Nat /\ start <= now' /\ now' <= clock
    BY <1>8 DEF Fetch
  <2>2. UNCHANGED <<t, cloud, clock, last_sync, start, alarm>> /\ full' = TRUE /\ pc' = "primary"
    BY <1>8 DEF Fetch
  <2> QED BY <2>1, <2>2
<1>9. CASE FetchFails
  BY <1>9 DEF FetchFails
<1>10. CASE Primary
  BY <1>10 DEF Primary
<1>11. CASE Telemetry
  <2>1. last_sync' \in {now, last_sync} /\ pc' = "sleep"
    BY <1>11, Zenon DEF Telemetry
  <2>2. UNCHANGED <<t, cloud, clock, now, start, alarm, full>> /\ pc = "telemetry"
    BY <1>11 DEF Telemetry
  <2> QED BY <2>1, <2>2
<1>12. CASE Sleep
  <2>1. PICK m \in Manifests \union {<<>>}, at \in Nat : jobs = WithNext(m, at)
    BY DEF FromCloud
  <2>2. Len(m) \in Nat /\ m \in [1..Len(m) -> Entry]
    BY ScheduleShape
  <2>p. Poll \in Nat
    BY PollIsPositive
  <2> DEFINE w == NextWakeup(jobs, clock, Poll)
  <2>3. w \in Int /\ w >= clock + WakeFloor
    <3>1. clock \in Int /\ at \in Int
      OBVIOUS
    <3> HIDE DEF TimeInv, Types, Times
    <3>2. \A n \in Nat : m \in [1..n -> Entry] =>
             /\ NextWakeup(WithNext(m, at), clock, Poll) \in Int
             /\ NextWakeup(WithNext(m, at), clock, Poll) >= clock + WakeFloor
      BY <2>p, <3>1, NextWakeupBounds, Zenon
    <3> QED BY <2>1, <2>2, <3>2, Zenon
  <2> HIDE DEF w
  <2>4. Capped(w - clock) \in Nat
    BY <2>3, CoreOK DEF Capped
  <2>5. alarm' \in Nat /\ t <= alarm'
    BY <1>12, <2>4, <2>p DEF Sleep, w
  <2>6. /\ UNCHANGED <<t, cloud, clock, last_sync>> /\ pc' = "off"
        /\ now' = 0 /\ start' = 0 /\ full' = FALSE
    BY <1>12 DEF Sleep, PassEnds
  <2> QED BY <2>5, <2>6
<1>13. CASE UNCHANGED vars
  BY <1>13 DEF vars
<1>14. CASE FastPathFails
  BY <1>14 DEF FastPathFails
<1>15. CASE Restart
  <2>1. alarm' \in Nat /\ t <= alarm'
    BY <1>15, OutageEnds DEF Restart
  <2>2. /\ UNCHANGED <<t, cloud, last_sync>> /\ pc' = "off" /\ clock' = 0
        /\ now' = 0 /\ start' = 0 /\ full' = FALSE
    BY <1>15 DEF Restart, PassEnds
  <2>3. Times'
    BY <2>1, <2>2
  <2> QED BY <2>1, <2>2, <2>3
<1> QED
  BY <1>1, <1>2, <1>3, <1>4, <1>5, <1>6, <1>7, <1>8, <1>9, <1>10, <1>11, <1>12, <1>13, <1>14,
     <1>15
     DEF Next

\* Only a boot and a fetch change the schedule in RAM, and both take it whole.
LEMMA StepFromCloud == TimeInv /\ [Next]_vars => FromCloud'
<1> SUFFICES ASSUME TimeInv, [Next]_vars PROVE FromCloud'
  OBVIOUS
<1> USE DEF TimeInv, FromCloud
<1>1. CASE Wake
  <2>1. CASE DutyCycle \/ rebooting
    BY <1>1, <2>1, Zenon DEF Wake, flash
  <2>2. CASE ~(DutyCycle \/ rebooting)
    BY <1>1, <2>2, Zenon DEF Wake, flash
  <2> QED BY <2>1, <2>2
<1>2. CASE Fetch
  <2> DEFINE at == IF now' = 0 THEN clock ELSE now'
  <2>1. cloud \in Manifests /\ at \in Nat
    BY <1>2 DEF Fetch, Types
  <2>2. jobs' = WithNext(cloud, at) /\ saved_sched' \in {cloud, saved_sched}
    BY <1>2 DEF Fetch
  <2> QED BY <2>1, <2>2
<1>3. CASE UNCHANGED <<jobs, saved_sched>>
  BY <1>3
<1>5. CASE Restart
  <2>1. jobs' = <<>> /\ UNCHANGED saved_sched
    BY <1>5 DEF Restart, flash
  <2>2. <<>> = WithNext(<<>>, 0)
    BY DEF WithNext
  <2> QED BY <2>1, <2>2
<1>4. CASE ~Wake /\ ~Fetch /\ ~Restart
  <2>1. UNCHANGED <<jobs, saved_sched>>
    BY <1>4, Zenon DEF Next, vars, flash, CloudChanges, Elapse, WakeTick, WakeRepaint, Gate,
       EnsureWallClock, Probe, FetchFails, Primary, SyncTick, SyncRepaint, Telemetry,
       FastPathFails, Sleep, Displaying
  <2> QED BY <2>1, <1>3
<1> QED BY <1>1, <1>2, <1>4, <1>5

\* The device's clock and what it persists never run ahead of the true time, with
\* any schedule, poll interval and build option (ensure_wall_clock, set_next_wake).
THEOREM ClockIsNeverAhead == Spec => []ClockNeverAhead
<1>1. TimeInv /\ [Next]_vars => TimeInv'
  BY StepTypes, StepFromCloud DEF TimeInv
<1>2. TimeInv => ClockNeverAhead
  BY DEF TimeInv, Times, ClockNeverAhead
<1> QED BY InitTimeInv, <1>1, <1>2, PTL DEF Spec
-----------------------------------------------------------------------------
\* A schedule in RAM, as a function on 1..n.
LEMMA JobsShape ==
  ASSUME ReadableManifests, FromCloud
  PROVE  \E n \in Nat, at \in Nat, m \in Manifests \union {<<>>} :
            Readable(n, m) /\ jobs = WithNext(m, at) /\ DOMAIN jobs = 1..n
<1>1. PICK m \in Manifests \union {<<>>}, at \in Nat : jobs = WithNext(m, at)
  BY DEF FromCloud
<1>2. \E n \in Nat : Readable(n, m)
  <2>1. CASE m \in Manifests
    BY <2>1, ScheduleShape DEF ReadableManifests
  <2>2. CASE m = <<>>
    <3>1. Readable(0, <<>>)
      BY DEF Readable
    <3> QED BY <2>2, <3>1
  <2> QED BY <2>1, <2>2
<1>3. PICK n \in Nat : Readable(n, m)
  BY <1>2
<1>4. DOMAIN jobs = 1..n
  BY <1>1, <1>3 DEF WithNext, Readable
<1> QED BY <1>1, <1>3, <1>4

\* Going to sleep with a right clock programs an alarm that sleeps through no job's time.
LEMMA SleepCoversSlots ==
  ASSUME ReadableManifests, TimeInv, Sleep, build' = build
  PROVE  NoSlotSleptThrough'
<1> SUFFICES ASSUME DutyCycle, clock = t, NEW i \in DOMAIN jobs,
                    NEW x, x \in (t + WakeFloor + 1)..(alarm' - 1)
             PROVE  x % Day # jobs[i].slot
  BY Zenon DEF Sleep, NoSlotSleptThrough, world, flash, DutyCycle
<1>0. ClockOK(clock)
  BY CycleOK DEF TimeInv, Times, Types, ClockOK
<1>1. PICK n \in Nat, at \in Nat, m \in Manifests \union {<<>>} :
             Readable(n, m) /\ jobs = WithNext(m, at) /\ DOMAIN jobs = 1..n
  BY JobsShape, Zenon DEF TimeInv
<1>2. clock \in Int /\ t \in Int /\ Poll \in Nat /\ at \in Int
  BY PollIsPositive DEF TimeInv, Types
<1> DEFINE w == NextWakeup(jobs, clock, Poll)
<1>3. /\ w \in Int
      /\ \A k \in 1..n : \A y \in (clock + WakeFloor + 1)..(w - 1) : y % Day # m[k].slot
  <2>1. LET wake == NextWakeup(WithNext(m, at), clock, Poll)
        IN  /\ wake \in Int /\ wake >= clock + WakeFloor
            /\ \A k \in 1..n : \A y \in (clock + WakeFloor + 1)..(wake - 1) : y % Day # m[k].slot
    BY <1>1, <1>2, WakesForEverySlot, Zenon
  <2> QED BY <1>1, <2>1, Zenon
<1>4. alarm' = t + Capped(w - clock)
  BY <1>0 DEF Sleep
<1> HIDE DEF w
<1>5. alarm' - t <= w - clock /\ alarm' \in Int
  BY <1>2, <1>3, <1>4, CoreOK DEF Capped
<1>6. x \in (clock + WakeFloor + 1)..(w - 1)
  <2> DEFINE a == alarm'
  <2>1. WakeFloor \in Int /\ a \in Int /\ a - t <= w - clock
    BY <1>5, CoreOK
  <2>2. x \in (t + WakeFloor + 1)..(a - 1)
    OBVIOUS
  <2> HIDE DEF a
  <2> QED BY <1>2, <1>3, <2>1, <2>2
<1>7. jobs[i].slot = m[i].slot /\ i \in 1..n
  BY <1>1 DEF WithNext, Readable
<1> QED BY <1>3, <1>6, <1>7

\* While its clock is right a duty-cycled device programs an alarm that sleeps through no
\* job's time, for every readable schedule and poll interval (eink_scheduler_next_wakeup,
\* set_next_wake, eink_power_enter_snvs).
THEOREM NoSlotIsSleptThrough ==
  ASSUME ReadableManifests
  PROVE  Spec => []NoSlotSleptThrough
<1>1. Init => NoSlotSleptThrough
  BY DEF Init, NoSlotSleptThrough
<1>2. TimeInv /\ NoSlotSleptThrough /\ [Next]_vars => NoSlotSleptThrough'
  <2> SUFFICES ASSUME TimeInv, NoSlotSleptThrough, [Next]_vars PROVE NoSlotSleptThrough'
    OBVIOUS
  <2>0. build' = build
    BY DEF Next, vars
  <2>1. CASE Sleep
    BY <2>0, <2>1, SleepCoversSlots
  <2>2. CASE CloudChanges \/ UNCHANGED vars
    <3>1. UNCHANGED <<build, t, clock, jobs, pc, alarm, rebooting>>
      BY <2>0, <2>2 DEF CloudChanges, vars, world, boot
    <3> QED BY <3>1, Zenon DEF DutyCycle, NoSlotSleptThrough
  <2>5. CASE Restart
    BY <2>5 DEF Restart, NoSlotSleptThrough
  <2>3. CASE pc' # "off"
    BY <2>3 DEF NoSlotSleptThrough
  <2>4. CASE ~Sleep /\ ~Restart /\ ~CloudChanges /\ ~UNCHANGED vars
    <3>1. pc' # "off"
      BY <2>4, Zenon DEF Next, Elapse, Wake, WakeTick, WakeRepaint, Gate, EnsureWallClock, Probe,
         Fetch, FetchFails, Primary, SyncTick, SyncRepaint, Telemetry, FastPathFails, Tick,
         Repaint, Show
    <3> QED BY <2>3, <3>1
  <2> QED BY <2>1, <2>2, <2>4, <2>5
<1>3. TimeInv /\ [Next]_vars => TimeInv'
  BY StepTypes, StepFromCloud DEF TimeInv
<1> QED BY <1>1, <1>2, <1>3, InitTimeInv, PTL DEF Spec
-----------------------------------------------------------------------------
\* A schedule that is not empty has a current job at any time.
LEMMA CurrentExists ==
  ASSUME NEW n \in Nat \ {0}, NEW m, Readable(n, m), NEW at \in Int, NEW x \in Int
  PROVE  CurrentIndex(WithNext(m, at), x) \in 1..n
<1> DEFINE j == WithNext(m, at)
           occ == [k \in DOMAIN j |-> Occurrence(j[k].slot, x)]
<1>1. DOMAIN j = 1..n /\ \A k \in 1..n : j[k].slot \in Slots
  BY DEF WithNext, Readable
<1> HIDE DEF j
<1>2. ASSUME NEW s \in Slots
      PROVE  Occurrence(s, x) \in Int /\ Occurrence(s, x) <= x
  <2>1. s # BadCron /\ s \in Int /\ s < Day
    BY CoreOK DEF Slots
  <2>2. CronNextRun(s, x) = DayStart(x) + s
    BY <2>1 DEF CronNextRun
  <2>3. DayStart(x) \in Int /\ DayStart(x) <= x
    BY DayStartBounds
  <2> QED BY <2>1, <2>2, <2>3, CoreOK DEF Occurrence
<1>3. \A k \in 1..n : occ[k] \in Int /\ occ[k] <= x
  BY <1>1, <1>2
<1>4. {k \in DOMAIN j : occ[k] <= x} = 1..n /\ 1..n # {}
  BY <1>1, <1>3
<1>5. CurrentIndex(j, x) = LatestIndex(1..n, occ)
  BY <1>4 DEF CurrentIndex
<1> HIDE DEF occ
<1>6. LatestIndex(1..n, occ) \in 1..n
  BY <1>3, <1>4, LatestIndexIsLatest
<1> QED BY <1>5, <1>6 DEF j

\* What a painting step of a full pass shows is current between start and clock.
ShowsCurrent(job) ==
    \E x \in start..clock : LET i == CurrentIndex(jobs, x) IN i # 0 /\ jobs[i].id = job

LEMMA TickShowsCurrent ==
  ASSUME ReadableManifests, TimeInv, Fetched, full, SyncTick
  PROVE  shown' # NoJob => ShowsCurrent(shown')
<1> DEFINE i == Decide(jobs, clock, last_job)
<1>1. pc = "tick" /\ shown = NoJob
  BY DEF SyncTick, Fetched, InPass
<1>2. PICK m \in Manifests, at \in start..clock : jobs = WithNext(m, at)
  BY <1>1 DEF Fetched
<1>3. Readable(Len(m), m) /\ Len(m) \in Nat
  BY ScheduleShape DEF ReadableManifests
<1>4. at \in Int /\ clock \in Int /\ start \in Int /\ start <= at /\ at <= clock
  BY <1>1 DEF TimeInv, Types, Times, InPass
<1>5. shown' # NoJob => i # 0 /\ shown' = jobs[i].id
  BY <1>1, Zenon DEF SyncTick, Tick, Show, ShowNothing
<1>6. ASSUME i # 0 PROVE \E x \in at..clock : CurrentIndex(jobs, x) = i
  BY <1>2, <1>3, <1>4, <1>6, DueJobWasCurrent
<1> HIDE DEF i
<1>7. \A x \in at..clock : x \in start..clock
  BY <1>4
<1> QED BY <1>5, <1>6, <1>7, Zenon DEF ShowsCurrent

LEMMA RepaintShowsCurrent ==
  ASSUME ReadableManifests, TimeInv, Fetched, ClockOK(start), SyncRepaint
  PROVE  shown' # NoJob => ShowsCurrent(shown')
<1> DEFINE i == CurrentIndex(jobs, clock)
<1>1. pc = "repaint" /\ shown = NoJob
  BY DEF SyncRepaint, Fetched, InPass
<1>2. clock \in Int /\ start \in Int /\ start <= clock /\ ClockOK(clock)
  BY <1>1, CycleOK DEF TimeInv, Types, Times, InPass, ClockOK
<1>3. ASSUME DOMAIN jobs # {} PROVE i # 0
  <2>1. PICK n \in Nat, at \in Nat, m \in Manifests \union {<<>>} :
               Readable(n, m) /\ jobs = WithNext(m, at) /\ DOMAIN jobs = 1..n
    BY JobsShape, Zenon DEF TimeInv
  <2>2. n # 0 /\ at \in Int
    BY <1>3, <2>1
  <2>3. i \in 1..n
    BY <1>2, <2>1, <2>2, CurrentExists
  <2> QED BY <2>3
<1> HIDE DEF i
<1>4. shown' # NoJob => i # 0 /\ shown' = jobs[i].id
  <2>1. \/ i # 0 /\ Show(jobs[i].id, jobs[i].id # last_job, "telemetry")
        \/ i = 0 /\ \E k \in DOMAIN jobs : jobs[k].id = last_job
        \/ ShowNothing
    BY <1>2, Zenon DEF SyncRepaint, Repaint, i
  <2> QED BY <1>1, <1>3, <2>1, Zenon DEF Show, ShowNothing
<1>5. clock \in start..clock
  BY <1>2
<1> QED BY <1>4, <1>5, Zenon DEF ShowsCurrent, i

\* A pass that fetches keeps what Fetched says.
LEMMA StepFetched == TimeInv /\ Fetched /\ [Next]_vars => Fetched'
<1> SUFFICES ASSUME TimeInv, Fetched, [Next]_vars PROVE Fetched'
  OBVIOUS
<1> USE DEF Fetched, InPass
<1>1. CASE \/ CloudChanges \/ FetchFails \/ Gate \/ Telemetry \/ FastPathFails
        \/ UNCHANGED vars
  BY <1>1, SMT DEF CloudChanges, FetchFails, Gate, Telemetry, FastPathFails, vars, world, flash, history, pass
<1>2. CASE Wake
  <2>1. pc' \in {"wake_tick", "sync"}
    BY <1>2 DEF Wake
  <2> QED BY <2>1
<1>10. CASE Restart \/ Sleep
  BY <1>10 DEF Restart, Sleep
<1>3. CASE WakeTick \/ WakeRepaint
  <2>1. pc' \in {"wake_repaint", "gate"}
    BY <1>3, Zenon DEF WakeTick, WakeRepaint, Tick, Repaint, Show
  <2> QED BY <2>1
<1>4. CASE EnsureWallClock
  <2>1. pc' \in {"probe", "fetch"} /\ shown' = NoJob /\ ~full'
    BY <1>4 DEF EnsureWallClock
  <2> QED BY <2>1
<1>5. CASE Probe
  <2>1. pc = "probe" /\ pc' \in {"tick", "fetch"} /\ UNCHANGED <<shown, full>>
    BY <1>5 DEF Probe, history, pass
  <2> QED BY <2>1
<1>6. CASE Fetch
  <2> DEFINE at == IF now' = 0 THEN clock ELSE now'
  <2>1. pc = "fetch" /\ pc' = "primary" /\ UNCHANGED <<shown, start, clock>>
        /\ jobs' = WithNext(cloud, at)
    BY <1>6 DEF Fetch
  <2>2. cloud \in Manifests /\ at \in start..clock
    BY <1>6, <2>1 DEF Fetch, TimeInv, Types, Times
  <2> QED BY <2>1, <2>2
<1>7. CASE Primary
  <2>1. pc = "primary" /\ pc' = "tick" /\ UNCHANGED <<shown, full, jobs, start, clock>>
    BY <1>7 DEF Primary, history, pass
  <2> QED BY <2>1
<1>8. CASE SyncTick \/ SyncRepaint
  <2>1. UNCHANGED <<full, jobs, start, clock>>
    BY <1>8 DEF SyncTick, SyncRepaint, Displaying
  <2>2. pc \in {"tick", "repaint"} /\ pc' \in {"repaint", "telemetry"}
    BY <1>8, Zenon DEF SyncTick, SyncRepaint, Tick, Repaint, Show
  <2>3. pc' = "repaint" => UNCHANGED shown
    BY <1>8, Zenon DEF SyncTick, SyncRepaint, Tick, Repaint, Show, ShowNothing
  <2> QED BY <2>1, <2>2, <2>3
<1>9. CASE Elapse
  <2>1. UNCHANGED <<pc, start, jobs, full, shown>> /\ clock' = clock + 1
    BY <1>9 DEF Elapse, history, pass
  <2>2. \A x \in start..clock : x \in start..(clock + 1)
    BY DEF TimeInv, Types
  <2> QED BY <2>1, <2>2, Zenon
<1> QED BY <1>1, <1>2, <1>3, <1>4, <1>5, <1>6, <1>7, <1>8, <1>9, <1>10 DEF Next

\* For every readable schedule, what a pass that fetched its schedule shows was the
\* current job at some moment of the pass (eink_scheduler_tick and _repaint agree).
THEOREM FullPassIsCurrent ==
  ASSUME ReadableManifests
  PROVE  Spec => []FullPassShowsCurrent
<1> DEFINE Inv == TimeInv /\ Fetched /\ FullPassShowsCurrent
<1>1. Init => Inv
  <2>1. Init => Fetched /\ FullPassShowsCurrent
    BY DEF Init, Fetched, FullPassShowsCurrent, InPass
  <2> QED BY <2>1, InitTimeInv
<1>2. Inv /\ [Next]_vars => Inv'
  <2> SUFFICES ASSUME Inv, [Next]_vars PROVE FullPassShowsCurrent'
    BY StepTypes, StepFromCloud, StepFetched DEF TimeInv
  <2>1. CASE pc' # "telemetry"
    BY <2>1 DEF FullPassShowsCurrent, ShownWasCurrent
  <2>2. CASE SyncTick
    <3>1. UNCHANGED <<start, clock, jobs, full>>
      BY <2>2 DEF SyncTick, Displaying
    <3>2. full /\ shown' # NoJob => ShowsCurrent(shown')
      BY <2>2, TickShowsCurrent
    <3> QED BY <3>1, <3>2, Zenon DEF FullPassShowsCurrent, ShownWasCurrent, ShowsCurrent
  <2>3. CASE SyncRepaint
    <3>1. UNCHANGED <<start, clock, jobs, full>>
      BY <2>3 DEF SyncRepaint, Displaying
    <3>2. ClockOK(start) /\ shown' # NoJob => ShowsCurrent(shown')
      BY <2>3, RepaintShowsCurrent
    <3> QED BY <3>1, <3>2, Zenon DEF FullPassShowsCurrent, ShownWasCurrent, ShowsCurrent
  <2>4. CASE Elapse
    <3>1. UNCHANGED <<pc, start, jobs, full, shown>> /\ clock' = clock + 1
      BY <2>4 DEF Elapse, history, pass
    <3>2. \A x \in start..clock : x \in start..(clock + 1)
      BY DEF TimeInv, Types
    <3> QED BY <3>1, <3>2, Zenon DEF FullPassShowsCurrent, ShownWasCurrent
  <2>5. CASE CloudChanges \/ UNCHANGED vars
    BY <2>5, Zenon DEF CloudChanges, vars, history, pass, FullPassShowsCurrent, ShownWasCurrent
  <2>6. CASE ~SyncTick /\ ~SyncRepaint /\ ~Elapse /\ ~CloudChanges /\ ~UNCHANGED vars
    <3>1. pc' # "telemetry"
      BY <2>6, Zenon DEF Next, Restart, Wake, WakeTick, WakeRepaint, Gate, EnsureWallClock, Probe,
         Fetch, FetchFails, Primary, Telemetry, FastPathFails, Sleep, Tick, Repaint, Show
    <3> QED BY <2>1, <3>1
  <2> QED BY <2>2, <2>3, <2>4, <2>5, <2>6
<1> QED BY <1>1, <1>2, PTL DEF Spec
-----------------------------------------------------------------------------
\* How last_sync relates to the clock and to the true time.  An unset clock counts the
\* time since the boot, which ends before Epoch; a set one is not behind last_sync, and
\* by it the sync is no younger than it is or than the setting.
Ages ==
    /\ awake \in 0..MaxAwake /\ synced_at \in Int /\ set_at \in Int
    /\ pc # "off" => t <= Horizon + awake
    /\ ~ClockOK(clock) => clock <= t - StartTime
    /\ ClockOK(clock) /\ ClockOK(last_sync) => last_sync <= clock
    /\ ClockOK(clock) /\ last_sync > 0 =>
         t - synced_at <= clock - last_sync \/ t - set_at <= clock - last_sync
    /\ pc \in InPass /\ ClockOK(last_sync) => last_sync <= now

\* Before Horizon an unset clock does not reach Epoch by itself.
LEMMA UnsetStays ==
  ASSUME TimeInv, Ages, ~ClockOK(clock), NEW d \in Nat, t + d <= Horizon + MaxAwake
  PROVE  ~ClockOK(clock + d) /\ clock + d <= t + d - StartTime
  BY CycleOK DEF TimeInv, Types, Ages, ClockOK

\* Only a boot takes the clock back, and then it is unset until last_sync sets it.
LEMMA StepAges == TimeInv /\ Ages /\ [Next]_vars => Ages'
<1> SUFFICES ASSUME TimeInv, Ages, [Next]_vars PROVE Ages'
    OBVIOUS
<1>t. /\ t \in Nat /\ clock \in Nat /\ last_sync \in Nat /\ now \in Nat /\ alarm \in Nat
      /\ StartTime <= t /\ clock <= t
      /\ StartTime \in Nat /\ Epoch \in Nat /\ Epoch > 0 /\ MaxAwake \in Nat /\ Horizon \in Nat
  BY CycleOK DEF TimeInv, Types, Times
<1>1. CASE Elapse
  <2>1. /\ UNCHANGED <<last_sync, synced_at, set_at, now, pc>> /\ t' = t + 1 /\ clock' = clock + 1
        /\ awake' = awake + 1 /\ awake < MaxAwake /\ pc # "off"
    BY <1>1 DEF Elapse, flash, history, pass
  <2>2. ~ClockOK(clock) => ~ClockOK(clock') /\ clock' <= t' - StartTime
    BY <1>t, <2>1, UnsetStays DEF Ages
  <2>3. awake' \in 0..MaxAwake /\ t' <= Horizon + awake'
    BY <1>t, <2>1 DEF Ages
  <2>4. ClockOK(clock) => ClockOK(clock')
    BY <1>t, <2>1 DEF ClockOK
  <2> QED BY <1>t, <2>1, <2>2, <2>3, <2>4 DEF Ages
<1>2. CASE Wake
  <2>1. /\ UNCHANGED <<last_sync, synced_at, set_at, awake>> /\ t' = alarm
        /\ pc = "off" /\ pc' \in {"wake_tick", "sync"} /\ t <= alarm /\ alarm <= Horizon
    BY <1>2 DEF Wake, flash, history, pass, TimeInv, Times
  <2>2. CASE DutyCycle \/ rebooting
    <3>1. clock' = 0
      BY <1>2, <2>2, Zenon DEF Wake
    <3> QED BY <1>t, <2>1, <3>1 DEF Ages, InPass, ClockOK
  <2>3. CASE ~(DutyCycle \/ rebooting)
    <3>1. clock' = clock + (alarm - t)
      BY <1>2, <2>3, Zenon DEF Wake
    <3>2. ~ClockOK(clock) => ~ClockOK(clock') /\ clock' <= t' - StartTime
      <4>1. alarm - t \in Nat /\ t + (alarm - t) = alarm /\ alarm <= Horizon + MaxAwake
        BY <1>t, <2>1
      <4>2. ~ClockOK(clock) => ~ClockOK(clock + (alarm - t))
                                /\ clock + (alarm - t) <= t + (alarm - t) - StartTime
        BY <4>1, UnsetStays
      <4> QED BY <1>t, <2>1, <3>1, <4>1, <4>2 DEF ClockOK
    <3>3. ClockOK(clock) => ClockOK(clock')
      BY <1>t, <2>1, <3>1 DEF ClockOK
    <3> QED BY <1>t, <2>1, <3>1, <3>2, <3>3 DEF Ages, InPass
  <2> QED BY <2>2, <2>3
<1>3. CASE EnsureWallClock
  <2>1. /\ UNCHANGED <<t, last_sync, synced_at, awake>> /\ now' = clock' /\ pc = "sync"
        /\ pc' \in {"probe", "fetch"}
        /\ set_at' = IF clock' = clock THEN set_at ELSE t
        /\ \/ ClockOK(clock) /\ clock' = clock
           \/ ~ClockOK(clock) /\ ClockOK(last_sync) /\ clock' = last_sync
           \/ ~ClockOK(clock) /\ ~ClockOK(last_sync) /\ clock' \in {clock, t}
    BY <1>3 DEF EnsureWallClock, world, flash
  <2>2. last_sync <= t
    BY DEF TimeInv, Times
  <2>3. CASE ClockOK(clock) /\ clock' = clock
    BY <1>t, <2>1, <2>3 DEF Ages
  <2>4. CASE ~ClockOK(clock) /\ ClockOK(last_sync) /\ clock' = last_sync
    <3>1. set_at' = t
      BY <2>1, <2>4
    <3> QED BY <1>t, <2>1, <2>4, <3>1 DEF Ages
  <2>5. CASE ~ClockOK(clock) /\ ~ClockOK(last_sync) /\ clock' = clock
    BY <1>t, <2>1, <2>5 DEF Ages
  <2>6. CASE ~ClockOK(clock) /\ ~ClockOK(last_sync) /\ clock' # clock
    <3>1. set_at' = t /\ clock' = t
      BY <2>1, <2>6
    <3>2. ClockOK(clock') /\ last_sync' <= clock' /\ t' - set_at' <= clock' - last_sync'
      BY <1>t, <2>1, <2>2, <3>1, CycleOK DEF ClockOK
    <3> QED BY <1>t, <2>1, <2>6, <3>1, <3>2 DEF Ages
  <2> QED BY <2>1, <2>3, <2>4, <2>5, <2>6
<1>4. CASE Telemetry
  <2>1. /\ UNCHANGED <<t, clock, set_at, awake>> /\ now <= clock /\ pc' = "sleep" /\ pc = "telemetry"
        /\ \/ last_sync' = now /\ synced_at' = t - (clock - now)
           \/ UNCHANGED <<last_sync, synced_at>>
    BY <1>4, Zenon DEF Telemetry, TimeInv, Times, InPass, world
  <2> QED BY <1>t, <2>1 DEF Ages, InPass, ClockOK
<1>5. CASE Restart
  <2>1. /\ UNCHANGED <<t, last_sync, synced_at, set_at>> /\ clock' = 0 /\ pc' = "off"
        /\ awake' = 0
    BY <1>5 DEF Restart, PassEnds, world, flash
  <2> QED BY <1>t, <2>1 DEF Ages, InPass, ClockOK
<1>6. CASE Sleep
  <2>1. /\ UNCHANGED <<t, clock, last_sync, synced_at, set_at>> /\ pc' = "off" /\ awake' = 0
    BY <1>6 DEF Sleep, PassEnds, world, flash
  <2> QED BY <1>t, <2>1 DEF Ages, InPass
<1>7. CASE Fetch
  <2>1. /\ UNCHANGED <<t, clock, last_sync, synced_at, set_at, awake>> /\ now' \in {now, clock}
        /\ pc = "fetch"
    BY <1>7 DEF Fetch, world
  <2>2. now <= clock /\ pc \in InPass
    BY <2>1 DEF TimeInv, Times, InPass
  <2> QED BY <1>t, <2>1, <2>2 DEF Ages
<1>8. CASE \/ CloudChanges \/ WakeTick \/ WakeRepaint \/ Gate \/ Probe \/ FetchFails \/ Primary
           \/ SyncTick \/ SyncRepaint \/ FastPathFails \/ UNCHANGED vars
  <2>1. UNCHANGED <<t, clock, last_sync, synced_at, set_at, awake, now>>
    BY <1>8, Zenon DEF vars, world, flash, history, pass, CloudChanges, WakeTick, WakeRepaint,
       Gate, Probe, FetchFails, Primary, SyncTick, SyncRepaint, FastPathFails, Displaying
  <2>2. pc' # "off" => pc # "off"
    BY <1>8, Zenon DEF vars, CloudChanges, WakeTick, WakeRepaint, Gate, Probe, FetchFails,
       Primary, SyncTick, SyncRepaint, FastPathFails
  <2>3. pc' \in InPass => pc \in InPass
    <3>1. CASE WakeTick \/ WakeRepaint
      <4>1. pc' \in {"wake_repaint", "gate"}
        BY <3>1, Zenon DEF WakeTick, WakeRepaint, Tick, Repaint, Show
      <4> QED BY <4>1 DEF InPass
    <3>2. CASE Gate \/ FetchFails
      <4>1. pc' \in {"sleep", "sync"}
        BY <3>2 DEF Gate, FetchFails
      <4> QED BY <4>1 DEF InPass
    <3>3. CASE Probe \/ Primary \/ SyncTick \/ SyncRepaint \/ FastPathFails
      BY <3>3 DEF Probe, Primary, SyncTick, SyncRepaint, FastPathFails, InPass
    <3>4. CASE CloudChanges \/ UNCHANGED vars
      BY <3>4 DEF CloudChanges, vars
    <3> QED BY <1>8, <3>1, <3>2, <3>3, <3>4
  <2> QED BY <1>t, <2>1, <2>2, <2>3 DEF Ages
<1> QED BY <1>1, <1>2, <1>3, <1>4, <1>5, <1>6, <1>7, <1>8 DEF Next

\* Ages holds throughout, restarts at any time included.
LEMMA AgesAlways == Spec => [](TimeInv /\ Ages)
<1>1. Init => TimeInv /\ Ages
  BY InitTimeInv, CycleOK DEF Init, Ages, InPass, ClockOK
<1>2. TimeInv /\ Ages /\ [Next]_vars => (TimeInv /\ Ages)'
  BY StepTypes, StepFromCloud, StepAges DEF TimeInv
<1> QED BY <1>1, <1>2, PTL DEF Spec

\* For any schedules, intervals, ages, builds and outages, the fast path is taken only
\* within the maximum age of the sync it relies on or of the last setting of the clock
\* (sync_is_fresh, ensure_wall_clock).
THEOREM FastPathFreshAwake == Spec => FastPathIsFreshAwake
<1>1. TimeInv /\ Ages /\ [Next]_vars =>
        [pc = "probe" /\ pc' = "tick" => t - synced_at < MaxAge \/ t - set_at < MaxAge]_vars
  <2> SUFFICES ASSUME TimeInv, Ages, [Next]_vars, pc = "probe", pc' = "tick"
               PROVE  t - synced_at < MaxAge \/ t - set_at < MaxAge
    OBVIOUS
  <2>1. CASE Probe
    <3>1. ClockOK(clock) /\ last_sync > 0 /\ clock - last_sync < MaxAge
      BY <2>1 DEF Probe, SyncIsFresh
    <3> QED BY <3>1, CycleOK DEF Ages, TimeInv, Types
  <2>2. CASE ~Probe
    BY <2>2, Zenon DEF Next, vars, CloudChanges, Elapse, Restart, Wake, WakeTick, WakeRepaint,
       Gate, EnsureWallClock, Fetch, FetchFails, Primary, SyncTick, SyncRepaint, Telemetry,
       FastPathFails, Sleep
  <2> QED BY <2>1, <2>2
<1> QED BY <1>1, AgesAlways, PTL DEF Spec, FastPathIsFreshAwake

\* A stored time of day never goes back, for any schedules, builds, outages and failures
\* of SNTP (ensure_wall_clock, eink_store_save_last_sync).
THEOREM LastSyncStays == Spec => LastSyncNeverGoesBack
<1>1. TimeInv /\ Ages /\ [Next]_vars => [ClockOK(last_sync) => last_sync' >= last_sync]_vars
  <2> SUFFICES ASSUME TimeInv, Ages, [Next]_vars, ClockOK(last_sync)
               PROVE  last_sync' >= last_sync
    OBVIOUS
  <2>1. CASE Telemetry
    <3>1. pc = "telemetry" /\ last_sync' \in {now, last_sync}
      BY <2>1, Zenon DEF Telemetry
    <3> QED BY <3>1 DEF Ages, InPass, TimeInv, Types
  <2>2. CASE ~Telemetry
    <3>1. UNCHANGED last_sync
      BY <2>2, Zenon DEF Next, vars, flash, CloudChanges, Elapse, Restart, Wake, WakeTick,
         WakeRepaint, Gate, EnsureWallClock, Probe, Fetch, FetchFails, Primary, SyncTick,
         SyncRepaint, FastPathFails, Sleep, Displaying
    <3> QED BY <3>1 DEF TimeInv, Types
  <2> QED BY <2>1, <2>2
<1> QED BY <1>1, AgesAlways, PTL DEF Spec, LastSyncNeverGoesBack
-----------------------------------------------------------------------------
\* A cron line runs at an integer time, and its latest occurrence is not in the future.
LEMMA OccurrenceBounds ==
  ASSUME NEW s \in Slots \union {BadCron}, NEW c \in Int
  PROVE  CronNextRun(s, c) \in Int /\ Occurrence(s, c) \in Int
<1>1. CronNextRun(s, c) \in Int
  BY CoreOK, DayStartBounds DEF CronNextRun, Slots
<1> QED BY <1>1, CoreOK DEF Occurrence

\* The schedule in RAM is a sequence of jobs, and what tick and repaint choose is in it.
LEMMA ChosenJobs ==
  ASSUME FromCloud, NEW c \in Int, NEW last
  PROVE  /\ jobs \in Seq(Job) /\ \A k \in DOMAIN jobs : jobs[k].id \in JobIds
         /\ Decide(jobs, c, last) # 0 => Decide(jobs, c, last) \in DOMAIN jobs
         /\ CurrentIndex(jobs, c) # 0 => CurrentIndex(jobs, c) \in DOMAIN jobs
<1>1. PICK m \in Manifests \union {<<>>}, at \in Nat : jobs = WithNext(m, at)
  BY DEF FromCloud
<1> DEFINE n == Len(m)
<1>2. n \in Nat /\ m \in [1..n -> Entry] /\ DOMAIN m = 1..n
  BY ScheduleShape
<1>3. jobs \in [1..n -> Job]
  <2> DEFINE job(k) == [id |-> m[k].id, slot |-> m[k].slot, next |-> CronNextRun(m[k].slot, at)]
  <2>1. jobs = [k \in 1..n |-> job(k)]
    BY <1>1, <1>2 DEF WithNext
  <2>2. ASSUME NEW k \in 1..n PROVE job(k) \in Job
    <3>1. m[k] \in Entry
      BY <1>2
    <3>2. m[k].id \in JobIds /\ m[k].slot \in Slots \union {BadCron}
      BY <3>1 DEF Entry
    <3>3. CronNextRun(m[k].slot, at) \in Int
      <4>1. at \in Int
        OBVIOUS
      <4> QED BY <3>2, <4>1, OccurrenceBounds, Zenon
    <3> QED BY <3>2, <3>3 DEF Job
  <2> HIDE DEF job
  <2> QED BY <2>1, <2>2
<1> HIDE DEF n
<1>4. /\ DOMAIN jobs = 1..n
      /\ \A k \in 1..n : jobs[k].id \in JobIds /\ jobs[k].next \in Int
                         /\ jobs[k].slot \in Slots \union {BadCron}
  BY <1>3 DEF Job
<1>5. Decide(jobs, c, last) # 0 => Decide(jobs, c, last) \in DOMAIN jobs
  <2> DEFINE cand == {k \in DOMAIN jobs : jobs[k].next <= c}
             time == [k \in DOMAIN jobs |-> jobs[k].next]
  <2>1. cand \subseteq 1..n /\ \A k \in cand : time[k] \in Int /\ time[k] <= c
    BY <1>4
  <2>2. Decide(jobs, c, last) \in {0, LatestIndex(cand, time)}
    BY DEF Decide
  <2> HIDE DEF cand, time
  <2>3. LatestIndex(cand, time) # 0 => LatestIndex(cand, time) \in 1..n
    <3>1. CASE cand = {}
      BY <3>1 DEF LatestIndex
    <3>2. CASE cand # {}
      BY <1>2, <2>1, <3>2, LatestIndexIsLatest DEF n
    <3> QED BY <3>1, <3>2
  <2> QED BY <1>4, <2>2, <2>3
<1>6. CurrentIndex(jobs, c) # 0 => CurrentIndex(jobs, c) \in DOMAIN jobs
  <2> DEFINE time == [k \in DOMAIN jobs |-> Occurrence(jobs[k].slot, c)]
             cand == {k \in DOMAIN jobs : time[k] <= c}
  <2>1. \A k \in DOMAIN jobs : time[k] \in Int
    BY <1>4, OccurrenceBounds
  <2>2. cand \subseteq 1..n /\ \A k \in cand : time[k] \in Int /\ time[k] <= c
    BY <1>4, <2>1
  <2>3. CurrentIndex(jobs, c) = LatestIndex(cand, time)
    BY DEF CurrentIndex
  <2> HIDE DEF cand, time
  <2>4. LatestIndex(cand, time) # 0 => LatestIndex(cand, time) \in 1..n
    <3>1. CASE cand = {}
      BY <3>1 DEF LatestIndex
    <3>2. CASE cand # {}
      BY <1>2, <2>2, <3>2, LatestIndexIsLatest DEF n
    <3> QED BY <3>1, <3>2
  <2> QED BY <1>4, <2>3, <2>4
<1>7. jobs \in Seq(Job)
  BY <1>2, <1>3 DEF n
<1> QED BY <1>4, <1>5, <1>6, <1>7

\* The types of the remaining variables.
Others ==
    /\ changes \in Nat /\ images \subseteq JobIds /\ awake \in 0..MaxAwake
    /\ last_job \in JobIds \union {NoJob} /\ saved_job \in JobIds \union {NoJob}
    /\ shown \in JobIds \union {NoJob} /\ synced_at \in Nat /\ set_at \in Nat
    /\ rebooting \in BOOLEAN /\ restarts \in 0..MaxRestarts

\* Whatever is shown is a job of the schedule, or the last one.
LEMMA StepOthers == TimeInv /\ Others /\ [Next]_vars => Others'
<1> SUFFICES ASSUME TimeInv, Others, [Next]_vars PROVE Others'
    OBVIOUS
<1> USE DEF Others, boot
<1>t. clock \in Nat /\ t \in Nat /\ now \in Nat /\ clock <= t
  BY DEF TimeInv, Types, Times
<1>j. /\ \A k \in DOMAIN jobs : jobs[k].id \in JobIds
      /\ \A last : Decide(jobs, clock, last) # 0 => Decide(jobs, clock, last) \in DOMAIN jobs
      /\ CurrentIndex(jobs, clock) # 0 => CurrentIndex(jobs, clock) \in DOMAIN jobs
  BY <1>t, ChosenJobs DEF TimeInv
<1>s. ASSUME NEW j \in JobIds \union {NoJob}, NEW advance, NEW then, Show(j, advance, then)
      PROVE  /\ last_job' \in JobIds \union {NoJob} /\ saved_job' \in JobIds \union {NoJob}
             /\ shown' \in JobIds \union {NoJob}
  BY <1>s DEF Show, ShowNothing
<1>1. CASE CloudChanges
  BY <1>1 DEF CloudChanges, flash, history, pass
<1>2. CASE Elapse
  BY <1>2, CycleOK DEF Elapse, flash, history, pass
<1>3. CASE Wake
  <2>1. /\ UNCHANGED <<changes, images, saved_job, shown, synced_at, set_at, awake, restarts>>
        /\ last_job' \in {last_job, saved_job} /\ rebooting' = FALSE
    BY <1>3, Zenon DEF Wake, flash, history, pass
  <2> QED BY <2>1, CycleOK
<1>4. CASE WakeTick \/ SyncTick \/ WakeRepaint \/ SyncRepaint
  <2>1. UNCHANGED <<changes, images, awake, synced_at, set_at, boot>>
    BY <1>4 DEF WakeTick, SyncTick, WakeRepaint, SyncRepaint, Displaying, world
  <2>2. ASSUME NEW nothing, NEW then, Tick(nothing, then)
        PROVE  ShowNothing \/ \E k \in DOMAIN jobs : Show(jobs[k].id, TRUE, then)
    BY <1>j, <2>2, Zenon DEF Tick
  <2>3. ASSUME NEW then, Repaint(then)
        PROVE  ShowNothing \/ \E j \in JobIds \union {NoJob} : \E advance : Show(j, advance, then)
    <3> DEFINE i == IF ClockOK(clock) THEN CurrentIndex(jobs, clock) ELSE 0
    <3>1. \/ i # 0 /\ Show(jobs[i].id, jobs[i].id # last_job, then)
          \/ Show(last_job, FALSE, then)
          \/ ShowNothing
      BY <2>3, Zenon DEF Repaint
    <3>2. i # 0 => i \in DOMAIN jobs
      BY <1>j
    <3> HIDE DEF i
    <3> QED BY <1>j, <3>1, <3>2, Zenon
  <2>4. ShowNothing \/ \E j \in JobIds \union {NoJob} : \E advance, then : Show(j, advance, then)
    BY <1>4, <1>j, <2>2, <2>3, Zenon DEF WakeTick, SyncTick, WakeRepaint, SyncRepaint
  <2>5. CASE ShowNothing
    BY <2>1, <2>5 DEF ShowNothing
  <2> QED BY <1>s, <2>1, <2>4, <2>5
<1>5. CASE Primary
  <2>1. Needed \in JobIds \union {NoJob}
    <3> DEFINE due == Decide(jobs, clock, last_job)
               cur == IF ClockOK(clock) THEN CurrentIndex(jobs, clock) ELSE 0
    <3>1. due # 0 => jobs[due].id \in JobIds
      BY <1>j
    <3>2. cur # 0 => jobs[cur].id \in JobIds
      BY <1>j
    <3>3. Needed \in (IF due # 0 THEN {jobs[due].id} ELSE IF cur # 0 THEN {jobs[cur].id}
                      ELSE {last_job, NoJob})
      BY DEF Needed
    <3> HIDE DEF due, cur
    <3> QED BY <3>1, <3>2, <3>3
  <2>2. images' \subseteq images \union ({Needed} \ {NoJob})
    BY <1>5, Zenon DEF Primary
  <2>3. UNCHANGED <<changes, awake, last_job, saved_job, shown, synced_at, set_at, boot>>
    BY <1>5 DEF Primary, world, history, pass
  <2> QED BY <2>1, <2>2, <2>3
<1>6. CASE Telemetry
  <2>1. UNCHANGED <<changes, images, awake, last_job, saved_job, shown, set_at, boot>>
    BY <1>6 DEF Telemetry, world, pass
  <2>2. synced_at' \in {synced_at, t - (clock - now)}
    BY <1>6, Zenon DEF Telemetry
  <2> QED BY <1>t, <2>1, <2>2
<1>7. CASE EnsureWallClock
  <2>1. /\ UNCHANGED <<changes, images, awake, last_job, saved_job, synced_at, boot>>
        /\ shown' = NoJob
    BY <1>7 DEF EnsureWallClock, world, flash
  <2>2. set_at' \in {set_at, t}
    BY <1>7, Zenon DEF EnsureWallClock
  <2> QED BY <1>t, <2>1, <2>2
<1>12. CASE FastPathFails
  BY <1>12 DEF FastPathFails, world, flash
<1>8. CASE Fetch
  BY <1>8 DEF Fetch, world
<1>9. CASE Gate \/ Probe \/ FetchFails \/ UNCHANGED vars
  BY <1>9, Zenon DEF Gate, Probe, FetchFails, vars, world, flash, history, pass
<1>10. CASE Sleep
  BY <1>10, CycleOK DEF Sleep, PassEnds, world, flash
<1>11. CASE Restart
  BY <1>11, CycleOK DEF Restart, PassEnds, world, flash
<1> QED BY <1>1, <1>2, <1>3, <1>4, <1>5, <1>6, <1>7, <1>8, <1>9, <1>10, <1>11,
        <1>12 DEF Next

\* The state keeps its types, with unreadable cron lines too.
THEOREM TypeCorrect == Spec => []TypeOK
<1>1. Init => TimeInv /\ Others
  BY InitTimeInv, CycleOK DEF Init, Others
<1>2. TimeInv /\ Others /\ [Next]_vars => (TimeInv /\ Others)'
  BY StepTypes, StepFromCloud, StepOthers DEF TimeInv
<1>3. TimeInv /\ Others => TypeOK
  BY ChosenJobs DEF TimeInv, Types, FromCloud, Others, TypeOK
<1> QED BY <1>1, <1>2, <1>3, PTL DEF Spec
=============================================================================
