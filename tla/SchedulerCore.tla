--------------------------- MODULE SchedulerCore ----------------------------
(***************************************************************************)
(* eink_scheduler_core.c: when a cron job runs, which job is due, when to  *)
(* wake next; and the "latest past occurrence" rule that repaint and       *)
(* current_image share (eink_scheduler.c:166-178, 232-245).                *)
(*                                                                         *)
(* Times are integers since the epoch.  A cron line is the time of day of  *)
(* its "minute hour" pair, or BadCron when it does not parse.              *)
(***************************************************************************)
EXTENDS Integers, Sequences

CONSTANTS Day,          \* 86400 s
          BadCronDelay, \* 3600 s: when an unreadable cron line runs
          WakeFloor,    \* 60 s: the shortest sleep
          DefaultPoll,  \* 300 s: used when the poll interval is 0
          BadCron,      \* an unreadable cron line
          JobIds,       \* job ids
          NoJob         \* the empty job id

ASSUME CoreOK == /\ Day \in Nat \ {0} /\ BadCronDelay \in 0..Day
                 /\ WakeFloor \in Nat /\ DefaultPoll \in Nat
                 /\ BadCron \notin 0..(Day - 1)
                 /\ NoJob \notin JobIds

Slots == 0..(Day - 1)
Job == [id : JobIds, slot : Slots \union {BadCron}, next : Int]

-----------------------------------------------------------------------------
DayStart(now) == now - (now % Day)

\* Today's HH:MM, which may be overdue.
CronNextRun(slot, now) ==
    IF slot = BadCron THEN now + BadCronDelay ELSE DayStart(now) + slot

CronNextAfter(slot, now) ==
    LET today == CronNextRun(slot, now)
    IN  IF today > now THEN today ELSE today + Day

\* Mutant: only the poll interval counts.
NextWakeupPollOnly(jobs, now, poll) == now + (IF poll = 0 THEN DefaultPoll ELSE poll)

\* The poll deadline or the first job, but not sooner than WakeFloor.
NextWakeup(jobs, now, poll) ==
    LET deadline == now + (IF poll = 0 THEN DefaultPoll ELSE poll)
        times == {deadline} \union {CronNextAfter(jobs[i].slot, now) : i \in DOMAIN jobs}
        best == CHOOSE m \in times : \A x \in times : m <= x
    IN  IF best < now + WakeFloor THEN now + WakeFloor ELSE best

\* The index in cand with the greatest time, the last one of equals; 0 for none.
LatestIndex(cand, time) ==
    IF cand = {} THEN 0
    ELSE CHOOSE i \in cand :
             \A k \in cand : time[k] < time[i] \/ (time[k] = time[i] /\ k <= i)

\* Mutant: the first overdue job of the list.
DecideFirst(jobs, now, last) ==
    LET overdue == {k \in DOMAIN jobs : jobs[k].next <= now}
        i == IF overdue = {} THEN 0 ELSE CHOOSE k \in overdue : \A o \in overdue : k <= o
    IN  IF i # 0 /\ jobs[i].id = last THEN 0 ELSE i

\* Among overdue jobs, the latest; 0 when none is or the latest is already displayed.
Decide(jobs, now, last) ==
    LET overdue == {k \in DOMAIN jobs : jobs[k].next <= now}
        i == LatestIndex(overdue, [k \in DOMAIN jobs |-> jobs[k].next])
    IN  IF i # 0 /\ jobs[i].id = last THEN 0 ELSE i

\* The latest time at or before now that the cron line names.
Occurrence(slot, now) ==
    LET today == CronNextRun(slot, now)
    IN  IF today > now THEN today - Day ELSE today

\* The job that should be on the panel; 0 when the schedule is empty.
CurrentIndex(jobs, now) ==
    LET occ == [k \in DOMAIN jobs |-> Occurrence(jobs[k].slot, now)]
    IN  LatestIndex({k \in DOMAIN jobs : occ[k] <= now}, occ)

\* init and set_schedule compute every next_run from the clock they read.
WithNext(m, at) ==
    [i \in DOMAIN m |-> [id |-> m[i].id, slot |-> m[i].slot, next |-> CronNextRun(m[i].slot, at)]]
=============================================================================
