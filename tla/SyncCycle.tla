------------------------------ MODULE SyncCycle -----------------------------
(***************************************************************************)
(* One device from boot to sleep and through its syncs: the scheduler's    *)
(* state (eink_scheduler.c), the wake transaction (eink_wake.c), the sync  *)
(* pass in its v0 and v2 forms (eink_http.c), the clock and schedule that  *)
(* survive a power-off (eink_store.c) and the wake alarm (eink_power.c).   *)
(* The cloud, the network, the clock of the world and the power, which may *)
(* fail at any time, are the environment.                                  *)
(*                                                                         *)
(* The pass runs on one thread (main hands it to the HTTP queue and waits) *)
(* and is cut into steps where it reads the clock or blocks on the network.*)
(***************************************************************************)
EXTENDS SchedulerCore

CONSTANTS Manifests,   \* the schedules the cloud may serve: sequences of [id, slot]
          Epoch,       \* below it the wall clock counts as unset
          StartTime,   \* true time of the first boot
          Horizon,     \* bound: no wake after this true time
          MaxAwake,    \* bound: ticks of the clock during one pass
          MaxChanges,  \* bound: changes of the cloud's schedule
          MaxRestarts, \* bound: restarts that no alarm has programmed
          Outages,     \* how long the power may be gone in a restart; 0 for a reboot
          MaxAge,      \* CONFIG_APP_EINK_HTTP_SYNC_MAX_AGE_SEC
          DefaultAlarm,\* CONFIG_APP_EINK_SNVS_DEFAULT_ALARM_SEC
          Builds       \* the builds to consider, see Build

\* duty: CONFIG_APP_EINK_BATTERY_DUTY_CYCLE, power off between passes;
\* fast: CONFIG_APP_EINK_HTTP_FAST_PATH; v2: CONFIG_APP_EINK_HTTP_V2_SYNC;
\* poll: poll_interval_seconds.
Build == [duty : BOOLEAN, fast : BOOLEAN, v2 : BOOLEAN, poll : Nat \ {0}]

ASSUME CycleOK ==
    /\ \A m \in Manifests : m \in Seq([id : JobIds, slot : Slots \union {BadCron}])
    /\ Epoch \in Nat /\ MaxAwake \in Nat /\ MaxAwake < Epoch
    /\ StartTime \in Nat /\ StartTime >= Epoch
    /\ Horizon \in Nat /\ MaxChanges \in Nat /\ MaxRestarts \in Nat
    \* Nobody waits from 1970 to 2024 for a clock to reach Epoch by itself.
    /\ Horizon + MaxAwake < StartTime + Epoch
    /\ Outages \subseteq Nat
    /\ MaxAge \in Nat \ {0} /\ DefaultAlarm \in Nat \ {0}
    /\ Builds \subseteq Build

VARIABLES
    build,      \* the build; never changes
    t,          \* true time
    cloud,      \* the schedule the cloud serves
    changes,    \* how often it has changed
    clock,      \* time(NULL) of the device: true time, or the time since boot
    jobs,       \* RAM: sched
    last_job,   \* RAM: last_job
    saved_sched,\* flash: the schedule file
    saved_job,  \* flash: the state file
    last_sync,  \* flash: the last_sync file, 0 when there is none
    images,     \* flash: the jobs whose image is valid in the store
    pc,         \* where the pass is
    now,        \* the pass's local variable now
    alarm,      \* true time of the next wake
    rebooting,  \* the next wake is a boot that no alarm has programmed
    restarts,   \* how often there was one
    awake,      \* ticks of the clock in this pass
    start,      \* history: the clock when the sync began
    full,       \* history: this sync fetched the schedule
    shown,      \* history: the job this sync had shown
    synced_at,  \* history: true time at which the sync of last_sync took its time
    set_at      \* history: true time at which ensure_wall_clock last set the clock

world == <<t, cloud, changes>>
flash == <<saved_sched, saved_job, last_sync, images>>
boot == <<rebooting, restarts>>
pass == <<start, full, shown>>
history == <<pass, synced_at, set_at>>
vars == <<build, world, clock, jobs, last_job, flash, pc, now, alarm, boot, awake, history>>

DutyCycle == build.duty
FastPath == build.fast
V2 == build.v2
Poll == build.poll

ClockOK(c) == c >= Epoch

\* Mutant: off by one.
SyncIsFreshAtMaxAge == ClockOK(clock) /\ last_sync > 0 /\ clock - last_sync <= MaxAge
SyncIsFresh == ClockOK(clock) /\ last_sync > 0 /\ clock - last_sync < MaxAge

Labels == {"off", "wake_tick", "wake_repaint", "gate", "sync", "probe", "fetch", "primary",
           "tick", "repaint", "telemetry", "sleep"}

TypeOK ==
    /\ build \in Builds
    /\ t \in Nat /\ cloud \in Manifests /\ changes \in Nat
    /\ clock \in Nat /\ jobs \in Seq(Job)
    /\ last_job \in JobIds \union {NoJob} /\ saved_job \in JobIds \union {NoJob}
    /\ saved_sched \in Manifests \union {<<>>}
    /\ last_sync \in Nat /\ images \subseteq JobIds
    /\ pc \in Labels
    /\ now \in Nat /\ alarm \in Nat /\ awake \in 0..MaxAwake
    /\ rebooting \in BOOLEAN /\ restarts \in 0..MaxRestarts
    /\ start \in Nat /\ full \in BOOLEAN /\ shown \in JobIds \union {NoJob}
    /\ synced_at \in Nat /\ set_at \in Nat

Init ==
    /\ build \in Builds
    /\ t = StartTime /\ alarm = StartTime
    /\ cloud \in Manifests /\ changes = 0
    /\ clock = 0 /\ jobs = <<>> /\ last_job = NoJob
    /\ saved_sched = <<>> /\ saved_job = NoJob /\ last_sync = 0 /\ images = {}
    /\ pc = "off"
    /\ now = 0 /\ awake = 0 /\ rebooting = TRUE /\ restarts = 0
    /\ start = 0 /\ full = FALSE /\ shown = NoJob /\ synced_at = 0 /\ set_at = 0

-----------------------------------------------------------------------------
(* The environment.                                                        *)

\* The pass is over: its local variable is gone and its history starts anew.
PassEnds == now' = 0 /\ start' = 0 /\ full' = FALSE /\ shown' = NoJob /\ awake' = 0

CloudChanges ==
    /\ changes < MaxChanges
    /\ changes' = changes + 1
    /\ cloud' \in Manifests \ {cloud}
    /\ UNCHANGED <<t, clock, jobs, last_job, flash, pc, now, alarm, boot, awake, history>>

\* Downloads and posts take time.
Elapse ==
    /\ pc \in {"sync", "fetch", "primary", "tick", "telemetry", "sleep"} /\ awake < MaxAwake
    /\ awake' = awake + 1 /\ t' = t + 1 /\ clock' = clock + 1
    /\ UNCHANGED <<cloud, changes, jobs, last_job, flash, pc, now, alarm, boot, history>>

\* The power fails for a while, in the pass or between two, or mender_restart_cb reboots
\* the device: only the flash survives.
Restart ==
    /\ restarts < MaxRestarts /\ ~rebooting
    /\ restarts' = restarts + 1 /\ rebooting' = TRUE
    /\ \E d \in Outages : alarm' = t + d
    /\ pc' = "off" /\ PassEnds
    /\ clock' = 0 /\ jobs' = <<>> /\ last_job' = NoJob
    /\ UNCHANGED <<world, flash, synced_at, set_at>>

-----------------------------------------------------------------------------
(* Scheduler: init, tick and repaint.                                      *)

\* main after a power-on: the clock restarts at 0, eink_scheduler_init loads the
\* flash and computes next_run from that clock.  A duty-cycled build boots at every
\* wake; a mains build polls, and its clock and RAM survive from one pass to the next.
Wake ==
    /\ pc = "off" /\ alarm <= Horizon
    /\ t' = alarm
    /\ rebooting' = FALSE
    /\ IF DutyCycle \/ rebooting
         THEN /\ clock' = 0
              /\ last_job' = saved_job
              /\ jobs' = WithNext(saved_sched, 0)
         ELSE clock' = clock + (alarm - t) /\ UNCHANGED <<last_job, jobs>>
    /\ pc' = IF DutyCycle THEN "wake_tick" ELSE "sync"
    /\ UNCHANGED <<cloud, changes, flash, now, alarm, restarts, awake, history>>

ShowNothing == UNCHANGED <<last_job, saved_job, shown>>

\* show_job: -ENOENT without a valid image; the display may refuse, or fail to paint
\* in a build that waits for it; otherwise the schedule advances.  Whether it could
\* be saved is ignored.
Show(j, advance, then) ==
    /\ \/ ShowNothing
       \/ /\ j \in images
          /\ shown' = j
          /\ IF advance THEN last_job' = j /\ saved_job' \in {j, saved_job}
                        ELSE UNCHANGED <<last_job, saved_job>>
    /\ pc' = then

Tick(nothing, then) ==
    LET i == Decide(jobs, clock, last_job)
    IN  IF i = 0 THEN pc' = nothing /\ ShowNothing
                 ELSE Show(jobs[i].id, TRUE, then)

\* Repaint shows the current job, or the last one while the clock is unset.
Repaint(then) ==
    LET i == IF ClockOK(clock) THEN CurrentIndex(jobs, clock) ELSE 0
    IN  \/ i # 0 /\ Show(jobs[i].id, jobs[i].id # last_job, then)
        \/ /\ i = 0 /\ \E k \in DOMAIN jobs : jobs[k].id = last_job
           /\ Show(last_job, FALSE, then)
        \/ /\ i = 0 /\ \A k \in DOMAIN jobs : jobs[k].id # last_job
           /\ pc' = then /\ ShowNothing

Displaying == UNCHANGED <<world, clock, jobs, saved_sched, last_sync, images, now, alarm,
                          boot, awake, start, full, synced_at, set_at>>

\* eink_wake_run_once paints before it powers the radio ...
WakeTick == pc = "wake_tick" /\ Tick("wake_repaint", "gate") /\ Displaying
WakeRepaint == pc = "wake_repaint" /\ Repaint("gate") /\ Displaying

\* ... and every sync pass paints once its primary image is there.
SyncTick == pc = "tick" /\ Tick("repaint", "telemetry") /\ Displaying
SyncRepaint == pc = "repaint" /\ Repaint("telemetry") /\ Displaying
-----------------------------------------------------------------------------
(* The sync pass.                                                          *)

\* radio_sync_needed.
Gate ==
    /\ pc = "gate"
    /\ pc' = IF FastPath /\ Decide(jobs, clock, last_job) = 0 /\ SyncIsFresh
             THEN "sleep" ELSE "sync"
    /\ UNCHANGED <<world, clock, jobs, last_job, flash, now, alarm, boot, awake, history>>

\* Mutant: an unset clock is set by SNTP or not at all.
EnsureWallClockSntpOnly ==
    /\ pc = "sync"
    /\ clock' \in IF ClockOK(clock) THEN {clock} ELSE {clock, t}
    /\ start' = clock' /\ full' = FALSE /\ shown' = NoJob
    /\ set_at' = IF clock' = clock THEN set_at ELSE t
    /\ now' = clock'
    /\ pc' = IF FastPath /\ ~V2 THEN "probe" ELSE "fetch"
    /\ UNCHANGED <<world, jobs, last_job, flash, alarm, boot, awake, synced_at>>

\* ensure_wall_clock: an unset clock takes last_sync; without one SNTP, which may
\* fail.  The v2 pass reads now here.
EnsureWallClock ==
    /\ pc = "sync"
    /\ clock' \in IF ClockOK(clock) THEN {clock}
                  ELSE IF ClockOK(last_sync) THEN {last_sync}
                  ELSE {clock, t}
    /\ start' = clock' /\ full' = FALSE /\ shown' = NoJob
    /\ set_at' = IF clock' = clock THEN set_at ELSE t
    /\ now' = clock'
    /\ pc' = IF FastPath /\ ~V2 THEN "probe" ELSE "fetch"
    /\ UNCHANGED <<world, jobs, last_job, flash, alarm, boot, awake, synced_at>>

\* The image a pass needs: of the due job, else of the current one; NoJob for none.
Needed ==
    LET due == Decide(jobs, clock, last_job)
        cur == IF ClockOK(clock) THEN CurrentIndex(jobs, clock) ELSE 0
    IN  IF due # 0 THEN jobs[due].id
        ELSE IF cur # 0 THEN jobs[cur].id
        ELSE IF \E k \in DOMAIN jobs : jobs[k].id = last_job THEN last_job ELSE NoJob

\* The v0 fast path: a fresh sync and the image in the store skip the fetch.
Probe ==
    /\ pc = "probe"
    /\ pc' = IF SyncIsFresh /\ Needed \in images \union {NoJob} /\ saved_sched # <<>>
             THEN "tick" ELSE "fetch"
    /\ UNCHANGED <<world, clock, jobs, last_job, flash, now, alarm, boot, awake, history>>

\* fetch_config or the v2 plan, and set_schedule, which ignores a failed save and reads
\* the clock itself when now is 0.  The v0 pass reads now after the fetch.
Fetch ==
    /\ pc = "fetch"
    /\ now' = IF V2 THEN now ELSE clock
    /\ jobs' = WithNext(cloud, IF now' = 0 THEN clock ELSE now')
    /\ saved_sched' \in {cloud, saved_sched}
    /\ full' = TRUE
    /\ pc' = "primary"
    /\ UNCHANGED <<world, clock, last_job, saved_job, last_sync, images, alarm, boot, awake,
                   start, shown, synced_at, set_at>>

\* The pass returns: the periodic sync is rescheduled, the wake goes on to sleep.
FetchFails ==
    /\ pc = "fetch"
    /\ pc' = "sleep"
    /\ UNCHANGED <<world, clock, jobs, last_job, flash, now, alarm, boot, awake, history>>

\* Mutant: the empty id of "nothing to show" is downloaded too.
PrimaryUnguarded ==
    /\ pc = "primary"
    /\ images' \in {images, images \union {Needed}}
    /\ pc' = "tick"
    /\ UNCHANGED <<world, clock, jobs, last_job, saved_sched, saved_job, last_sync, now,
                   alarm, boot, awake, history>>

\* Download what the panel needs; a failure is logged.  The v2 plan may also replace an
\* image, which a failed accept loses.
Primary ==
    /\ pc = "primary"
    /\ images' \in {images, images \union ({Needed} \ {NoJob})}
                   \union (IF V2 THEN {images \ {Needed}} ELSE {})
    /\ pc' = "tick"
    /\ UNCHANGED <<world, clock, jobs, last_job, saved_sched, saved_job, last_sync, now,
                   alarm, boot, awake, history>>

\* Mutant: the next wake is stored for the time of the sync.
TelemetrySavesNextWake ==
    /\ pc = "telemetry"
    /\ last_sync' = now + Poll /\ synced_at' = t - (clock - now)
    /\ pc' = "sleep"
    /\ UNCHANGED <<world, clock, jobs, last_job, saved_sched, saved_job, images, now,
                   alarm, boot, awake, pass, set_at>>

\* last_sync is saved: by v2 always, by v0 and its fast path after a successful post.
\* The save may fail.
Telemetry ==
    /\ pc = "telemetry"
    /\ \/ /\ last_sync' = now
          /\ synced_at' = t - (clock - now)
       \/ UNCHANGED <<last_sync, synced_at>>
    /\ pc' = "sleep"
    /\ UNCHANGED <<world, clock, jobs, last_job, saved_sched, saved_job, images, now,
                   alarm, boot, awake, pass, set_at>>

\* A fast path whose telemetry fails goes on with a full sync.  Only on mains can the
\* deferred telemetry be busy and this one be posted at once.
FastPathFails ==
    /\ pc = "telemetry" /\ ~full /\ ~DutyCycle
    /\ shown' = NoJob
    /\ pc' = "fetch"
    /\ UNCHANGED <<world, clock, jobs, last_job, flash, now, alarm, boot, awake, start, full,
                   synced_at, set_at>>
-----------------------------------------------------------------------------
(* Sleep.                                                                  *)

Capped(delay) == IF delay > Day THEN Day ELSE delay

\* set_next_wake and enter_snvs program the alarm as a delay; an unset clock sleeps
\* for the default.  A mains build reschedules the sync after the poll interval.
Sleep ==
    /\ pc = "sleep"
    /\ alarm' = t + (IF ~DutyCycle THEN Poll
                     ELSE IF ClockOK(clock) THEN Capped(NextWakeup(jobs, clock, Poll) - clock)
                     ELSE DefaultAlarm)
    /\ pc' = "off" /\ PassEnds
    /\ UNCHANGED <<world, clock, jobs, last_job, flash, boot, synced_at, set_at>>

Next == /\ \/ CloudChanges \/ Elapse \/ Restart
           \/ Wake \/ WakeTick \/ WakeRepaint \/ Gate
           \/ EnsureWallClock \/ Probe \/ Fetch \/ FetchFails \/ Primary
           \/ SyncTick \/ SyncRepaint \/ Telemetry \/ FastPathFails
           \/ Sleep
        /\ UNCHANGED build

Spec == Init /\ [][Next]_vars
-----------------------------------------------------------------------------
(* Properties.                                                             *)

\* What a pass shows was the schedule's current job at some moment of the pass, by
\* the device's clock: tick's choice (latest overdue next_run) and repaint's (latest
\* past occurrence) agree.
ShownWasCurrent ==
    pc = "telemetry" /\ shown # NoJob /\ ClockOK(start) =>
        \E x \in start..clock :
            LET i == CurrentIndex(jobs, x) IN i # 0 /\ jobs[i].id = shown

\* ... in a pass that fetched its schedule, although next_run dates from before the
\* downloads and midnight may fall into them.
FullPassShowsCurrent == full => ShownWasCurrent

\* The fast path is taken only within MaxAge of the sync that last_sync stands for ...
FastPathIsFresh ==
    [][pc = "probe" /\ pc' = "tick" => t - synced_at < MaxAge]_vars

\* ... or of the last time the clock was set: a device that comes back from a restart or
\* a sleep takes last_sync for the time, and the age it then measures counts from there.
FastPathIsFreshAwake ==
    [][pc = "probe" /\ pc' = "tick" => t - synced_at < MaxAge \/ t - set_at < MaxAge]_vars

\* While the clock is right, that is set by SNTP in this boot, a wake is programmed so
\* that no job's time passes during the sleep, except within WakeFloor of its start.  A
\* clock restored from last_sync lacks the sleeps since: by it slots come late, and
\* nothing is promised.
NoSlotSleptThrough ==
    DutyCycle /\ pc = "off" /\ ~rebooting /\ clock = t =>
        \A i \in DOMAIN jobs : \A x \in (t + WakeFloor + 1)..(alarm - 1) :
            x % Day # jobs[i].slot

\* Once last_sync holds a time of day it never goes back, through boots, outages and
\* failing SNTP, though every boot starts at 0 and the v2 pass saves whatever its clock
\* says.
LastSyncNeverGoesBack == [][ClockOK(last_sync) => last_sync' >= last_sync]_vars

\* The device's clock and the time it persists never run ahead of the true time, so no
\* frame is shown early and no last_sync lies in the future.
ClockNeverAhead == clock <= t /\ last_sync <= t
=============================================================================
