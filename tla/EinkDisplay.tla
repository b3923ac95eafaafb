---------------------------- MODULE EinkDisplay -----------------------------
(***************************************************************************)
(* eink_display.c: one pending slot, one work item on its own work queue,  *)
(* one binary semaphore that announces "idle", and the threads that queue  *)
(* commands: the main thread, the HTTP work queue and the shell.  The      *)
(* scheduler's show_job_locked_copy (eink_scheduler.c:75-131) is the only  *)
(* caller that waits; it is modelled here step by step because the         *)
(* hand-over between wait_idle and the worker is where the threads race.   *)
(*                                                                         *)
(* Zephyr schedules threads by strict priority on one core, so a step of a *)
(* thread is possible only while no more urgent thread is ready to run.    *)
(* Sections under eink_mu are single steps.                                *)
(***************************************************************************)
EXTENDS Naturals, FiniteSets

CONSTANTS Callers,        \* threads that queue display commands
          Jobs,           \* job ids of the schedule
          None,           \* no job, no command
          Prio,           \* Prio[c]: Zephyr priority of thread c, lower = more urgent
          WorkerPrio,     \* EINK_DISP_PRIORITY
          Builds,         \* the builds to consider, see Build
          MaxCmds         \* bound on the commands of one behaviour

Kinds == {"show_job", "show", "clear", "payload"}

\* fire: CONFIG_APP_EINK_DISPLAY_FIRE_AND_FORGET; slow: a refresh may outlast the
\* 2-minute wait; ops[c]: the kinds of command thread c issues.
Build == [fire : BOOLEAN, slow : BOOLEAN, ops : [Callers -> SUBSET Kinds]]

ASSUME ConstantsOK ==
    /\ None \notin Jobs
    /\ Prio \in [Callers -> Nat] /\ WorkerPrio \in Nat
    /\ \A c, d \in Callers : c # d => Prio[c] # Prio[d]
    /\ \A c \in Callers : Prio[c] # WorkerPrio
    /\ Builds \subseteq Build
    /\ MaxCmds \in Nat

Results == {"ok", "error"}
Command == [by : Callers, kind : Kinds, job : Jobs \union {None}, advance : BOOLEAN]

ASSUME NoneIsNoCommand == None \notin Command

VARIABLES
    build,       \* the build; never changes
    state,       \* status.state
    lastResult,  \* status.last_result
    lastJobId,   \* status.last_job_id
    pending,     \* the pending command, None when !has_pending
    sem,         \* count of eink_idle_sem (0 or 1)
    slotBusy,    \* eink_payload_slot_busy
    work,        \* eink_work is queued on eink_disp_q
    wpc,         \* where the worker is
    cmd,         \* the worker's copy of the command
    ret,         \* the worker's result
    pc,          \* pc[c]: where thread c is in its call
    op,          \* op[c]: the command thread c is issuing
    last_job,    \* the scheduler's last_job
    outcome,     \* history: how the refresh of thread c's latest command ended
    begun        \* history: number of commands begun, bounded by MaxCmds

worker == <<work, wpc, cmd, ret>>
service == <<state, lastResult, lastJobId, pending, sem, slotBusy>>
vars == <<build, service, worker, pc, op, last_job, outcome, begun>>

FireAndForget == build.fire

TypeOK ==
    /\ build \in Builds
    /\ state \in {"IDLE", "REFRESHING", "ERROR"}
    /\ lastResult \in Results
    /\ lastJobId \in Jobs \union {None}
    /\ pending \in Command \union {None}
    /\ sem \in {0, 1}
    /\ slotBusy \in BOOLEAN
    /\ work \in BOOLEAN
    /\ wpc \in {"idle", "paint", "record", "set_idle", "give"}
    /\ cmd \in Command \union {None}
    /\ ret \in Results
    /\ pc \in [Callers -> {"idle", "queue", "submit", "take", "wait", "status", "advance"}]
    /\ op \in [Callers -> Command \union {None}]
    /\ last_job \in Jobs \union {None}
    /\ outcome \in [Callers -> Results \union {None}]
    /\ begun \in Nat

Init ==
    /\ build \in Builds
    /\ state = "IDLE" /\ lastResult = "ok" /\ lastJobId = None
    /\ pending = None /\ sem = 1 /\ slotBusy = FALSE
    /\ work = FALSE /\ wpc = "idle" /\ cmd = None /\ ret = "ok"
    /\ pc = [c \in Callers |-> "idle"]
    /\ op = [c \in Callers |-> None]
    /\ last_job = None
    /\ outcome = [c \in Callers |-> None]
    /\ begun = 0

-----------------------------------------------------------------------------
(* Strict-priority scheduling.  A thread in "queue" or "advance" may be    *)
(* blocked in the file system, one in "wait" is blocked on the semaphore,  *)
(* and a refresh ("paint") blocks on SPI and BUSY; all other points run.   *)

Ready(c) == pc[c] \in {"submit", "take", "status"}

WorkerReady == (wpc = "idle" /\ work) \/ wpc \in {"record", "set_idle", "give"}

CallerRuns(c) == /\ \A d \in Callers : Prio[d] < Prio[c] => ~Ready(d)
                 /\ WorkerPrio < Prio[c] => ~WorkerReady

WorkerRuns == \A d \in Callers : Prio[d] < WorkerPrio => ~Ready(d)

\* The command of thread c has been accepted and not yet been announced.
InProgress(c) == \/ pending # None /\ pending.by = c
                 \/ wpc # "idle" /\ cmd.by = c

Waiting == {c \in Callers : pc[c] = "wait"}
Goto(c, label) == pc' = [pc EXCEPT ![c] = label]
-----------------------------------------------------------------------------
(* Callers.                                                                *)

\* A thread decides what to queue: tick and repaint (show_job, advancing the
\* schedule unless the job is already the last one), shell show and clear,
\* or a payload from RAM.
Begin(c, k, j) ==
    /\ pc[c] = "idle" /\ CallerRuns(c)
    /\ k \in build.ops[c] /\ begun < MaxCmds
    /\ k = "clear" => j = None
    /\ k = "show_job" => j # None
    /\ op' = [op EXCEPT ![c] = [by |-> c, kind |-> k, job |-> j, advance |-> j # last_job]]
    /\ begun' = begun + 1
    /\ Goto(c, "queue")
    /\ UNCHANGED <<service, worker, last_job, outcome>>

\* Mutant: the slot alone decides, a running refresh does not.
BusyIgnoringState(c) == pending # None \/ (op[c].kind = "payload" /\ slotBusy)

Busy(c) == \/ pending # None
           \/ state = "REFRESHING"
           \/ op[c].kind = "payload" /\ slotBusy

\* queue_cmd and show_payload refuse while a command is outstanding: -EBUSY.
QueueBusy(c) ==
    /\ pc[c] = "queue" /\ CallerRuns(c)
    /\ Busy(c)
    /\ Goto(c, "idle")
    /\ UNCHANGED <<service, worker, op, last_job, outcome, begun>>

\* Mutant: the semaphore is not reset before a new command.
QueueKeepsToken(c) ==
    /\ pc[c] = "queue" /\ CallerRuns(c)
    /\ ~Busy(c)
    /\ pending' = op[c]
    /\ slotBusy' = (slotBusy \/ op[c].kind = "payload")
    /\ outcome' = [outcome EXCEPT ![c] = None]
    /\ Goto(c, "submit")
    /\ UNCHANGED <<state, lastResult, lastJobId, sem, worker, op, last_job, begun>>

\* queue_cmd accepts.  k_sem_reset zeroes the count and makes every thread
\* blocked on the semaphore return -EAGAIN from wait_idle.
Queue(c) ==
    /\ pc[c] = "queue" /\ CallerRuns(c)
    /\ ~Busy(c)
    /\ pending' = op[c]
    /\ sem' = 0
    /\ slotBusy' = (slotBusy \/ op[c].kind = "payload")
    /\ outcome' = [outcome EXCEPT ![c] = None]
    /\ pc' = [d \in Callers |-> IF d = c THEN "submit"
                                ELSE IF d \in Waiting THEN "idle" ELSE pc[d]]
    /\ UNCHANGED <<state, lastResult, lastJobId, worker, op, last_job, begun>>

AfterSubmit(c) == IF op[c].kind # "show_job" THEN "idle"
                  ELSE IF ~FireAndForget THEN "take"
                  ELSE IF op[c].advance THEN "advance" ELSE "idle"

\* Mutant: the work item is not queued again while its handler runs.
SubmitUnlessRunning(c) ==
    /\ pc[c] = "submit" /\ CallerRuns(c)
    /\ work' = (work \/ wpc = "idle")
    /\ Goto(c, AfterSubmit(c))
    /\ UNCHANGED <<service, wpc, cmd, ret, op, last_job, outcome, begun>>

\* k_work_reschedule_for_queue, after eink_mu is released.  A fire-and-forget
\* build advances the schedule next; otherwise show_job waits.
Submit(c) ==
    /\ pc[c] = "submit" /\ CallerRuns(c)
    /\ work' = TRUE
    /\ Goto(c, AfterSubmit(c))
    /\ UNCHANGED <<service, wpc, cmd, ret, op, last_job, outcome, begun>>

\* k_sem_take in wait_idle: consume the token or block.
TakeToken(c) ==
    /\ pc[c] = "take" /\ CallerRuns(c)
    /\ IF sem = 1 THEN sem' = 0 /\ Goto(c, "status")
                  ELSE UNCHANGED sem /\ Goto(c, "wait")
    /\ UNCHANGED <<state, lastResult, lastJobId, pending, slotBusy, worker, op, last_job,
                   outcome, begun>>

\* K_MINUTES(2) expires: the show fails and the schedule is not advanced.
WaitExpires(c) ==
    /\ pc[c] = "wait"
    /\ build.slow \/ ~InProgress(c)
    /\ Goto(c, "idle")
    /\ UNCHANGED <<service, worker, op, last_job, outcome, begun>>

\* get_status: a failed refresh does not advance the schedule.
ReadStatus(c) ==
    /\ pc[c] = "status" /\ CallerRuns(c)
    /\ Goto(c, IF lastResult = "ok" /\ op[c].advance THEN "advance" ELSE "idle")
    /\ UNCHANGED <<service, worker, op, last_job, outcome, begun>>

\* last_job is set and saved.
Advance(c) ==
    /\ pc[c] = "advance" /\ CallerRuns(c)
    /\ last_job' = op[c].job
    /\ Goto(c, "idle")
    /\ UNCHANGED <<service, worker, op, outcome, begun>>
-----------------------------------------------------------------------------
(* The worker: eink_work_handler and set_idle.                             *)

\* Mutant: has_pending is not cleared.
TakeKeepsPending ==
    /\ wpc = "idle" /\ work /\ WorkerRuns
    /\ work' = FALSE
    /\ cmd' = pending /\ state' = "REFRESHING" /\ wpc' = "paint"
    /\ UNCHANGED <<lastResult, lastJobId, pending, sem, slotBusy, ret, pc, op, last_job,
                   outcome, begun>>

\* The handler takes the pending command; a run that finds none returns.
Take ==
    /\ wpc = "idle" /\ work /\ WorkerRuns
    /\ work' = FALSE
    /\ IF pending = None
         THEN UNCHANGED <<service, wpc, cmd>>
         ELSE /\ cmd' = pending
              /\ pending' = None
              /\ state' = "REFRESHING"
              /\ wpc' = "paint"
              /\ UNCHANGED <<lastResult, lastJobId, sem, slotBusy>>
    /\ UNCHANGED <<ret, pc, op, last_job, outcome, begun>>

\* The refresh ends.  A successful one takes seconds of panel time, in which
\* every ready thread gets to run; a failing one may return at once.
Paint(r) ==
    /\ wpc = "paint" /\ WorkerRuns
    /\ r = "ok" => \A c \in Callers : ~Ready(c)
    /\ ret' = r
    /\ outcome' = [outcome EXCEPT ![cmd.by] = r]
    /\ slotBusy' = (slotBusy /\ cmd.kind # "payload")
    /\ wpc' = IF r = "ok" /\ cmd.job # None THEN "record" ELSE "set_idle"
    /\ UNCHANGED <<state, lastResult, lastJobId, pending, sem, work, cmd, pc, op, last_job,
                   begun>>

RecordJob ==
    /\ wpc = "record" /\ WorkerRuns
    /\ lastJobId' = cmd.job
    /\ wpc' = "set_idle"
    /\ UNCHANGED <<state, lastResult, pending, sem, slotBusy, work, cmd, ret, pc, op,
                   last_job, outcome, begun>>

\* Mutant: state and last_result are swapped.
SetIdleSwapped ==
    /\ wpc = "set_idle" /\ WorkerRuns
    /\ state' = ret
    /\ lastResult' = IF ret = "ok" THEN "IDLE" ELSE "ERROR"
    /\ wpc' = "give"
    /\ UNCHANGED <<lastJobId, pending, sem, slotBusy, work, cmd, ret, pc, op, last_job,
                   outcome, begun>>

\* set_idle publishes the result under eink_mu ...
SetIdle ==
    /\ wpc = "set_idle" /\ WorkerRuns
    /\ state' = IF ret = "ok" THEN "IDLE" ELSE "ERROR"
    /\ lastResult' = ret
    /\ wpc' = "give"
    /\ UNCHANGED <<lastJobId, pending, sem, slotBusy, work, cmd, ret, pc, op, last_job,
                   outcome, begun>>

\* Mutant: an error path returns before the semaphore is given.
GiveOnSuccessOnly ==
    /\ wpc = "give" /\ WorkerRuns
    /\ wpc' = "idle"
    /\ IF ret # "ok" THEN UNCHANGED <<sem, pc>>
       ELSE IF Waiting = {} THEN sem' = 1 /\ UNCHANGED pc
       ELSE /\ \E c \in Waiting : /\ \A d \in Waiting : Prio[c] <= Prio[d]
                                  /\ Goto(c, "status")
            /\ UNCHANGED sem
    /\ UNCHANGED <<state, lastResult, lastJobId, pending, slotBusy, work, cmd, ret, op,
                   last_job, outcome, begun>>

\* ... and gives the semaphore after releasing it: to the most urgent waiting
\* thread, else to the count.
Give ==
    /\ wpc = "give" /\ WorkerRuns
    /\ wpc' = "idle"
    /\ IF Waiting = {}
         THEN sem' = 1 /\ UNCHANGED pc
         ELSE /\ \E c \in Waiting : /\ \A d \in Waiting : Prio[c] <= Prio[d]
                                    /\ Goto(c, "status")
              /\ UNCHANGED sem
    /\ UNCHANGED <<state, lastResult, lastJobId, pending, slotBusy, work, cmd, ret, op,
                   last_job, outcome, begun>>
-----------------------------------------------------------------------------
CallerStep(c) == /\ \/ QueueBusy(c) \/ Queue(c) \/ Submit(c) \/ TakeToken(c)
                    \/ ReadStatus(c) \/ Advance(c)
                 /\ UNCHANGED build
WorkerStep == /\ \/ Take \/ RecordJob \/ SetIdle \/ Give
                 \/ \E r \in Results : Paint(r)
              /\ UNCHANGED build
Environment(c) == /\ \/ \E k \in Kinds, j \in Jobs \union {None} : Begin(c, k, j)
                     \/ WaitExpires(c)
                  /\ UNCHANGED build

Next == (\E c \in Callers : CallerStep(c) \/ Environment(c)) \/ WorkerStep

\* A thread that may run is eventually dispatched; starting a command is the
\* environment's choice.
Fairness == WF_vars(WorkerStep) /\ \A c \in Callers : WF_vars(CallerStep(c))

Spec == Init /\ [][Next]_vars
FairSpec == Spec /\ Fairness
-----------------------------------------------------------------------------
(* Properties.                                                             *)

\* The worker drives the panel only while the service is REFRESHING with nothing
\* pending: no second command is accepted between the take and the publication of
\* its result.  The payload slot is held exactly from acceptance to the end of the
\* refresh that reads it, although the worker releases it without the lock.
PanelExclusive ==
    /\ wpc \in {"paint", "record", "set_idle"} <=> state = "REFRESHING"
    /\ state = "REFRESHING" => pending = None
    /\ slotBusy <=> \/ pending # None /\ pending.kind = "payload"
                    \/ wpc = "paint" /\ cmd.kind = "payload"

\* A command accepted under eink_mu is never stranded: the work item that will
\* take it is queued, or the thread that accepted it is still about to queue it,
\* although submission happens outside the lock and an earlier run of the handler
\* may be on its way out.  Nor does the handler ever run for nothing.
NotStranded ==
    /\ pending # None => work \/ pc[pending.by] = "submit"
    /\ work => pending # None

\* A show that advances the schedule had its own refresh succeed: what
\* show_job_locked_copy takes for the result of its command is not the result
\* of another one (it does not wait in a fire-and-forget build).
ShowReportsOwnPaint ==
    ~FireAndForget => \A c \in Callers : pc[c] = "advance" => outcome[c] = "ok"

\* Every accepted command is refreshed, successfully or not.
CommandCompletes ==
    \A c \in Callers : pc[c] = "submit" ~> outcome[c] # None

\* Where a single thread waits for idle it is woken by the service, without relying
\* on the two-minute timeout.  (Of two, the reset of one may take the other's token.)
OneWaiter == \A c, d \in Callers : "show_job" \in build.ops[c] \cap build.ops[d] => c = d
WaiterReturns ==
    \A c \in Callers : OneWaiter /\ pc[c] \in {"take", "wait"} ~> pc[c] = "idle"

\* A single waiting thread never waits for nothing: a command is pending or in the handler,
\* whose end gives the semaphore, although others queue commands, reset the semaphore and
\* let waits expire between its submission and its k_sem_take.
NoWaitInVain == OneWaiter /\ Waiting # {} => pending # None \/ wpc # "idle"

\* The command that has been accepted and whose result is not yet published.
Outstanding == IF pending # None THEN pending
               ELSE IF wpc \in {"paint", "record", "set_idle"} THEN cmd ELSE None

\* The service accepts one command at a time and completes each exactly once.
Abstract == INSTANCE PanelService
              WITH Commands <- Command, outstanding <- Outstanding, result <- lastResult
ImplementsPanelService == Abstract!Spec
=============================================================================
