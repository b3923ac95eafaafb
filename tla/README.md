# Formal model of the e-ink signage firmware

The repository (`src/mender-mcu-integration`) is the firmware of a battery-powered
e-ink sign on Zephyr: it wakes, paints what its schedule says is due, fetches the
schedule and missing images over Wi-Fi, reports telemetry, computes the next wake
and powers off.  A mains build keeps running and polls.  This directory models that
core in TLA+: TLC checks it on small instances and TLAPS proves the most important
facts for every value of the constants.

To check a run: `tlc -config sync.cfg MCSyncCycle.tla`.  To check the proofs:
`tlapm EinkDisplay_proofs.tla`.

Paths below are relative to `src/mender-mcu-integration/src/eink/` unless they begin
with `src/`; `display_el133uf1.c` is in
`src/mender-mcu-integration/modules/eink-el133/drivers/display/`.

## 1. The system: inventory

| Component | State | Operations | Interacts with |
|---|---|---|---|
| Display service `eink_display.c` | `g_state`, one pending command, one payload slot, `last_result`, `eink_idle_sem`, a work item on its own queue (priority 5) | `show_path`, `show_payload`, `clear`, `wait_idle`, the work handler, `set_idle` | called by the scheduler on main, on the HTTP queue and from the shell; reads the store; drives a panel back end |
| EL133 panel driver `display_el133uf1.c` | `dirty`, `blanking_on`; the controllers' RAM and power, the waveform | init, blanking on/off, stream write, refresh | called by the display worker; its supply is cut by power |
| Scheduler core `eink_scheduler_core.c` | none | `eink_cron_next_run`, `_next_after`, `eink_scheduler_decide`, `eink_next_wakeup` | pure functions used by the scheduler |
| Scheduler `eink_scheduler.c` | the schedule with its `next_run` times, `last_job`, a mutex | `init`, `set_schedule`, `tick`, `repaint`, `due_image`, `get_next_wakeup` | display, store |
| HTTP sync `eink_http.c` | the poll interval, the wall clock, the HTTP arena | v0 pass, v2 pass, fast path, downloads, telemetry | store, scheduler, network |
| Configuration `eink_http.c`, log ring `eink_log_ring.c` | the cached configuration with its ETag and CRC, the debug-log request, credentials; a byte ring and its snapshot | config fetch, `set_credentials`, debug-log upload; put, snapshot | the cloud, every logging thread |
| HTTP work queue `eink_http.c` | four work items on one thread (priority 6): one-off sync, periodic sync, telemetry, gallery; `telem_ctx`, two semaphores | `sync_once`, the periodic handler, `flush_deferred` | wake machine, shell, radio rail |
| Wake machine `eink_wake.c` | none that outlives a pass | `run_once` | everything above |
| Power `eink_power.c` | rails, the SNVS alarm | `set_next_wake`, `enter_snvs`, radio rail | wake machine, display |
| Store `eink_store.c`, `eink_lz4.c` | LittleFS: `state.json`, `schedule.json`, `sync_meta.json`, per image `.es6f`, `.es6f.lz4`, `.sha` | `save_*`, `load_*`, `accept_temp_image`, `put_image`, content hashes | HTTP sync, display |
| T2000 USB host `eink_t2000_usb.c`, `eink_t2000_proto.c` | one transfer at a time, its lock and semaphore, the attached device | bulk transfers, info, clear, fill | main's panel probe, shell, USB stack |
| OTA staging, location/GNSS | a staged file; a cached fix | begin/write/finish/abort; sample | HTTP sync, shell |
| Boot and Mender callbacks `src/mender-mcu-integration/src/main.c` | deployment flags | start-up order, rail holds | Mender client (a separate repository, absent here) |
| Other panel back ends | pixel buffers | conversion and layout | display |
| Shell, self-test | none | commands that call the services | display, HTTP sync, T2000 |

What each must get right:

* **Display**: one refresh at a time; an accepted command is refreshed exactly once,
  even if the handler was on its way out; whoever waits learns the result of *its*
  refresh, in time, because the scheduler advances and saves `last_job` on it.
* **Panel and power**: a waveform draws one whole frame, success means it is on the
  glass, the high voltage is left off, and cutting the rails spoils none of it.
* **Scheduler**: `tick` (latest overdue `next_run`) and `repaint` (latest past
  occurrence) are two algorithms for the same question and must agree, at midnight too;
  the next wake must miss no slot.
* **Sync**: a full pass shows a job of the schedule it fetched; the fast path is taken
  only while the last sync is recent; time never runs ahead of the world, and the time
  that is stored never goes back.
* **Configuration**: a pass works with the configuration its cloud has; a requested log
  arrives, and is one stretch of the log.
* **HTTP queue**: no work item is initialised while queued, pending telemetry is not
  overwritten, the radio is dropped only after it has gone, every waiter is answered.
* **Store**: a power loss leaves each small file old or new; the image served is the
  one last accepted or none; the hash reported to the cloud is never newer than the
  content.
* **T2000**: no failure keeps the lock or costs a transfer, and a successful fill is on the
  glass.

The hard behaviours are interleavings of three prioritised threads (main 0, display
worker 5, HTTP queue 6, with the shell at 14 besides), state read under a lock and used
after it, a wall clock that a cold boot loses, power losses between file operations, a
processor that is switched off beside a refresh, and USB callbacks that come late.
`PROJECT.json` lists each hazard at its line.

## 2. Plan, and where it stands

Done, the most important behaviour first:

1. `PanelService`, `EinkDisplay`: the display service and its abstract specification.
2. `SchedulerCore`: the pure algorithms of time.
3. `SyncCycle` (extends `SchedulerCore`): scheduler state, sync, wake, clock, alarm.
4. `StableFiles`, `EinkStore`: the store under power losses, and what a save promises.
5. `HttpQueue`: the work queue below the sync.
6. `El133`, `PanelPower` (extends `El133`): the panel driver's refresh, composed with the
   service's slot and with main's power-off.
7. `ConfigSync`: configuration, ETag cache, debug-log request, log ring.
8. `T2000`: the USB display's transfers and commands.
9. Proofs in `*_proofs` modules beside each of them.

Next:

1. The timeouts of `sync_once` (10 min) and `flush_deferred` (60 s) in `HttpQueue`, and
   `eink_http_stop` once something calls it.
2. The radio gate of a cold boot (Kconfig's `WAKE_SKIP_RADIO_IF_CURRENT` against the
   unset clock), as a run of its own.
3. A simulator build of `EinkDisplay` in which main paints and waits above the worker.
4. The radio rail of a mains build, on which the HTTP queue works while the Mender client's
   release callback cuts it, when that client is at hand.
5. OTA staging, when code of the tree stages an image.
6. Proofs: the safety core of the liveness of `ConfigSync` and `PanelPower`, as
   `NoWaitInVain` and `NothingForgotten` are of the display's and the queue's.

## 3. The modules

### EinkDisplay — `eink_display.c`, with `show_job` of `eink_scheduler.c`

| Variable | Code |
|---|---|
| `build` | Kconfig, the panel's speed and what each thread issues; never changes |
| `state`, `lastResult`, `lastJobId` | `g_status` |
| `pending`, `cmd` | the pending command; the handler's local copy of it |
| `slotBusy` | the ownership of the payload slot |
| `sem` | `eink_idle_sem` (a binary semaphore) |
| `work`, `wpc`, `ret` | the work item queued; the handler's place and result |
| `pc`, `op`, `outcome` | the callers, what they asked and how their refresh ended |
| `last_job` | the scheduler's `last_job` |
| `begun` | bound: commands started so far |

`QueueBusy`/`Queue` are the two outcomes of `queue_cmd` under `eink_mu`, `Submit` the
`k_work_submit` after the unlock, `TakeToken`/`WaitExpires` the two ends of
`wait_idle`, `ReadStatus` what `show_job` reads next, `Take`, `Paint`, `RecordJob`,
`SetIdle` and `Give` the handler, cut where the code releases the lock.  Each section
under `eink_mu` is one step.  `Prio` gives each thread its Zephyr priority on the single
core: a thread moves only if no more urgent one is ready (`CallerRuns`, `WorkerRuns`).

`PanelService` is the promise: a command is accepted only if none is outstanding, and an
accepted command completes once with a result.  `EinkDisplay` implements it with
`outstanding` mapped to the pending command or to the one in the handler.

### SchedulerCore — `eink_scheduler_core.c`

Time is an integer; a cron line is the minute and hour the code parses out of it, hence
a `slot` in the day, or `BadCron` for a line that does not parse (which the code runs
`BadCronDelay` after whatever time it is asked for).  `Decide` is
`eink_scheduler_decide`, `CurrentIndex` the choice made by repaint.

### SyncCycle — `eink_scheduler.c`, `eink_wake.c`, `eink_http.c`, `eink_power.c`

`t` is the true time and `clock` the device's, which a cold boot restarts near 0;
`jobs` and `last_job` are RAM, `saved_sched`, `saved_job`, `last_sync` and `images` are
flash; `build` is the product (duty-cycled or mains, v0 or v2, poll interval).  `pc`
walks through one pass: `Wake` (boot, or the periodic work on mains),
`WakeTick`/`WakeRepaint` (paint before the radio), `Gate` (the radio gate),
`EnsureWallClock`, `Probe` (the fast path's test), `Fetch`/`FetchFails`, `Primary` (the
download of what is due), `SyncTick`/`SyncRepaint`, `Telemetry`, `FastPathFails` and
`Sleep`.  The world moves between any two of them (`Elapse`, `CloudChanges`).

`Restart` is a boot that no alarm has programmed, at any moment: the reboot of
`mender_restart_cb` or a power failure of some length (`Outages`), after which a mains
device too starts with the flash alone and takes its clock from `last_sync`.
`rebooting` says that such a boot is due, `restarts` counts them.

`start`, `full`, `shown`, `synced_at` (the true time of the sync behind `last_sync`) and
`set_at` (the true time at which the clock was last set) are history variables, for the
properties only.

Abstractions: a job's image has the job's id; the gallery's downloads are folded into
`Primary`'s success; the display shows or fails in one step (the steps are
`EinkDisplay`'s); telemetry is deferred (`TELEMETRY_DEFER`) and its queueing is
`HttpQueue`'s; the cache in front of `Fetch` is `ConfigSync`'s; a save may fail.  What
the simulator restores to its panel at boot and the shell's own `tick` are not modelled.  `Gate`
can skip the radio only with a set clock; a duty-cycled device reaches it with the clock
of a cold boot (`ensure_wall_clock` runs behind the gate), so no run takes that outcome:
a listed hazard.

### EinkStore — `eink_store.c`, `eink_lz4.c`, and the downloads of `eink_http.c`

`file[f]`, `tmp[f]` are each small file and its temporary, `spc[f]` the place of the
save; `es6f`, `lz4` and `sha` what is stored of each image, `part` the temporary of the
download.  A file's value is what a restart would find: a content that has been synced,
or `Torn`.  `SaveOpen` … `SaveRename` and `SaveFails` are one save; `Request` decides on
a download, `Transfer`, `Expand`, `Accept`, `UnlinkEs6f`, `UnlinkLz4`, `Rename` are
`accept_temp_image` with what leads to it, `HashWrite` … `HashRename` the record of the
content hash.  `Crash` may happen at any time and any number of times; every operation
that can report an error may fail (`DownloadFails`, `HashFails`).  `expand` is the
build: expand an LZ4 frame on download or keep it until display.

Assumed of LittleFS: an operation is atomic, and a write is complete or reports an error.
Assumed of the code's use: each small file has one writer at a time (the scheduler's
mutex for `state.json` and `schedule.json`, the HTTP queue for `sync_meta.json`); the
removal of an existing file succeeds (the code ignores its result).  The cloud publishes
ever newer versions.  A truncated HTTP body is possible (`whole` is FALSE).  A display
that reads the file meanwhile is not modelled; `put_image` and the credentials have the
shape of a save.

`StableFiles` is the promise of a save: the file has its new value or the old one, and a
restart forgets the request.

### HttpQueue — the work items of `eink_http.c`

`queue` is the work queue, `item` and `wpc` its thread, `timer` the delayed periodic
item; `pending`, `tnow`, `telem_done` the deferred telemetry, `gallery` the deferred
gallery; `cpc`, `once_done`, `rail` the caller of `sync_once` and the radio.
`duty` is the build: on a duty-cycled device the caller is main, which is more urgent
than the queue, and flushes and drops the radio afterwards; on mains it is the shell,
which is less urgent, beside the periodic item.  The network answers within the ten
minutes and the 60 seconds of the two waits.  `eink_http_stop` has no caller in the tree
and is not modelled.

### El133 and PanelPower — `display_el133uf1.c`, `eink_power.c`, `eink_display.c`

`El133` is the panel with its driver.  `power`, `ram[h]`, `hv`, `wave` and `glass` are the
supply, what each of the two controllers has loaded, which of them PON has powered on,
what a running waveform draws and what the glass shows; `driver`, `dirty` and `blanking`
are the driver's `struct`; `pc`, `k`, `frame`, `ret` the display worker inside
`write_stream_to_display`: `BlankingOn` or `NotReady`, `StreamHalf`/`StreamFails` per
half, `Unblank`, then for each command of `Refresh` (PON to each controller, DRF to both,
POF to each) `Send`/`SendFails` and `BusyHigh`/`BusyTimesOut`.  `WaveEnds` is the panel.

`PanelPower` composes it with the service's slot (`Queue`, `Take`, `Open`, `Publish`; the
races of the hand-over are `EinkDisplay`'s) and with main: `EnterSnvs` is
`eink_power_enter_snvs`, which samples `eink_display_is_busy` once, cuts the panel's rail
or leaves it, and either stops the processor (`Stops`) or, on a board whose main rail stays
up, returns (`GoesOn`); `Boot` is the wake alarm with `el133_init`.  `mcu`, `panel_rail`
and `pending`, `state` are the processor, `g_status.panel_powered` and the slot; `shown`
is history.  The builds are all combinations of fire-and-forget, a panel supply behind a
GPIO, a main rail that drops, and a fitted panel.  A panel that answers init late (BUSY
timed out) is served as by the code; what an uninitialised panel draws is not modelled.

### ConfigSync — `eink_http_fetch_config`, the debug log, `eink_log_ring.c`

`config[s]`, `flag[s]` are what each cloud holds; `base` the credentials; `cache` the four
variables of the RAM cache, `request` and `hint` the two forms of the log request (v0's
global, v2's local).  A pass is `FastPass`, which asks for nothing (when it may be taken is
`SyncCycle`'s question), or `pc` walks through `Ask`, `Answer`/`NoAnswer`,
`Unchanged`/`Parsed`/`Planned`/`ParseFails`, `Work`/`WorkFails`, `NoUpload`/`Upload`,
`Stored`/`UploadFails`.  `asked`, `ifnone`, `resp` are the open request and its answer.
`ring`, `ring_head`, `ring_len` are the log ring, in which the i-th byte logged is `i`, and
`snap` the copy that is uploaded.  Around the pass: `Log`, `Publish`, `RequestLog`,
`SetCredentials`, `PowerLoss`.  The end of a pass is a power-off on a duty-cycled build
(`EndPass`), which forgets cache and ring.  `served`, `logged` and `named` (the cloud and
the body that the cached ETag stands for) are history.

The clouds are external: a body stands for configuration and flag together, and equal CRCs
are taken as equal bodies.  `Etag[s][b]` is the ETag of body `b` at cloud `s`: within a
cloud it tells bodies apart (`src/scripts/eink-etabelone-bridge.py` hashes them), but two
clouds may use one ETag for different bodies.  Each answer comes with its ETag or without,
as the cloud likes; a 304 is given only to the ETag of what the cloud now has.  An answer
may be lost after the cloud has acted on the request.

### T2000 — `eink_t2000_usb.c`, `eink_t2000_proto.c`

A command is a script of bulk transfers (`Script`): `info`, `clear`, and `fill`, which
sends each stripe as a header and its data and ends with a trigger and a poll of the
status.  `Call`, `Lock`, `NoMemory`, `Reset`, `Enqueue`/`EnqueueFails`, `Done`,
`TimesOut` are `bulk_xfer`; `lock`, `sem`, `err`, `pool` its mutex, semaphore, shared error
and the USB stack's transfers.  `live` is the transfer the controller has for the waiting
thread, `late` those whose thread has gone: `CompleteLate` is their callback, which gives
the same semaphore.  `Attach` and `Detach` are the class driver's probe and removal.  The
display is external and does what the scripts rely on (`Obey`, `Load`, `Settle`), except
that any answer may have no bytes, which `bulk_xfer` takes for a success: the command then
reads whatever was on its stack (`Read`), and a fill that asked for its size fails, or goes
on with the right size or a wrong one (`Unsized`, `GoOn`).
`result`, `timeouts`, `clean` are history: `clean[t]` says that no other thread's command,
no removal and no late callback has come between the transfers of `t`.

## 4. The runs

| Run | Question | Answer |
|---|---|---|
| `display` | Two callers that wait; one that waits for a slow panel beside others; fire and forget with three threads: exclusive panel, own result, nothing stranded? | holds |
| `sync` | v0 with the fast path on mains and v2 through power-offs, with a reboot or an outage at any moment, over a midnight | holds |
| `duty_fast_path_shows_stale` | The fast path of a duty-cycled device shows a current job? | **violated**, finding 1 |
| `duty_fast_path_never_ages` | … and gives way to a full fetch when the sync is old? | **violated**, finding 2 |
| `store_crash` | Power losses and failures everywhere, both LZ4 builds | holds |
| `store_accept_loses_image` | The accept of an image is atomic? | **violated**, finding 3 |
| `http_queue` | Both builds of the queue, safety and liveness | holds |
| `panel_power` | Every build and board: refresh step by step with failures, rails cut and processor stopped anywhere in it | holds |
| `panel_power_sleeps` | A refresh in flight goes on while the processor is off? | **violated**, finding 4 |
| `config` | All builds, two clouds that change and use each other's ETags, answers lost, unparsable or without an ETag, fast passes, new credentials, power losses | holds |
| `log_request_retried` | A requested debug log arrives although an upload fails? | **violated**, finding 5 |
| `t2000` | Two threads on one pipe with failing, late and timed-out transfers, answers of no bytes, removals, a pool that runs dry | holds |

### Findings

1. `next_run` is computed at boot from a clock in 1970; the fast path restores the clock
   and ticks without computing it again, so every job is overdue and the latest slot of
   the day is shown, current or not.
2. The clock is restored from `last_sync` itself, so the age of `last_sync` is always
   seconds on a duty-cycled device and the maximum age never applies.  (The comment on
   that restoration calls it good enough until the next full sync; no full sync
   corrects the clock.)  A mains device that is restarted takes its clock from `last_sync`
   in the same way.
3. `accept_temp_image` removes the old image before the rename, though its header calls
   it atomic.
4. `eink_display_is_busy` is also true while a command is queued or its frame is being
   streamed.  Main then leaves the panel's rail up and stops the processor, and no
   waveform ever starts, although the scheduler has advanced `last_job`.
5. The device clears its debug-log request before the upload.  If that fails on a mains v0
   build with the configuration cache, later passes reuse the cached configuration and
   never see the flag again, though the comment says "retry next wake".

### Properties

* `PanelExclusive`, `NotStranded`: relate the worker's place, the state, the pending
  command, the payload slot and the work item.
* `ShowReportsOwnPaint`: `show_job` succeeds only if its own refresh ran and succeeded.
* `CommandCompletes`, `WaiterReturns`: every accepted command is completed, and every
  waiter goes on without its timeout where the panel is fast enough.  `NoWaitInVain` is the
  safety core of the second: a single waiter always has a command pending or in the handler
  that will wake it.
* `FullPassShowsCurrent` (`ShownWasCurrent`): what a pass shows was the current job at
  some moment of the pass, though the choice was made by two algorithms and from times
  computed before the downloads.
* `NoSlotSleptThrough`: while the clock tells the true time, no slot lies in the programmed
  sleep, but for the 60-second floor.  The clock does so in the boot in which SNTP sets it;
  one restored from `last_sync` lacks the sleeps since, so that its alarms come late for
  slots of true time, and nothing is promised.
* `FastPathIsFresh`: the fast path is taken only within the maximum age of the true time of
  the last sync; false wherever a sleep or a restart loses the clock (finding 2).
  `FastPathIsFreshAwake` is what the code does give, on every build and through restarts:
  within the maximum age of the sync or of the moment the clock was set.
* `LastSyncNeverGoesBack`, `ClockNeverAhead`: the stored time stays between what it was and
  the true time, though every boot starts at 0 and v2 saves whatever its clock says.
* `ServesLatestAccepted`, `HashNeverAhead`, `ImageSurvives`, `ImplementsStableFiles`.
* `QueuedOnce`, `TelemetryKept`, `LastSyncWasPosted`, `RailDropsLast`, `OnceReturns`,
  `TelemetryEnds`.  `NothingForgotten` is the safety core of the last two: whoever waits is
  owed a wake-up by an item queued or running, and every deferred job and the periodic sync
  has its item.
* `DrawsItsFrame`: a waveform draws the frame of its own command, whole, after any failed
  stream or refresh before it.  `OkIsOnGlass`: a reported success is on the glass.
  `HighVoltageOff`: between commands the high voltage is off, unless the last refresh
  failed.  `Settles`: every accepted command ends or the power goes.
  `RefreshOutlivesSleep`.
* `PassUsesServed`: a pass works with what its cloud held when it answered, whether it
  parsed a body, had a 304 or an equal CRC; except where a 304 answers an ETag that is
  another cloud's, or that did not come with the cached body, because the answer after it
  had none.  The code keeps such an ETag and cannot tell (two listed hazards).
  `RingHoldsLatest`, `UploadsOneStretch`: the ring's bytes and a snapshot's, in order and
  without a gap.  `RequestAnswered`: a requested log reaches its cloud (finding 5);
  `RequestAnsweredUncached`: it does where every pass asks and parses an answer, that is
  without the fast path and without a cache that outlives the pass.
* `OnlyTimeoutsLoseTransfers`: every way out of `bulk_xfer` but the timeout frees what it
  allocated.  `FillIsSolid`: what the success of an undisturbed fill means that was told its
  size.  `CommandsEnd`: no way out keeps the lock.  That the display is idle when a command
  ends is not among them: an answer of no bytes may look like an idle one.

Each property of a passing run is broken by a mutant of the code (a dropped guard, a
swapped order), listed in `PROJECT.json`; the mutated operators stand beside the ones
they replace, with a comment that begins "Mutant".

### Bounds, and why they are enough

* Display: `MaxCmds` 3 commands, two jobs, three builds.  A confusion of commands takes
  the one that is finishing, the one that overlaps and one more to be misled.  The
  simulator's boot, where main itself paints and waits above the worker, is outside: a
  semaphore given after the unlock can there be taken for the end of main's own refresh
  (a listed hazard).
* Sync: a day of 5 ticks, two jobs, one of them at midnight in one of two schedules,
  `Epoch` 12, `Horizon` 17 (true time starts at 12: a midnight at 15), `MaxAwake` 2 ticks per
  pass, so that midnight and slots fall inside passes, one change of the cloud's schedule,
  one restart (`MaxRestarts`) at once or after 4 ticks, longer than the maximum age
  (`Outages`; none in the violation runs, which need none), `MaxAge` 3, `Poll` 1 on mains (shorter than any slot distance) and 4 on duty (longer).
* Store: two small files, two values, one image (two ids in the violation run), two
  versions; power losses are not bounded.
* Queue: `MaxPasses` 5, which lets a deferred telemetry meet a second and a third pass.
* Panel: two frames (one to leave half loaded, one to follow it); nothing else is bounded.
* Configuration: two clouds, two contents, `MaxChanges` 3 (a request for a log, a new
  configuration and a move, or a power loss instead), `RingSize` 3 with `MaxLogged` 4, so
  that the ring wraps.  The clouds' ETags are crossed (`PerCloud`: one's ETag of a
  configuration is the other's of the other one), so that a move meets a foreign 304.  v2
  has no cache, and the fast path is tried with the cache on duty-cycled builds: elsewhere
  it leaves the state as it is.  The violation run needs one of each.
* T2000: two fill indexes, two stripes, a pool of one transfer, `MaxFaults` 2 timeouts or removals,
  `MaxGiven` 2 commands: a late callback needs a timed-out transfer and one to disturb.

`CHECK_DEADLOCK FALSE` stands where the bounds stop the environment, or a duty-cycled
device powers off for good at the horizon.

### Fairness

`EinkDisplay` and `HttpQueue` have weak fairness on the steps of the worker and of each
caller once it has started: Zephyr dispatches the most urgent ready thread, the panel's
drivers end every refresh by their own timeouts, and every socket has one.  `PanelPower`
has weak fairness on the worker alone, for the same reason.  `ConfigSync` repeats its pass
(the periodic work item, the wake alarm) and assumes that a network which may fail does not
fail for ever: strong fairness of a parsable answer, of a pass that gets past its images
and of a stored upload; without them no log could be promised.  That a pass which may take
the fast path asks is not assumed.  `T2000` has weak fairness
of each thread's step and strong fairness of `Lock` (a Zephyr mutex queues its waiters) and
of a poll whose deadline has passed; the controller completes or fails every transfer and
the display ends every update.  That a command is begun, a timer expires or a cloud changes
is never assumed.  `SyncCycle` and `EinkStore` state safety only and assume no fairness.

## 5. What is proved

All theorems are checked by TLAPS for every value of the constants that meets the named
assumptions (`ConstantsOK`, `NoneIsNoCommand`, `CoreOK`, `CycleOK`, `StoreOK`, `QueueOK`,
`FramesOK`, `PowerOK`, `ConfigSyncOK`, `BodyOK`, `EtagOK`, `T2000OK`, `NoneIsNew`), which TLC
evaluates in every run too.  Two theorems name a further hypothesis: `ReadableManifests` and `WaitersFit`.

* **`EinkDisplay_proofs`**: `TypeCorrect`, `PanelIsExclusive`, `NeverStranded` from
  the inductive `IInv == TypeOK /\ Ownership /\ PanelExclusive /\ NotStranded`; and
  `RefinesPanelService`, that every step maps to a step of `PanelService` or a stutter.
  `Ownership` is needed because exclusion alone does not say that a command in the
  handler is one that was accepted.  Any threads and any priorities: these facts do not
  rest on scheduling.  `ShowReportsOwn` does: under `WaitersFit` (every thread that issues
  commands beside a waiting one is below the worker; one that is more urgent than it waits
  too, and then no refresh outlasts the wait), a show that advances had its own refresh
  succeed.  Its invariant `ReportInv` adds to `IInv` who may issue what (`Issued`), whose
  result is in the handler (`Outcomes`), that where somebody waits a token means that nothing
  is in progress (`Token`), and what a waiting thread's status will say (`ShowInv`).
  `NobodyWaitsInVain`, for any priorities, rests on `Issued` and on `Expecting`: while one
  thread waits without its token, a command is pending or the handler has yet to give.
* **`SchedulerCore_proofs`**: `DueJobWasCurrent` (for a readable schedule, the job chosen
  by tick was repaint's choice at some moment between the computation of `next_run` and
  now); `CurrentIsLatestSlot` (repaint's job is the one whose time of day came last: no
  job's has come since, and of equal ones it is the last of the list); `WakesForEverySlot`
  and `WakesForAReason` (the next wake sleeps through no job's time and is the poll
  deadline or such a time, but for the floor).  They rest on lemmas on day arithmetic
  (`SameDay`, `OnceADay`, `TimeOfDay`, `OccurrenceIsLast`) and on the choice of a latest
  index (`LatestIndexIsLatest`).
* **`SyncCycle_proofs`**: `ClockIsNeverAhead` and `TypeCorrect` for any schedules;
  `FastPathFreshAwake` for any schedules, intervals, ages and restarts, from `Ages`, which
  ties the device's clock to the true times of the sync and of its own setting;
  `LastSyncStays`; `NoSlotIsSleptThrough` (while the clock tells the true time) and
  `FullPassIsCurrent` for readable schedules (`ReadableManifests`; an unreadable cron line
  runs "in an hour" forever, and what it should show is stated nowhere).  The invariant is
  `TimeInv == Types /\ FromCloud /\ Times` — the types, where each schedule came from and
  when its `next_run` were computed, and the order of the times — with `Fetched` added for
  the pass that fetched.
* **`EinkStore_proofs`**: `StoreTypeOK`, `ServesTheLatest`, `HashIsNeverAhead`,
  `RefinesStableFiles`, from `StoreInv`, which adds what the temporaries hold at each
  step (`SaveInv`, `ImageInv`) and how the versions of plan, part, store and hash are
  ordered (`VersionInv`).
* **`HttpQueue_proofs`**: `NoItemIsQueuedTwice`, `RadioDropsLast`, `LastSyncPosted`,
  `PendingTelemetryKept`, `NothingIsForgotten`, from `QueueInv`: `Placed` says which item may be queued or
  running given the places of caller, timer and telemetry, `Quiet` that nothing is left
  when the radio is off.
* **`PanelPower_proofs`**: `TypeCorrect`, `SuccessIsOnGlass`, `HighVoltageIsOff`,
  `DrawsOwnFrame`, for any frames, builds and boards.  The invariant
  says when the slot and the worker agree (`Slot`), which halves have been streamed
  (`Streamed`), what the waveform and the glass hold at each command of a refresh (`Drawn`)
  and what a panel at rest looks like (`Rest`).
* **`ConfigSync_proofs`**: `TypeCorrect`, `UsesServed`, `RingIsLatest`,
  `UploadIsOneStretch`, for any clouds with any ETags of their own, contents, ring size and
  number of changes.  `CacheCoherent` (the cached configuration is the one of the cached
  body, and the cached ETag is that of `named`), `Conditional` (what a request may ask conditionally) and `Answered`
  carry the cache; `RingFills` and lemmas on `%` the ring.
* **`T2000_proofs`**: for any fill indexes, number of stripes, size of the pool and
  failures.  `PoolIsKept` comes from the counts of transfers (`Counts`) and
  `OneTransferAtATime` from the owner of the lock (`Exclusion`).  `TypeCorrect` and
  `LockIsReturned` (whoever has the lock is inside `bulk_xfer` and in a command) add where
  each thread is in its script (`InScript`) and that stripes on their way have a colour.
  `FillSolid` says what success means if nothing interferes and the display has told its
  size, from `SInv`: an undisturbed command is the only one (`Alone`), the semaphore it waits for tells of its
  own transfer (`Told`, `LiveIsAwaited`), and the display has got as far as its position in
  the script (`Progress`), which the lemma `Obeys` carries over each transfer of a fill.

Only model-checked: all liveness (`CommandCompletes`, `WaiterReturns`, `OnceReturns`,
`TelemetryEnds`, `Settles`, `RequestAnsweredUncached`, `CommandsEnd`, and the fairness
part of `ImplementsPanelService`), which is out of the prover's reach.  Every invariant
and action property that a passing run checks is a theorem.

## 6. What is not modelled

* Pixel conversion, layout and the SDL and LCD back ends, SPI framing and register values:
  device work without control state of its own.
* JSON, TLS, sockets, redirects, the `file://` fixtures: a request succeeds or fails; what
  it brings is a value.  The redaction of the uploaded log's text, and two uploads at once.
* The timeouts of the HTTP queue's two waits, `eink_http_stop`: planned, listed hazards.
* OTA staging: only its init is called; no code of the tree stages an image.  Location and
  GNSS: a cached fix and its formatting, on which no other part's state depends.
* The Mender client and its update modules: a separate repository, absent here.  On mains
  its release callback cuts the radio that the HTTP queue may be using (a listed hazard);
  a duty-cycled build leaves main before that client starts.
* Interrupt parking, the alarm's registers, WoWLAN and the shell's `eink snvs`: register
  work around the steps of `PanelPower`.
* Argument parsing of the shell, benches, the self-test, build and provisioning scripts,
  board files, vendored LZ4.
