------------------------------ MODULE HttpQueue -----------------------------
(***************************************************************************)
(* The e-ink HTTP work queue (eink_http.c): the periodic sync, the one-off *)
(* sync that another thread waits for, the telemetry and the gallery that  *)
(* a v0 pass defers to the same queue, and the wake transaction that       *)
(* flushes the telemetry before it drops the radio (eink_wake.c:50-64).    *)
(*                                                                         *)
(* On a mains build the sync is periodic and the shell may ask for one     *)
(* more; on a duty-cycled build main asks for one and powers off.  Threads *)
(* have strict priorities: main 0, the queue 6, the shell 14.  The network *)
(* always answers or fails within the 10-minute and 60-second waits.       *)
(***************************************************************************)
EXTENDS Naturals, Sequences

CONSTANTS Builds,    \* the values of CONFIG_APP_EINK_BATTERY_DUTY_CYCLE to consider
          MaxPasses  \* bound: sync passes of one behaviour

ASSUME QueueOK == Builds \subseteq BOOLEAN /\ MaxPasses \in Nat

Items == {"once", "sync", "telem", "gallery"}

VARIABLES
    duty,      \* the build is duty-cycled; never changes
    queue,     \* http_q: work items submitted and not yet run
    timer,     \* sync_work is scheduled
    item,      \* the work item the queue runs, or ran last
    wpc,       \* where its handler is
    fetched,   \* the pass does not take the fast path, or no longer
    now,       \* the pass's now: the number of the pass
    pending,   \* telem_job.pending
    tnow,      \* telem_job.now
    telem_done,\* the count of the semaphore
    gallery,   \* gallery_job.pending
    once_done, \* the count of sync_once_done
    cpc,       \* where the thread that calls sync_once is
    rail,      \* the radio's rail is up
    last_sync, \* the stored time of the last sync, 0 when there is none
    passes,    \* history: passes begun
    posted     \* history: the passes whose telemetry the cloud has accepted

telem == <<pending, tnow, telem_done>>
caller == <<cpc, once_done, rail>>
history == <<passes, posted>>
vars == <<duty, queue, timer, item, wpc, fetched, now, telem, gallery, caller, last_sync, history>>

TypeOK ==
    /\ duty \in BOOLEAN /\ queue \in Seq(Items) /\ timer \in BOOLEAN
    /\ item \in Items
    /\ wpc \in {"idle", "pass", "defer", "inline", "defer_gallery", "end",
                "post", "clear", "give", "images"}
    /\ fetched \in BOOLEAN /\ now \in Nat
    /\ pending \in BOOLEAN /\ tnow \in Nat /\ telem_done \in {0, 1}
    /\ gallery \in BOOLEAN
    /\ cpc \in {"idle", "submit", "wait", "flush", "flush_wait", "rail_off", "off"}
    /\ once_done \in {0, 1} /\ rail \in BOOLEAN
    /\ last_sync \in Nat
    /\ passes \in Nat /\ posted \subseteq Nat

\* main has called eink_http_start, or is about to run the wake transaction with the
\* radio up.
Init ==
    /\ duty \in Builds
    /\ queue = <<>> /\ timer = ~duty
    /\ item = "sync" /\ wpc = "idle" /\ fetched = FALSE /\ now = 0
    /\ pending = FALSE /\ tnow = 0 /\ telem_done = 0 /\ gallery = FALSE
    /\ cpc = "idle" /\ once_done = 0 /\ rail = TRUE
    /\ last_sync = 0 /\ passes = 0 /\ posted = {}

Queued(i) == \E k \in DOMAIN queue : queue[k] = i

\* k_work_busy_get.
Busy(i) == Queued(i) \/ (wpc # "idle" /\ item = i)

\* A handler in "pass", "inline", "post" or "images" may be blocked on the network.
WorkerReady == \/ wpc = "idle" /\ queue # <<>>
               \/ wpc \in {"defer", "defer_gallery", "end", "clear", "give"}
CallerReady == \/ cpc \in {"submit", "flush", "rail_off"}
               \/ cpc = "wait" /\ once_done = 1
               \/ cpc = "flush_wait" /\ telem_done = 1
WorkerRuns == duty => ~CallerReady
CallerRuns == ~duty => ~WorkerReady
-----------------------------------------------------------------------------
(* The callers.                                                            *)

CallerUnchanged ==
    UNCHANGED <<duty, timer, item, wpc, fetched, now, pending, tnow, gallery, last_sync, history>>

Call ==
    /\ cpc = "idle" /\ CallerRuns /\ passes < MaxPasses
    /\ cpc' = "submit"
    /\ UNCHANGED <<queue, telem_done, once_done, rail>> /\ CallerUnchanged

\* k_work_init, a semaphore drained, k_work_submit_to_queue.
Submit ==
    /\ cpc = "submit" /\ CallerRuns
    /\ once_done' = 0
    /\ queue' = Append(queue, "once")
    /\ cpc' = "wait"
    /\ UNCHANGED <<telem_done, rail>> /\ CallerUnchanged

Return ==
    /\ cpc = "wait" /\ once_done = 1 /\ CallerRuns
    /\ once_done' = 0
    /\ cpc' = IF duty THEN "flush" ELSE "idle"
    /\ UNCHANGED <<queue, telem_done, rail>> /\ CallerUnchanged

\* Mutant: only a handler that is running counts as busy.
FlushRunningOnly ==
    /\ cpc = "flush" /\ CallerRuns
    /\ cpc' = IF wpc # "idle" /\ item = "telem" THEN "flush_wait" ELSE "rail_off"
    /\ UNCHANGED <<queue, telem_done, once_done, rail>> /\ CallerUnchanged

Flush ==
    /\ cpc = "flush" /\ CallerRuns
    /\ cpc' = IF pending \/ Busy("telem") THEN "flush_wait" ELSE "rail_off"
    /\ UNCHANGED <<queue, telem_done, once_done, rail>> /\ CallerUnchanged

FlushReturns ==
    /\ cpc = "flush_wait" /\ telem_done = 1 /\ CallerRuns
    /\ telem_done' = 0
    /\ cpc' = "rail_off"
    /\ UNCHANGED <<queue, once_done, rail>> /\ CallerUnchanged

RailOff ==
    /\ cpc = "rail_off"
    /\ rail' = FALSE
    /\ cpc' = "off"
    /\ UNCHANGED <<queue, telem_done, once_done>> /\ CallerUnchanged

\* The delay of sync_work expires.
TimerExpires ==
    /\ timer /\ passes < MaxPasses
    /\ timer' = FALSE
    /\ queue' = Append(queue, "sync")
    /\ UNCHANGED <<duty, item, wpc, fetched, now, telem, gallery, caller, last_sync, history>>
-----------------------------------------------------------------------------
(* The queue's thread.                                                     *)

\* The next item is taken; a handler without a job returns.
Take ==
    /\ wpc = "idle" /\ queue # <<>> /\ WorkerRuns
    /\ item' = Head(queue) /\ queue' = Tail(queue)
    /\ \/ item' \in {"once", "sync"} /\ wpc' = "pass" /\ passes' = passes + 1 /\ fetched' = FALSE
       \/ /\ UNCHANGED <<passes, fetched>>
          /\ \/ item' = "telem" /\ wpc' = IF pending THEN "post" ELSE "give"
             \/ item' = "gallery" /\ wpc' = IF gallery THEN "images" ELSE "idle"
    /\ UNCHANGED <<duty, timer, now, telem, gallery, caller, last_sync, posted>>

\* The configuration cannot be fetched.
PassFails ==
    /\ wpc = "pass" /\ WorkerRuns
    /\ wpc' = "end"
    /\ UNCHANGED <<duty, queue, timer, item, fetched, now, telem, gallery, caller, last_sync,
                   history>>

\* Fetched and downloaded, unless the fast path is taken; painted.
Pass ==
    /\ wpc = "pass" /\ WorkerRuns
    /\ wpc' = "defer" /\ now' = passes /\ fetched' \in {fetched, TRUE}
    /\ UNCHANGED <<duty, queue, timer, item, telem, gallery, caller, last_sync, history>>

AfterTelem == IF duty THEN "end" ELSE "defer_gallery"

\* Mutant: a job that is still pending is overwritten and submitted again.
DeferAlways ==
    /\ wpc = "defer" /\ WorkerRuns
    /\ pending' = TRUE /\ tnow' = now /\ telem_done' = 0
    /\ queue' = Append(queue, "telem") /\ wpc' = AfterTelem
    /\ UNCHANGED <<duty, timer, item, fetched, now, gallery, caller, last_sync, history>>

\* queue_deferred_telem; telemetry that is still on its way makes this one inline.
Defer ==
    /\ wpc = "defer" /\ WorkerRuns
    /\ IF pending \/ Busy("telem")
         THEN wpc' = "inline" /\ UNCHANGED <<queue, telem>>
         ELSE /\ pending' = TRUE /\ tnow' = now /\ telem_done' = 0
              /\ queue' = Append(queue, "telem") /\ wpc' = AfterTelem
    /\ UNCHANGED <<duty, timer, item, fetched, now, gallery, caller, last_sync, history>>

\* The inline post does not save last_sync.  A fast path that fails to post goes on with
\* the full sync.
InlinePost ==
    /\ wpc = "inline" /\ WorkerRuns
    /\ fetched' = TRUE
    /\ \/ posted' = posted \union {now} /\ wpc' = AfterTelem
       \/ UNCHANGED posted /\ wpc' = IF fetched THEN AfterTelem ELSE "pass"
    /\ UNCHANGED <<duty, queue, timer, item, now, telem, gallery, caller, last_sync, passes>>

\* The images that the store lacks are left to the gallery item, unless it is busy.
DeferGallery ==
    /\ wpc = "defer_gallery" /\ WorkerRuns
    /\ IF Busy("gallery")
         THEN UNCHANGED <<queue, gallery>>
         ELSE \/ gallery' = FALSE /\ UNCHANGED queue
              \/ gallery' = TRUE /\ queue' = Append(queue, "gallery")
    /\ wpc' = "end"
    /\ UNCHANGED <<duty, timer, item, fetched, now, telem, caller, last_sync, history>>

\* Mutant: a pass that failed wakes nobody.
EndSilently ==
    /\ wpc = "end" /\ WorkerRuns
    /\ IF item = "once" THEN once_done' = (IF now = passes THEN 1 ELSE once_done) /\ UNCHANGED timer
                        ELSE timer' = TRUE /\ UNCHANGED once_done
    /\ wpc' = "idle"
    /\ UNCHANGED <<duty, queue, item, fetched, now, telem, gallery, cpc, rail, last_sync, history>>

\* sync_once_work_handler announces the result, sync_work_handler schedules the next.
End ==
    /\ wpc = "end" /\ WorkerRuns
    /\ IF item = "once" THEN once_done' = 1 /\ UNCHANGED timer
                        ELSE timer' = TRUE /\ UNCHANGED once_done
    /\ wpc' = "idle"
    /\ UNCHANGED <<duty, queue, item, fetched, now, telem, gallery, cpc, rail, last_sync, history>>

\* Mutant: last_sync is saved although the post failed.
PostSavesAlways ==
    /\ wpc = "post" /\ WorkerRuns
    /\ posted' \in {posted, posted \union {tnow}}
    /\ last_sync' \in {tnow, last_sync}
    /\ wpc' = "clear"
    /\ UNCHANGED <<duty, queue, timer, item, fetched, now, telem, gallery, caller, passes>>

\* telem_work_handler; the save may fail.
Post ==
    /\ wpc = "post" /\ WorkerRuns
    /\ \/ posted' = posted \union {tnow} /\ last_sync' \in {tnow, last_sync}
       \/ UNCHANGED <<posted, last_sync>>
    /\ wpc' = "clear"
    /\ UNCHANGED <<duty, queue, timer, item, fetched, now, telem, gallery, caller, passes>>

\* Mutant: telemetry that could not be posted stays pending.
ClearOnSuccess ==
    /\ wpc = "clear" /\ WorkerRuns
    /\ pending' = (tnow \notin posted)
    /\ wpc' = "give"
    /\ UNCHANGED <<duty, queue, timer, item, fetched, now, tnow, telem_done, gallery, caller,
                   last_sync, history>>

Clear ==
    /\ wpc = "clear" /\ WorkerRuns
    /\ pending' = FALSE
    /\ wpc' = "give"
    /\ UNCHANGED <<duty, queue, timer, item, fetched, now, tnow, telem_done, gallery, caller, last_sync,
                   history>>

Give ==
    /\ wpc = "give" /\ WorkerRuns
    /\ telem_done' = 1
    /\ wpc' = "idle"
    /\ UNCHANGED <<duty, queue, timer, item, fetched, now, pending, tnow, gallery, caller, last_sync,
                   history>>

\* gallery_work_handler.
Images ==
    /\ wpc = "images" /\ WorkerRuns
    /\ gallery' = FALSE
    /\ wpc' = "idle"
    /\ UNCHANGED <<duty, queue, timer, item, fetched, now, telem, caller, last_sync, history>>
-----------------------------------------------------------------------------
CallerStep == Submit \/ Return \/ Flush \/ FlushReturns \/ RailOff
WorkerStep == \/ Take \/ PassFails \/ Pass \/ Defer \/ InlinePost \/ DeferGallery \/ End
              \/ Post \/ Clear \/ Give \/ Images

Next == Call \/ CallerStep \/ TimerExpires \/ WorkerStep

\* Threads that may run are dispatched and the network answers or times out.
Spec == Init /\ [][Next]_vars /\ WF_vars(CallerStep) /\ WF_vars(WorkerStep)
-----------------------------------------------------------------------------
(* Properties.                                                             *)

\* k_work_init forgets that an item is queued, so the code itself must see to it that
\* no item is in the queue twice (its list node would be), whatever the shell and the
\* timer interleave.
QueuedOnce == \A k, l \in DOMAIN queue : queue[k] = queue[l] => k = l

\* A deferred telemetry is not overwritten before it is posted.
TelemetryKept == [][pending /\ pending' => tnow' = tnow]_vars

\* The last_sync that v0 stores, deferred or not, is the time of a pass the cloud has
\* acknowledged.
LastSyncWasPosted == last_sync # 0 => last_sync \in posted

\* The radio is dropped only when the queue has nothing left to send.
RailDropsLast == ~rail => queue = <<>> /\ wpc = "idle" /\ ~pending

\* Whatever interleaves, nobody waits for a semaphore that no work item will give, no flag
\* asks for work that no item will do, and the periodic sync never drops out of its cycle:
\* the drained semaphores and the k_work_init of sync_once lose no wake-up.
NothingForgotten ==
    /\ cpc = "wait" => once_done = 1 \/ Busy("once")
    /\ cpc = "flush_wait" => telem_done = 1 \/ Busy("telem")
    /\ pending => Busy("telem")
    /\ gallery => Busy("gallery")
    /\ ~duty => timer \/ Busy("sync")

\* A one-off sync returns to its caller, and a deferred telemetry is dealt with.
OnceReturns == cpc = "submit" ~> cpc \in {"idle", "flush"}
TelemetryEnds == pending ~> ~pending
=============================================================================
