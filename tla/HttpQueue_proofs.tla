--------------------------- MODULE HttpQueue_proofs ---------------------------
(***************************************************************************)
(* Proofs about HttpQueue, for both builds and any number of passes.  Each *)
(* work item is in one place only (a timer, the queue, the running handler)*)
(* and each semaphore and flag tells which; that invariant gives that no   *)
(* item is queued twice and that the radio drops last.                     *)
(***************************************************************************)
EXTENDS HttpQueue, TLAPS

In(q, i) == \E k \in DOMAIN q : q[k] = i
Distinct(q) == \A k, l \in DOMAIN q : q[k] = q[l] => k = l

\* Submitting an item that is not queued keeps the items distinct.
LEMMA AppendAdds ==
  ASSUME NEW q \in Seq(Items), NEW j \in Items
  PROVE  /\ Append(q, j) \in Seq(Items)
         /\ \A i \in Items : In(Append(q, j), i) <=> In(q, i) \/ i = j
         /\ Distinct(q) /\ ~In(q, j) => Distinct(Append(q, j))
<1> DEFINE a == Append(q, j)
<1>1. /\ Len(q) \in Nat /\ DOMAIN q = 1..Len(q) /\ DOMAIN a = 1..(Len(q) + 1)
      /\ \A k \in 1..Len(q) : a[k] = q[k]
      /\ a[Len(q) + 1] = j
      /\ a \in Seq(Items)
  OBVIOUS
<1> HIDE DEF a
<1>2. ASSUME NEW i \in Items PROVE In(a, i) <=> In(q, i) \/ i = j
  <2>1. ASSUME In(a, i) PROVE In(q, i) \/ i = j
    BY <1>1, <2>1 DEF In
  <2>2. ASSUME In(q, i) PROVE In(a, i)
    BY <1>1, <2>2 DEF In
  <2>3. In(a, j)
    BY <1>1 DEF In
  <2> QED BY <2>1, <2>2, <2>3
<1>3. ASSUME Distinct(q), ~In(q, j) PROVE Distinct(a)
  <2> SUFFICES ASSUME NEW k \in DOMAIN a, NEW l \in DOMAIN a, a[k] = a[l] PROVE k = l
    BY DEF Distinct
  <2>1. CASE k \in 1..Len(q) /\ l \in 1..Len(q)
    BY <1>1, <1>3, <2>1 DEF Distinct
  <2>2. CASE k = Len(q) + 1 \/ l = Len(q) + 1
    BY <1>1, <1>3, <2>2 DEF In
  <2> QED BY <1>1, <2>1, <2>2
<1> QED BY <1>1, <1>2, <1>3 DEF a

\* Taking the first item removes just that item.
LEMMA TailRemoves ==
  ASSUME NEW q \in Seq(Items), q # <<>>
  PROVE  /\ Head(q) \in Items /\ Tail(q) \in Seq(Items) /\ In(q, Head(q))
         /\ Distinct(q) => /\ Distinct(Tail(q))
                           /\ \A i \in Items : In(Tail(q), i) <=> In(q, i) /\ i # Head(q)
<1> DEFINE r == Tail(q)
           h == Head(q)
<1>1. /\ Len(q) \in Nat /\ Len(q) > 0 /\ DOMAIN q = 1..Len(q) /\ DOMAIN r = 1..(Len(q) - 1)
      /\ \A k \in 1..(Len(q) - 1) : r[k] = q[k + 1]
      /\ h = q[1] /\ h \in Items
      /\ r \in Seq(Items)
  OBVIOUS
<1> HIDE DEF r, h
<1>2. In(q, h)
  BY <1>1 DEF In
<1>3. ASSUME Distinct(q) PROVE Distinct(r)
  <2> SUFFICES ASSUME NEW k \in DOMAIN r, NEW l \in DOMAIN r, r[k] = r[l] PROVE k = l
    BY DEF Distinct
  <2>1. k + 1 \in DOMAIN q /\ l + 1 \in DOMAIN q /\ q[k + 1] = q[l + 1]
    BY <1>1
  <2>2. k + 1 = l + 1
    BY <1>3, <2>1, Zenon DEF Distinct
  <2> QED BY <1>1, <2>2
<1>4. ASSUME Distinct(q), NEW i \in Items PROVE In(r, i) <=> In(q, i) /\ i # h
  <2>1. ASSUME In(r, i) PROVE In(q, i) /\ i # h
    <3>1. PICK k \in 1..(Len(q) - 1) : q[k + 1] = i
      BY <1>1, <2>1 DEF In
    <3>2. k + 1 \in DOMAIN q /\ 1 \in DOMAIN q /\ k + 1 # 1
      BY <1>1
    <3>3. q[k + 1] # q[1]
      BY <1>4, <3>2, Zenon DEF Distinct
    <3> QED BY <1>1, <3>1, <3>2, <3>3 DEF In
  <2>2. ASSUME In(q, i), i # h PROVE In(r, i)
    <3>1. PICK k \in 1..Len(q) : q[k] = i
      BY <1>1, <2>2 DEF In
    <3>2. k - 1 \in 1..(Len(q) - 1) /\ (k - 1) + 1 = k
      BY <1>1, <2>2, <3>1
    <3>3. r[k - 1] = i
      BY <1>1, <3>1, <3>2
    <3> QED BY <1>1, <3>2, <3>3 DEF In
  <2> QED BY <2>1, <2>2
<1> QED BY <1>1, <1>2, <1>3, <1>4 DEF r, h
-----------------------------------------------------------------------------
\* Where each item is, and what the flags and semaphores say of it.
Placed ==
    /\ \A i \in Items : wpc # "idle" /\ item = i => ~Queued(i)
    /\ wpc \in {"pass", "defer", "inline", "defer_gallery", "end"} => item \in {"once", "sync"}
    /\ wpc \in {"post", "clear", "give"} => item = "telem"
    /\ wpc = "images" => item = "gallery"
    /\ Busy("once") => cpc = "wait" /\ once_done = 0
    /\ Busy("sync") => ~timer
    /\ pending => Busy("telem")
    /\ Queued("telem") \/ wpc \in {"post", "clear"} => pending
    /\ wpc = "give" => ~pending
    /\ telem_done = 1 => ~pending /\ ~Busy("telem")

\* A duty-cycled device runs nothing else, and drops the radio after the last of it.
Quiet ==
    /\ duty => ~timer /\ ~Busy("sync") /\ ~Busy("gallery") /\ wpc # "defer_gallery"
    /\ cpc \in {"flush", "flush_wait", "rail_off", "off"} => duty
    /\ cpc \in {"rail_off", "off"} => ~pending /\ ~Busy("telem")
    /\ ~rail => cpc = "off"

QueueInv == TypeOK /\ QueuedOnce /\ Placed /\ Quiet

LEMMA InitQueueInv == Init => QueueInv
<1> SUFFICES ASSUME Init PROVE QueueInv
  OBVIOUS
<1>1. queue = <<>> /\ \A i : ~Queued(i)
  BY DEF Init, Queued
<1>2. TypeOK
  <2>1. duty \in BOOLEAN /\ timer \in BOOLEAN
    BY QueueOK, Zenon DEF Init
  <2>2. queue \in Seq(Items)
    BY <1>1
  <2> QED BY <2>1, <2>2 DEF Init, TypeOK, Items
<1>3. QueuedOnce
  BY <1>1 DEF QueuedOnce
<1>4. Placed /\ Quiet
  BY <1>1 DEF Init, Placed, Quiet, Busy
<1> QED BY <1>2, <1>3, <1>4 DEF QueueInv

LEMMA StepTypeOK == TypeOK /\ [Next]_vars => TypeOK'
<1> SUFFICES ASSUME TypeOK, [Next]_vars PROVE TypeOK'
  OBVIOUS
<1> USE DEF TypeOK
<1>1. CASE Call \/ Return \/ Flush \/ FlushReturns \/ RailOff
  BY <1>1 DEF Call, Return, Flush, FlushReturns, RailOff, CallerUnchanged, history
<1>2. CASE Submit
  <2>1. queue' \in Seq(Items)
    BY <1>2, AppendAdds DEF Submit, Items
  <2> QED BY <1>2, <2>1 DEF Submit, CallerUnchanged, history
<1>3. CASE TimerExpires
  <2>1. queue' \in Seq(Items)
    BY <1>3, AppendAdds DEF TimerExpires, Items
  <2>2. timer' \in BOOLEAN
    BY <1>3 DEF TimerExpires
  <2>3. UNCHANGED <<duty, item, wpc, fetched, now, telem, gallery, caller, last_sync, history>>
    BY <1>3 DEF TimerExpires
  <2> QED BY <2>1, <2>2, <2>3 DEF telem, caller, history
<1>4. CASE Take
  <2>1. queue' \in Seq(Items) /\ item' \in Items
    BY <1>4, TailRemoves DEF Take
  <2>2. wpc' \in {"pass", "post", "give", "images", "idle"}
    BY <1>4 DEF Take
  <2>3. passes' \in Nat
    BY <1>4 DEF Take
  <2>4. fetched' \in BOOLEAN
    BY <1>4, Zenon DEF Take
  <2>5. UNCHANGED <<duty, timer, now, telem, gallery, caller, last_sync, posted>>
    BY <1>4 DEF Take
  <2> QED BY <2>1, <2>2, <2>3, <2>4, <2>5 DEF telem, caller
<1>5. CASE PassFails \/ Pass \/ InlinePost \/ End \/ Post \/ Clear \/ Give \/ Images
  <2>1. wpc' \in {"idle", "pass", "end", "defer", "inline", "defer_gallery", "clear", "give"}
    BY <1>5 DEF PassFails, Pass, InlinePost, End, Post, Clear, Give, Images, AfterTelem
  <2>2. UNCHANGED <<duty, queue, item, cpc, rail, passes>>
    BY <1>5 DEF PassFails, Pass, InlinePost, End, Post, Clear, Give, Images, caller, history
  <2>3. timer' \in BOOLEAN /\ once_done' \in {0, 1}
    BY <1>5 DEF PassFails, Pass, InlinePost, End, Post, Clear, Give, Images, caller
  <2>4. fetched' \in BOOLEAN /\ now' \in Nat
    BY <1>5 DEF PassFails, Pass, InlinePost, End, Post, Clear, Give, Images
  <2>5. pending' \in BOOLEAN /\ tnow' \in Nat /\ telem_done' \in {0, 1} /\ gallery' \in BOOLEAN
    BY <1>5 DEF PassFails, Pass, InlinePost, End, Post, Clear, Give, Images, telem
  <2>6. last_sync' \in Nat /\ posted' \subseteq Nat
    BY <1>5 DEF PassFails, Pass, InlinePost, End, Post, Clear, Give, Images, history
  <2> QED BY <2>1, <2>2, <2>3, <2>4, <2>5, <2>6
<1>6. CASE Defer
  <2>1. queue' \in Seq(Items)
    BY <1>6, AppendAdds DEF Defer, Items
  <2>2. wpc' \in {"inline", "end", "defer_gallery"}
    BY <1>6 DEF Defer, AfterTelem
  <2> QED BY <1>6, <2>1, <2>2 DEF Defer, telem, caller, history
<1>7. CASE DeferGallery
  <2>1. queue' \in Seq(Items)
    BY <1>7, AppendAdds DEF DeferGallery, Items
  <2> QED BY <1>7, <2>1 DEF DeferGallery, telem, caller, history
<1>8. CASE UNCHANGED vars
  BY <1>8 DEF vars, telem, caller, history
<1> QED BY <1>1, <1>2, <1>3, <1>4, <1>5, <1>6, <1>7, <1>8 DEF Next, CallerStep, WorkerStep

\* What a step does to the queue.
LEMMA QueueEffect ==
  ASSUME TypeOK, QueuedOnce
  PROVE  /\ \A j \in Items : queue' = Append(queue, j) /\ ~Queued(j) =>
              QueuedOnce' /\ \A i \in Items : Queued(i)' <=> Queued(i) \/ i = j
         /\ queue # <<>> /\ queue' = Tail(queue) =>
              /\ Head(queue) \in Items /\ Queued(Head(queue))
              /\ QueuedOnce' /\ \A i \in Items : Queued(i)' <=> Queued(i) /\ i # Head(queue)
         /\ queue' = queue => QueuedOnce' /\ \A i \in Items : Queued(i)' <=> Queued(i)
<1>1. queue \in Seq(Items) /\ Distinct(queue)
  BY DEF TypeOK, QueuedOnce, Distinct
<1>2. ASSUME NEW j \in Items, queue' = Append(queue, j), ~Queued(j)
      PROVE  QueuedOnce' /\ \A i \in Items : Queued(i)' <=> Queued(i) \/ i = j
  <2>1. ~In(queue, j)
    BY <1>2 DEF In, Queued
  <2>2. Distinct(queue') /\ \A i \in Items : In(queue', i) <=> In(queue, i) \/ i = j
    BY <1>1, <1>2, <2>1, AppendAdds
  <2> QED BY <2>2 DEF In, Distinct, Queued, QueuedOnce
<1>3. ASSUME queue # <<>>, queue' = Tail(queue)
      PROVE  /\ Head(queue) \in Items /\ Queued(Head(queue))
             /\ QueuedOnce' /\ \A i \in Items : Queued(i)' <=> Queued(i) /\ i # Head(queue)
  <2>1. /\ Head(queue) \in Items /\ In(queue, Head(queue)) /\ Distinct(queue')
        /\ \A i \in Items : In(queue', i) <=> In(queue, i) /\ i # Head(queue)
    BY <1>1, <1>3, TailRemoves
  <2> QED BY <2>1 DEF In, Distinct, Queued, QueuedOnce
<1>4. ASSUME queue' = queue PROVE QueuedOnce' /\ \A i \in Items : Queued(i)' <=> Queued(i)
  BY <1>4 DEF Queued, QueuedOnce
<1> QED BY <1>2, <1>3, <1>4

\* Every step keeps each item in its place, one case per action.
LEMMA StepPlaced == QueueInv /\ [Next]_vars => QueuedOnce' /\ Placed' /\ Quiet'
<1> SUFFICES ASSUME QueueInv, [Next]_vars PROVE QueuedOnce' /\ Placed' /\ Quiet'
  OBVIOUS
<1> DEFINE Adds(j) == QueuedOnce' /\ \A i \in Items : Queued(i)' <=> Queued(i) \/ i = j
           Keeps == QueuedOnce' /\ \A i \in Items : Queued(i)' <=> Queued(i)
<1>0. /\ \A j \in Items : queue' = Append(queue, j) /\ ~Queued(j) => Adds(j)
      /\ queue' = queue => Keeps
  BY QueueEffect DEF QueueInv
<1> HIDE DEF Adds, Keeps
<1>1. CASE Call \/ Return \/ Flush \/ FlushReturns \/ RailOff
  <2>1. Keeps
    BY <1>0, <1>1 DEF Call, Return, Flush, FlushReturns, RailOff
  <2> QED
    BY <1>1, <2>1 DEF QueueInv, Keeps, Placed, Quiet, TypeOK, Items, Busy, Call, Return, Flush,
       FlushReturns, RailOff, CallerUnchanged, history
<1>2. CASE Submit
  <2>1. Adds("once")
    BY <1>0, <1>2 DEF Submit, QueueInv, Placed, Busy, Items
  <2> QED
    BY <1>2, <2>1 DEF QueueInv, Adds, Placed, Quiet, TypeOK, Items, Busy, Submit,
       CallerUnchanged, history
<1>3. CASE TimerExpires
  <2>1. Adds("sync")
    BY <1>0, <1>3 DEF TimerExpires, QueueInv, Placed, Busy, Items
  <2> QED
    BY <1>3, <2>1 DEF QueueInv, Adds, Placed, Quiet, TypeOK, Items, Busy, TimerExpires,
       telem, caller, history
<1>4. CASE Take
  <2>1. /\ Head(queue) \in Items /\ Queued(Head(queue)) /\ QueuedOnce'
        /\ \A i \in Items : Queued(i)' <=> Queued(i) /\ i # Head(queue)
    BY <1>4, QueueEffect DEF Take, QueueInv
  <2> QED
    BY <1>4, <2>1 DEF QueueInv, Placed, Quiet, TypeOK, Items, Busy, Take, telem, caller, history
<1>5. CASE PassFails \/ Pass \/ InlinePost
  <2>1. Keeps
    BY <1>0, <1>5 DEF PassFails, Pass, InlinePost
  <2>2. UNCHANGED <<duty, timer, item, pending, telem_done, once_done, cpc, rail>>
    BY <1>5 DEF PassFails, Pass, InlinePost, telem, caller
  <2>3. /\ wpc \in {"pass", "inline"}
        /\ wpc' \in {"pass", "defer", "end", AfterTelem}
    <3>1. CASE PassFails
      BY <3>1 DEF PassFails
    <3>2. CASE Pass
      BY <3>2 DEF Pass
    <3>3. CASE InlinePost
      <4>1. wpc = "inline"
        BY <3>3 DEF InlinePost
      <4>2. wpc' = AfterTelem \/ wpc' = IF fetched THEN AfterTelem ELSE "pass"
        BY <3>3, Zenon DEF InlinePost
      <4>3. wpc' = AfterTelem \/ wpc' = "pass"
        BY <4>2, Zenon
      <4> QED BY <4>1, <4>3
    <3> QED BY <1>5, <3>1, <3>2, <3>3
  <2>4. AfterTelem = "end" \/ (AfterTelem = "defer_gallery" /\ ~duty)
    BY DEF AfterTelem
  <2> QED BY <2>1, <2>2, <2>3, <2>4 DEF QueueInv, Keeps, Placed, Quiet, Items, Busy
<1>6. CASE End \/ Post \/ Clear \/ Give \/ Images
  <2>1. Keeps
    BY <1>0, <1>6 DEF End, Post, Clear, Give, Images
  <2>2. UNCHANGED <<duty, item, cpc, rail>>
    BY <1>6 DEF End, Post, Clear, Give, Images, caller
  <2>3. CASE End
    BY <2>1, <2>2, <2>3 DEF QueueInv, Keeps, Placed, Quiet, Items, Busy, End, telem
  <2>4. CASE Post
    BY <2>1, <2>2, <2>4 DEF QueueInv, Keeps, Placed, Quiet, Items, Busy, Post, telem, caller
  <2>5. CASE Clear
    BY <2>1, <2>2, <2>5 DEF QueueInv, Keeps, Placed, Quiet, Items, Busy, Clear, caller
  <2>6. CASE Give
    BY <2>1, <2>2, <2>6 DEF QueueInv, Keeps, Placed, Quiet, Items, Busy, Give, caller
  <2>7. CASE Images
    BY <2>1, <2>2, <2>7 DEF QueueInv, Keeps, Placed, Quiet, Items, Busy, Images, telem, caller
  <2> QED BY <1>6, <2>3, <2>4, <2>5, <2>6, <2>7
<1>7. CASE Defer
  <2>1. CASE pending \/ Busy("telem")
    <3>1. Keeps
      BY <1>0, <1>7, <2>1 DEF Defer
    <3> QED
      BY <1>7, <2>1, <3>1 DEF QueueInv, Keeps, Placed, Quiet, TypeOK, Items, Busy, Defer,
         telem, caller, history
  <2>2. CASE ~(pending \/ Busy("telem"))
    <3>1. Adds("telem")
      BY <1>0, <1>7, <2>2 DEF Defer, Busy, Items
    <3> QED
      BY <1>7, <2>2, <3>1 DEF QueueInv, Adds, Placed, Quiet, TypeOK, Items, Busy, Defer,
         AfterTelem, caller, history
  <2> QED BY <2>1, <2>2
<1>8. CASE DeferGallery
  <2>1. Keeps \/ Adds("gallery")
    BY <1>0, <1>8 DEF DeferGallery, Busy, Items
  <2> QED
    BY <1>8, <2>1 DEF QueueInv, Keeps, Adds, Placed, Quiet, TypeOK, Items, Busy, DeferGallery,
       telem, caller, history
<1>9. CASE UNCHANGED vars
  <2>1. Keeps
    BY <1>0, <1>9 DEF vars
  <2> QED
    BY <1>9, <2>1 DEF QueueInv, Keeps, Placed, Quiet, TypeOK, Items, Busy, vars, telem, caller,
       history
<1> QED
  BY <1>1, <1>2, <1>3, <1>4, <1>5, <1>6, <1>7, <1>8, <1>9 DEF Next, CallerStep, WorkerStep
-----------------------------------------------------------------------------
LEMMA AlwaysQueueInv == Spec => []QueueInv
<1>1. QueueInv /\ [Next]_vars => QueueInv'
  BY StepTypeOK, StepPlaced DEF QueueInv
<1> QED BY InitQueueInv, <1>1, PTL DEF Spec

\* For both builds and any number of passes, no work item is queued twice, although
\* k_work_init forgets that it is queued (eink_http_sync_once, queue_deferred_telem).
THEOREM NoItemIsQueuedTwice == Spec => []QueuedOnce
<1>1. QueueInv => QueuedOnce
  BY DEF QueueInv
<1> QED BY AlwaysQueueInv, <1>1, PTL

\* For any number of passes, the wake transaction drops the radio only when no work
\* that needs it is left (eink_wake_run_once, eink_http_flush_deferred).
THEOREM RadioDropsLast == Spec => []RailDropsLast
<1>1. QueueInv => RailDropsLast
  <2> SUFFICES ASSUME QueueInv, ~rail PROVE queue = <<>> /\ wpc = "idle" /\ ~pending
    BY DEF RailDropsLast
  <2>1. duty /\ cpc = "off" /\ ~pending
    BY DEF QueueInv, Quiet
  <2>2. \A i \in Items : ~Busy(i)
    BY <2>1 DEF QueueInv, Placed, Quiet, Items
  <2>3. wpc = "idle" /\ \A i \in Items : ~Queued(i)
    BY <2>2 DEF QueueInv, TypeOK, Busy
  <2>4. queue = <<>>
    <3>1. ASSUME queue # <<>> PROVE Queued(Head(queue)) /\ Head(queue) \in Items
      BY <3>1, QueueEffect, TailRemoves DEF QueueInv, TypeOK, In, Queued
    <3> QED BY <2>3, <3>1
  <2> QED BY <2>1, <2>3, <2>4
<1> QED BY AlwaysQueueInv, <1>1, PTL

\* For any number of passes, a stored last_sync is the time of a pass whose telemetry
\* the cloud accepted (telem_work_handler).
THEOREM LastSyncPosted == Spec => []LastSyncWasPosted
<1>1. Init => LastSyncWasPosted
  BY DEF Init, LastSyncWasPosted
<1>2. LastSyncWasPosted /\ [Next]_vars => LastSyncWasPosted'
  <2> SUFFICES ASSUME LastSyncWasPosted, [Next]_vars PROVE LastSyncWasPosted'
    OBVIOUS
  <2>1. CASE Post
    BY <2>1 DEF Post, LastSyncWasPosted
  <2>2. CASE InlinePost
    BY <2>2 DEF InlinePost, LastSyncWasPosted
  <2>3. CASE ~Post /\ ~InlinePost
    <3>1. UNCHANGED <<last_sync, posted>>
      BY <2>3, Zenon DEF Next, CallerStep, WorkerStep, Call, Submit, Return, Flush, FlushReturns,
         RailOff, CallerUnchanged, TimerExpires, Take, PassFails, Pass, Defer, DeferGallery, End,
         Clear, Give, Images, history, vars
    <3> QED BY <3>1 DEF LastSyncWasPosted
  <2> QED BY <2>1, <2>2, <2>3
<1> QED BY <1>1, <1>2, PTL DEF Spec

\* For both builds and any number of passes, telemetry that is still pending is never
\* overwritten by a later pass (queue_deferred_telem, telem_work_handler).
THEOREM PendingTelemetryKept == Spec => TelemetryKept
<1>1. [Next]_vars => (pending /\ pending' => tnow' = tnow)
  <2> SUFFICES ASSUME [Next]_vars, pending, pending' PROVE tnow' = tnow
    OBVIOUS
  <2>1. CASE Defer
    BY <2>1 DEF Defer, telem
  <2>2. CASE ~Defer
    BY <2>2, Zenon DEF Next, CallerStep, WorkerStep, Call, Submit, Return, Flush, FlushReturns,
       RailOff, CallerUnchanged, TimerExpires, Take, PassFails, Pass, DeferGallery, End, Post,
       InlinePost, Clear, Give, Images, telem, vars
  <2> QED BY <2>1, <2>2
<1>2. [Next]_vars => [pending /\ pending' => tnow' = tnow]_vars
  BY <1>1
<1> QED BY <1>2, PTL DEF Spec, TelemetryKept

\* For both builds and any number of passes, whoever waits is owed a wake-up and whatever
\* is asked for is queued or running (eink_http_sync_once, eink_http_flush_deferred,
\* queue_deferred_telem, sync_work_handler).
THEOREM NothingIsForgotten == Spec => []NothingForgotten
<1>1. Init => NothingForgotten
  BY QueueOK DEF Init, NothingForgotten
<1>2. QueueInv /\ NothingForgotten /\ [Next]_vars => NothingForgotten'
  <2> SUFFICES ASSUME QueueInv, NothingForgotten, [Next]_vars PROVE NothingForgotten'
    OBVIOUS
  <2> DEFINE Adds(j) == \A i \in Items : Queued(i)' <=> Queued(i) \/ i = j
             Keeps == \A i \in Items : Queued(i)' <=> Queued(i)
  <2>0. /\ \A j \in Items : queue' = Append(queue, j) /\ ~Queued(j) => Adds(j)
        /\ queue' = queue => Keeps
    BY QueueEffect DEF QueueInv
  <2> HIDE DEF Adds, Keeps
  <2>1. CASE Call \/ Return \/ Flush \/ FlushReturns \/ RailOff
    <3>1. Keeps
      BY <2>0, <2>1 DEF Call, Return, Flush, FlushReturns, RailOff
    <3> QED
      BY <2>1, <3>1 DEF NothingForgotten, Keeps, Items, Busy, Call, Return, Flush,
         FlushReturns, RailOff, CallerUnchanged, history
  <2>2. CASE Submit
    <3>1. Adds("once")
      BY <2>0, <2>2 DEF Submit, QueueInv, Placed, Busy, Items
    <3> QED
      BY <2>2, <3>1 DEF NothingForgotten, Adds, Items, Busy, Submit, CallerUnchanged, history
  <2>3. CASE TimerExpires
    <3>1. Adds("sync")
      BY <2>0, <2>3 DEF TimerExpires, QueueInv, Placed, Busy, Items
    <3> QED
      BY <2>3, <3>1 DEF NothingForgotten, Adds, Items, Busy, TimerExpires, telem, caller
  <2>4. CASE Take
    <3>1. /\ Head(queue) \in Items /\ Queued(Head(queue))
          /\ \A i \in Items : Queued(i)' <=> Queued(i) /\ i # Head(queue)
      BY <2>4, QueueEffect DEF Take, QueueInv
    <3>2. /\ wpc = "idle" /\ item' = Head(queue)
          /\ UNCHANGED <<duty, timer, telem, gallery, caller>>
          /\ wpc' = "idle" => item' = "gallery" /\ ~gallery
      BY <2>4 DEF Take
    <3> QED
      BY <3>1, <3>2 DEF NothingForgotten, Items, Busy, telem, caller
  <2>5. CASE PassFails \/ Pass \/ InlinePost
    <3>1. Keeps
      BY <2>0, <2>5 DEF PassFails, Pass, InlinePost
    <3>2. UNCHANGED <<duty, timer, item, pending, telem_done, gallery, once_done, cpc>>
      BY <2>5 DEF PassFails, Pass, InlinePost, telem, caller
    <3>3. wpc # "idle" /\ wpc' # "idle"
      <4>1. CASE PassFails \/ Pass
        BY <4>1 DEF PassFails, Pass
      <4>2. CASE InlinePost
        <5>1. wpc = "inline" /\ (wpc' = AfterTelem \/ wpc' = IF fetched THEN AfterTelem ELSE "pass")
          BY <4>2, Zenon DEF InlinePost
        <5>2. wpc' = AfterTelem \/ wpc' = "pass"
          BY <5>1, Zenon
        <5> QED BY <5>1, <5>2 DEF AfterTelem
      <4> QED BY <2>5, <4>1, <4>2
    <3> QED BY <3>1, <3>2, <3>3 DEF NothingForgotten, Keeps, Items, Busy
  <2>6. CASE End \/ Post \/ Clear \/ Give \/ Images
    <3>1. Keeps
      BY <2>0, <2>6 DEF End, Post, Clear, Give, Images
    <3>2. CASE End
      BY <3>1, <3>2 DEF QueueInv, Placed, NothingForgotten, Keeps, Items, Busy, End, telem
    <3>3. CASE Post
      BY <3>1, <3>3 DEF NothingForgotten, Keeps, Items, Busy, Post, telem, caller
    <3>4. CASE Clear
      BY <3>1, <3>4 DEF NothingForgotten, Keeps, Items, Busy, Clear, caller
    <3>5. CASE Give
      BY <3>1, <3>5 DEF QueueInv, Placed, NothingForgotten, Keeps, Items, Busy, Give, caller
    <3>6. CASE Images
      BY <3>1, <3>6 DEF QueueInv, Placed, NothingForgotten, Keeps, Items, Busy, Images, telem, caller
    <3> QED BY <2>6, <3>2, <3>3, <3>4, <3>5, <3>6
  <2>7. CASE Defer
    <3>1. CASE pending \/ Busy("telem")
      <4>1. Keeps
        BY <2>0, <2>7, <3>1 DEF Defer
      <4> QED
        BY <2>7, <3>1, <4>1 DEF NothingForgotten, Keeps, Items, Busy, Defer, telem, caller
    <3>2. CASE ~(pending \/ Busy("telem"))
      <4>1. Adds("telem")
        BY <2>0, <2>7, <3>2 DEF Defer, Busy, Items
      <4> QED
        BY <2>7, <3>2, <4>1 DEF NothingForgotten, Adds, Items, Busy, Defer, AfterTelem, caller
    <3> QED BY <3>1, <3>2
  <2>8. CASE DeferGallery
    <3>1. CASE queue' = queue /\ (gallery' = gallery \/ ~gallery')
      <4>1. Keeps
        BY <2>0, <3>1
      <4> QED
        BY <2>8, <3>1, <4>1 DEF NothingForgotten, Keeps, Items, Busy, DeferGallery, telem, caller
    <3>2. CASE ~Busy("gallery") /\ queue' = Append(queue, "gallery")
      <4>1. Adds("gallery")
        BY <2>0, <3>2 DEF Busy, Items
      <4> QED
        BY <2>8, <3>2, <4>1 DEF NothingForgotten, Adds, Items, Busy, DeferGallery, telem, caller
    <3> QED BY <2>8, <3>1, <3>2, Zenon DEF DeferGallery
  <2>9. CASE UNCHANGED vars
    <3>1. Keeps
      BY <2>0, <2>9 DEF vars
    <3> QED BY <2>9, <3>1 DEF NothingForgotten, Keeps, Items, Busy, vars, telem, caller
  <2> QED
    BY <2>1, <2>2, <2>3, <2>4, <2>5, <2>6, <2>7, <2>8, <2>9 DEF Next, CallerStep, WorkerStep
<1> QED BY <1>1, <1>2, AlwaysQueueInv, PTL DEF Spec
=============================================================================
