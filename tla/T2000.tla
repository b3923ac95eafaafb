------------------------------- MODULE T2000 --------------------------------
(***************************************************************************)
(* The T2000 display on USB: the host client (eink_t2000_usb.c), its       *)
(* commands (eink_t2000_proto.c) and the threads that give them: main,     *)
(* which probes the panel at boot (eink_panel.c), and the shell.  A        *)
(* command is a script of bulk transfers.  One transfer at a time holds    *)
(* xfer_lock, but nothing holds it from a request to its answer, and a     *)
(* transfer that timed out is dequeued without waiting for its callback.   *)
(*                                                                         *)
(* The display and the USB stack are external: the display does what the   *)
(* scripts rely on, but may answer with no bytes; of a dequeued transfer   *)
(* nothing is known.                                                       *)
(***************************************************************************)
EXTENDS Naturals, Sequences, FiniteSets

CONSTANTS Main,      \* the main thread, which probes the panel at boot
          Shell,     \* the shell's thread
          Indexes,   \* the palette indexes of a fill
          None,      \* no thread, no transfer, no index
          Torn,      \* a picture that is not one solid colour
          Stripes,   \* the stripes of a frame
          Pool,      \* the USB stack's transfers
          MaxFaults, \* bound: timeouts and removals
          MaxGiven   \* bound: commands

Threads == {Main, Shell}

ASSUME T2000OK ==
    /\ Main # Shell /\ None \notin Threads /\ None \notin Indexes /\ Torn \notin Indexes /\ None # Torn
    /\ Stripes \in Nat \ {0} /\ Pool \in Nat \ {0}

VARIABLES
    bound,   \* t2000_priv: the display is attached, its endpoints are known
    lock,    \* xfer_lock
    pool,    \* free transfers
    sem,     \* xfer_done
    err,     \* last_xfer_err
    live,    \* the transfer the controller has for the thread that waits, or None
    late,    \* transfers the controller has though their thread has returned
    op,      \* op[t]: the command of thread t, or None
    step,    \* step[t]: its position in Script(op[t])
    xpc,     \* xpc[t]: where it is in bulk_xfer
    buf,     \* what the open transfer has read, or None
    index,   \* index[t]: the index of its fill, Torn once that has a wrong size
    reply,   \* the display's answer to the last read request
    header,  \* the display expects a stripe
    loaded,  \* the stripes it has
    glass,   \* what it shows
    busy,    \* it is updating the glass
    result,  \* history: the last command that ended, and how
    timeouts, faults, given,  \* history: timeouts; counters for the bounds
    clean    \* history: clean[t]: nothing has interfered with t's command

thread == <<op, step, xpc, index>>
display == <<reply, header, loaded, glass, busy>>
host == <<bound, lock, pool, sem, err, live, buf, late>>
history == <<result, timeouts, faults, given, clean>>
vars == <<host, thread, display, history>>

Status == <<"status", "read status", "in">>
Info == <<"info", "read info", "in">>

\* display_chunk, for each stripe.
Frame == [i \in 1..(2 * Stripes) |-> IF i % 2 = 1 THEN "header" ELSE "stripe"]

Script(o) == CASE o = "info"  -> Info
               [] o = "clear" -> <<"clear">> \o Status
               [] o = "fill"  -> Info \o <<"multi", "mode">> \o Frame \o <<"trigger">> \o Status

Answers == {"info", "busy", "idle"}
Ops == {"info", "clear", "fill"}
Commands == UNION {{Script(o)[i] : i \in DOMAIN Script(o)} : o \in Ops}
Transfers == [cmd : Commands, index : Indexes \union {None, Torn}]

ASSUME NoneIsNew == None \notin Transfers /\ None \notin Ops \union Answers

TypeOK ==
    /\ bound \in BOOLEAN /\ lock \in Threads \union {None} /\ pool \in 0..Pool
    /\ sem \in {0, 1} /\ err \in {"ok", "error"}
    /\ live \in Transfers \union {None} /\ late \subseteq Transfers
    /\ op \in [Threads -> Ops \union {None}] /\ step \in [Threads -> Nat \ {0}]
    /\ xpc \in [Threads -> {"call", "lock", "reset", "enqueue", "wait"}]
    /\ buf \in Answers \union {None}
    /\ index \in [Threads -> Indexes \union {None, Torn}]
    /\ reply \in {"info", "status", None} /\ header \in BOOLEAN
    /\ loaded \in Seq(Indexes \union {Torn}) /\ Len(loaded) <= Stripes + 1
    /\ glass \in Indexes \union {None, Torn} /\ busy \in BOOLEAN
    /\ clean \in [Threads -> BOOLEAN]

Init ==
    /\ bound = FALSE /\ lock = None /\ pool = Pool /\ sem = 0 /\ err = "ok"
    /\ live = None /\ late = {}
    /\ op = [t \in Threads |-> None] /\ step = [t \in Threads |-> 1]
    /\ xpc = [t \in Threads |-> "call"]
    /\ buf = None /\ index = [t \in Threads |-> None]
    /\ reply = None /\ header = FALSE /\ loaded = <<>> /\ glass = None /\ busy = FALSE
    /\ result = [op |-> None, ok |-> FALSE, read |-> None]
    /\ timeouts = 0 /\ faults = 0 /\ given = 0 /\ clean = [t \in Threads |-> TRUE]
-----------------------------------------------------------------------------
(* The commands.                                                           *)

Current(t) == Script(op[t])[step[t]]

\* A command that finds the display: eink_t2000_wait_ready has returned 0.
Give(t, o, i) ==
    /\ op[t] = None /\ bound /\ given < MaxGiven
    /\ t = Main => o = "info"
    /\ op' = [op EXCEPT ![t] = o] /\ step' = [step EXCEPT ![t] = 1]
    /\ index' = [index EXCEPT ![t] = IF o = "fill" THEN i ELSE None]
    /\ given' = given + 1
    /\ LET alone == late = {} /\ \A u \in Threads : op[u] = None
       IN  clean' = [u \in Threads |-> IF u = t THEN alone ELSE FALSE]
    /\ UNCHANGED <<host, xpc, display, result, timeouts, faults>>

End(t, ok, read) ==
    /\ op' = [op EXCEPT ![t] = None] /\ step' = [step EXCEPT ![t] = 1]
    /\ xpc' = [xpc EXCEPT ![t] = "call"]
    /\ result' = [op |-> op[t], ok |-> ok, read |-> read]

Fails(t) == End(t, FALSE, None)

\* eink_t2000_wait_idle while the display is busy: another round, or the deadline.
Rounds(t, read) ==
    IF op[t] # "info" /\ read # "idle" THEN {"again", "deadline"} ELSE {}

\* After a transfer: the next one, the end, or another round.
Proceed(t, read) ==
    IF step[t] < Len(Script(op[t]))
    THEN /\ step' = [step EXCEPT ![t] = @ + 1] /\ xpc' = [xpc EXCEPT ![t] = "call"]
         /\ UNCHANGED <<op, result>>
    ELSE \/ Rounds(t, read) = {} /\ End(t, TRUE, read)
         \/ "deadline" \in Rounds(t, read) /\ Fails(t)
         \/ /\ "again" \in Rounds(t, read)
            /\ step' = [step EXCEPT ![t] = @ - 2] /\ xpc' = [xpc EXCEPT ![t] = "call"]
            /\ UNCHANGED <<op, result>>
-----------------------------------------------------------------------------
(* bulk_xfer.                                                              *)

Call(t) ==
    /\ op[t] # None /\ xpc[t] = "call"
    /\ IF bound THEN xpc' = [xpc EXCEPT ![t] = "lock"] /\ UNCHANGED <<op, step, result>>
                ELSE Fails(t)
    /\ UNCHANGED <<host, index, display, timeouts, faults, given, clean>>

Lock(t) ==
    /\ xpc[t] = "lock" /\ lock = None
    /\ lock' = t
    /\ xpc' = [xpc EXCEPT ![t] = "reset"]
    /\ UNCHANGED <<bound, pool, sem, err, live, buf, late, op, step, index, display, history>>

\* No transfer or no buffer: -ENOMEM.
NoMemory(t) ==
    /\ xpc[t] = "reset"
    /\ lock' = None
    /\ Fails(t)
    /\ UNCHANGED <<bound, pool, sem, err, live, buf, late, index, display, timeouts, faults,
                   given, clean>>

\* Mutant: the pool is not asked.
ResetUnguarded(t) ==
    /\ xpc[t] = "reset"
    /\ pool' = pool - 1
    /\ sem' = 0 /\ err' = "ok" /\ buf' = None
    /\ xpc' = [xpc EXCEPT ![t] = "enqueue"]
    /\ UNCHANGED <<bound, lock, live, late, op, step, index, display, history>>

Reset(t) ==
    /\ xpc[t] = "reset" /\ pool > 0
    /\ pool' = pool - 1
    /\ sem' = 0 /\ err' = "ok" /\ buf' = None
    /\ xpc' = [xpc EXCEPT ![t] = "enqueue"]
    /\ UNCHANGED <<bound, lock, live, late, op, step, index, display, history>>

Enqueue(t) ==
    /\ xpc[t] = "enqueue"
    /\ live' = [cmd |-> Current(t), index |-> index[t]]
    /\ xpc' = [xpc EXCEPT ![t] = "wait"]
    /\ UNCHANGED <<bound, lock, pool, sem, err, buf, late, op, step, index, display, history>>

\* Mutant: the error path forgets the transfer.
EnqueueFailsLeaking(t) ==
    /\ xpc[t] = "enqueue"
    /\ lock' = None
    /\ Fails(t)
    /\ UNCHANGED <<bound, pool, sem, err, live, buf, late, index, display, timeouts, faults,
                   given, clean>>

\* Mutant: the error path forgets the lock.
EnqueueFailsLocked(t) ==
    /\ xpc[t] = "enqueue"
    /\ pool' = pool + 1
    /\ Fails(t)
    /\ UNCHANGED <<bound, lock, sem, err, live, buf, late, index, display, timeouts, faults,
                   given, clean>>

EnqueueFails(t) ==
    /\ xpc[t] = "enqueue"
    /\ pool' = pool + 1 /\ lock' = None
    /\ Fails(t)
    /\ UNCHANGED <<bound, sem, err, live, buf, late, index, display, timeouts, faults, given,
                   clean>>

\* Mutant: the transfer's error is ignored.
SucceededAlways == TRUE

Succeeded == err = "ok"

\* What the caller finds in its buffer: nothing read leaves what was on its stack.
Read(t) == IF Current(t) # "in" THEN {None} ELSE IF buf = None THEN Answers ELSE {buf}

\* So a fill may take its size from there.
Unsized(t) == op[t] = "fill" /\ step[t] = Len(Info) /\ buf = None

\* No size is -EINVAL.  Another size than the display's makes another number of stripes,
\* and a picture that is not solid, which stands here for it.
GoOn(t) ==
    \/ Unsized(t) /\ Fails(t) /\ UNCHANGED index
    \/ /\ \E read \in Read(t) : Proceed(t, read)
       /\ index' \in {index} \union (IF Unsized(t) THEN {[index EXCEPT ![t] = Torn]} ELSE {})

\* The semaphore is given, by whatever callback: the transfer is freed, though the
\* controller may still have it.
Done(t) ==
    /\ xpc[t] = "wait" /\ sem = 1
    /\ sem' = 0 /\ pool' = pool + 1 /\ lock' = None
    /\ live' = None /\ late' = IF live = None THEN late ELSE late \union {live}
    /\ IF Succeeded THEN GoOn(t) ELSE Fails(t) /\ UNCHANGED index
    /\ UNCHANGED <<bound, err, buf, display, timeouts, faults, given, clean>>

\* 20 s have passed: dequeued, not freed.
TimesOut(t) ==
    /\ xpc[t] = "wait" /\ sem = 0 /\ faults < MaxFaults
    /\ lock' = None
    /\ live' = None /\ late' = IF live = None THEN late ELSE late \union {live}
    /\ timeouts' = timeouts + 1 /\ faults' = faults + 1
    /\ Fails(t)
    /\ UNCHANGED <<bound, pool, sem, err, buf, index, display, given, clean>>

Thread(t) == \/ Call(t) \/ Lock(t) \/ NoMemory(t) \/ Reset(t) \/ Enqueue(t)
             \/ EnqueueFails(t) \/ Done(t) \/ TimesOut(t)
-----------------------------------------------------------------------------
(* The display, and the callback t2000_xfer_cb.                            *)

Solid(i) == [k \in 1..Stripes |-> i]

Picture == IF \E i \in Indexes : loaded = Solid(i) THEN loaded[1] ELSE Torn

Load(x) ==
    /\ header' = FALSE
    /\ loaded' = IF Len(loaded) > Stripes THEN loaded
                 ELSE Append(loaded, IF x.cmd = "stripe" THEN x.index ELSE Torn)
    /\ UNCHANGED <<reply, glass, busy>>

Obey(c) ==
    /\ reply' = IF c = "read info" THEN "info" ELSE IF c = "read status" THEN "status" ELSE reply
    /\ header' = (c = "header")
    /\ loaded' = IF c \in {"multi", "trigger", "clear"} THEN <<>> ELSE loaded
    /\ glass' = IF c = "trigger" THEN Picture ELSE IF c = "clear" THEN None ELSE glass
    /\ busy' = (busy \/ c \in {"trigger", "clear"})

\* The display takes transfer x, or answers it.
Carry(x) ==
    IF x.cmd = "in"
    THEN /\ reply # None
         /\ reply' = None
         /\ UNCHANGED <<header, loaded, glass, busy>>
    ELSE IF header THEN Load(x) ELSE Obey(x.cmd)

Answered == IF reply = "info" THEN "info" ELSE IF busy THEN "busy" ELSE "idle"

Callback(e) == err' = e /\ sem' = 1

Complete ==
    /\ live # None
    /\ live' = None
    /\ \/ /\ bound /\ Carry(live) /\ Callback("ok")
          /\ buf' \in IF live.cmd = "in" THEN {Answered, None} ELSE {None}
       \/ Callback("error") /\ UNCHANGED <<buf, display>>
    /\ UNCHANGED <<bound, lock, pool, late, op, step, xpc, index, history>>

\* A dequeued transfer is cancelled at once, completes later, or is cancelled later.
CompleteLate(x) ==
    /\ x \in late
    /\ late' = late \ {x}
    /\ \/ UNCHANGED <<sem, err, display>>
       \/ bound /\ Carry(x) /\ Callback("ok")
       \/ Callback("error") /\ UNCHANGED display
    /\ clean' = [t \in Threads |-> FALSE]
    /\ UNCHANGED <<bound, lock, pool, live, buf, op, step, xpc, index, result, timeouts, faults, given>>

Settle ==
    /\ busy
    /\ busy' = FALSE
    /\ UNCHANGED <<host, thread, reply, header, loaded, glass, history>>

\* t2000_class_probe.
Attach ==
    /\ ~bound
    /\ bound' = TRUE
    /\ UNCHANGED <<lock, pool, sem, err, live, buf, late, thread, display, history>>

\* t2000_class_removed; the display restarts.
Detach ==
    /\ bound /\ faults < MaxFaults
    /\ bound' = FALSE
    /\ reply' = None /\ header' = FALSE /\ loaded' = <<>> /\ busy' = FALSE
    /\ faults' = faults + 1
    /\ clean' = [t \in Threads |-> FALSE]
    /\ UNCHANGED <<lock, pool, sem, err, live, buf, late, thread, glass, result, timeouts, given>>

Usb == Complete \/ Settle \/ Attach \/ Detach \/ \E x \in late : CompleteLate(x)

Next == Usb \/ \E t \in Threads : Thread(t) \/ \E o \in Ops, i \in Indexes : Give(t, o, i)

\* The last transfer of a command, which ends it when the deadline has passed.
Expires(t) == Done(t) /\ op'[t] = None

\* The threads are scheduled, the mutex queues its waiters, a wait's deadline passes; a
\* transfer completes or fails; an update of the glass ends.
Fairness ==
    /\ \A t \in Threads : WF_vars(Thread(t)) /\ SF_vars(Lock(t)) /\ SF_vars(Expires(t))
    /\ WF_vars(Complete) /\ WF_vars(Settle)

Spec == Init /\ [][Next]_vars /\ Fairness
-----------------------------------------------------------------------------
(* Properties.                                                             *)

\* Whatever goes wrong, only a timeout costs a transfer of the USB stack's pool: every
\* other way out of bulk_xfer frees what it allocated.
OnlyTimeoutsLoseTransfers ==
    pool + timeouts
      + (IF \E t \in Threads : xpc[t] \in {"enqueue", "wait"} THEN 1 ELSE 0) = Pool

\* A fill that reports success has put its index on all of the glass, if nothing has
\* interfered (no other thread's command, no removal, no callback of a dequeued transfer)
\* and the display has told its size.
FillIsSolid ==
    [][\A t \in Threads :
        op[t] = "fill" /\ op'[t] = None /\ result'.ok /\ clean[t] /\ index[t] # Torn
        => glass = index[t]]_vars

\* Every command ends, though transfers fail, time out or complete late, the display is
\* removed and the pool runs dry: no way out of bulk_xfer keeps xfer_lock.
CommandsEnd == \A t \in Threads : op[t] # None ~> op[t] = None
=============================================================================
