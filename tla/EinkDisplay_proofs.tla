------------------------- MODULE EinkDisplay_proofs -------------------------
(***************************************************************************)
(* Proofs about EinkDisplay for any threads, priorities, jobs and bounds.  *)
(***************************************************************************)
EXTENDS EinkDisplay, TLAPS

\* What makes the properties inductive: a thread issues commands in its own name,
\* a thread about to submit is the one whose command is pending and unscheduled,
\* and the worker holds a command whenever it is busy.
Ownership ==
    /\ \A c \in Callers : pc[c] # "idle" => op[c] \in Command /\ op[c].by = c
    /\ \A c \in Callers : pc[c] = "submit" => pending # None /\ pending.by = c /\ ~work
    /\ wpc # "idle" => cmd \in Command

IInv == TypeOK /\ Ownership /\ PanelExclusive /\ NotStranded

USE DEF Goto, Waiting, Results, Kinds

\* Nothing is outstanding when the service starts.
LEMMA InitIInv == Init => IInv
<1> SUFFICES ASSUME Init PROVE IInv
    OBVIOUS
<1>1. TypeOK
  BY ConstantsOK DEF Init, TypeOK
<1>2. Ownership /\ NotStranded
  BY DEF Init, Ownership, NotStranded
<1>3. PanelExclusive
  <2>1. slotBusy = FALSE /\ pending = None /\ wpc = "idle" /\ state = "IDLE"
    BY DEF Init
  <2> QED BY <2>1 DEF PanelExclusive
<1> QED BY <1>1, <1>2, <1>3 DEF IInv

\* Every step keeps the invariant.
LEMMA StepIInv == IInv /\ [Next]_vars => IInv'
<1> SUFFICES ASSUME IInv, [Next]_vars PROVE IInv'
    OBVIOUS
<1>0. build' = build
  BY DEF Next, CallerStep, WorkerStep, Environment, vars
<1> USE ConstantsOK, NoneIsNoCommand, <1>0
<1>1. ASSUME NEW c \in Callers, NEW k \in Kinds, NEW j \in Jobs \union {None}, Begin(c, k, j)
      PROVE IInv'
  <2> DEFINE new == [by |-> c, kind |-> k, job |-> j, advance |-> j # last_job]
  <2>1. new \in Command /\ new.by = c
    BY DEF Command
  <2> HIDE DEF new
  <2>2. /\ op' = [op EXCEPT ![c] = new] /\ pc' = [pc EXCEPT ![c] = "queue"]
        /\ pc[c] = "idle" /\ begun' = begun + 1
        /\ UNCHANGED <<service, worker, last_job, outcome>>
    BY <1>1 DEF Begin, new
  <2> QED
    BY <2>1, <2>2
       DEF IInv, TypeOK, Ownership, PanelExclusive, NotStranded, service, worker
<1>2. ASSUME NEW c \in Callers, QueueBusy(c) PROVE IInv'
  BY <1>2 DEF QueueBusy, IInv, TypeOK, Ownership, PanelExclusive, NotStranded, service, worker
<1>3. ASSUME NEW c \in Callers, Queue(c) PROVE IInv'
  <2>1. /\ pending = None /\ state # "REFRESHING" /\ pc[c] = "queue"
        /\ op[c] \in Command /\ op[c].by = c /\ op[c] # None
    BY <1>3 DEF Queue, Busy, IInv, Ownership
  <2>2. \A d \in Callers : pc[d] # "submit"
    BY <2>1 DEF IInv, Ownership
  <2>3. ~work /\ wpc # "paint" /\ ~slotBusy
    BY <2>1 DEF IInv, NotStranded, PanelExclusive
  <2>4. TypeOK'
    BY <1>3, <2>1 DEF Queue, IInv, TypeOK, worker
  <2>5. Ownership'
    BY <1>3, <2>1, <2>2, <2>3 DEF Queue, IInv, TypeOK, Ownership, worker
  <2>6. PanelExclusive' /\ NotStranded'
    BY <1>3, <2>1, <2>3 DEF Queue, IInv, TypeOK, PanelExclusive, NotStranded, worker
  <2> QED BY <2>4, <2>5, <2>6 DEF IInv
<1>4. ASSUME NEW c \in Callers, Submit(c) PROVE IInv'
  BY <1>4 DEF Submit, AfterSubmit, IInv, TypeOK, Ownership, PanelExclusive, NotStranded, service
<1>5. ASSUME NEW c \in Callers, TakeToken(c) PROVE IInv'
  <2>1. /\ sem' \in {0, 1}
        /\ pc' \in {[pc EXCEPT ![c] = "status"], [pc EXCEPT ![c] = "wait"]}
        /\ pc[c] = "take"
        /\ UNCHANGED <<state, lastResult, lastJobId, pending, slotBusy, worker, op, last_job,
                       outcome, begun>>
    BY <1>5 DEF TakeToken, IInv, TypeOK
  <2>2. TypeOK'
    BY <2>1 DEF IInv, TypeOK, worker
  <2>3. Ownership'
    BY <2>1 DEF IInv, TypeOK, Ownership, worker
  <2>5. pending # None => pending.by \in Callers
    BY DEF IInv, TypeOK, Command
  <2>6. NotStranded'
    BY <2>1, <2>5 DEF IInv, TypeOK, NotStranded, worker
  <2>4. PanelExclusive'
    BY <2>1 DEF IInv, PanelExclusive, worker
  <2> QED BY <2>2, <2>3, <2>4, <2>6 DEF IInv
<1>6. ASSUME NEW c \in Callers, WaitExpires(c) PROVE IInv'
  BY <1>6 DEF WaitExpires, IInv, TypeOK, Ownership, PanelExclusive, NotStranded, service, worker
<1>7. ASSUME NEW c \in Callers, ReadStatus(c) PROVE IInv'
  BY <1>7 DEF ReadStatus, IInv, TypeOK, Ownership, PanelExclusive, NotStranded, service, worker
<1>8. ASSUME NEW c \in Callers, Advance(c) PROVE IInv'
  BY <1>8 DEF Advance, IInv, TypeOK, Ownership, PanelExclusive, NotStranded, service, worker,
              Command
<1>9. ASSUME Take PROVE IInv'
  BY <1>9 DEF Take, IInv, TypeOK, Ownership, PanelExclusive, NotStranded, service
<1>10. ASSUME NEW r \in Results, Paint(r) PROVE IInv'
  <2>1. cmd \in Command /\ pending = None
    BY <1>10 DEF Paint, IInv, Ownership, PanelExclusive
  <2>2. TypeOK'
    BY <1>10, <2>1 DEF Paint, IInv, TypeOK, Command
  <2>3. Ownership' /\ NotStranded'
    BY <1>10, <2>1 DEF Paint, IInv, Ownership, NotStranded
  <2>4. PanelExclusive'
    <3>1. /\ wpc = "paint" /\ wpc' \in {"record", "set_idle"}
          /\ UNCHANGED <<state, pending>>
          /\ slotBusy' = (slotBusy /\ cmd.kind # "payload")
      BY <1>10 DEF Paint
    <3>2. state = "REFRESHING" /\ (slotBusy <=> cmd.kind = "payload")
      BY <2>1, <3>1, NoneIsNoCommand DEF IInv, PanelExclusive
    <3>3. ~slotBusy'
      BY <3>1, <3>2
    <3> QED
      BY <2>1, <3>1, <3>2, <3>3 DEF PanelExclusive
  <2> QED BY <2>2, <2>3, <2>4 DEF IInv
<1>11. ASSUME RecordJob PROVE IInv'
  <2>1. cmd.job \in Jobs \union {None}
    BY <1>11 DEF RecordJob, IInv, Ownership, Command
  <2> QED
    BY <1>11, <2>1 DEF RecordJob, IInv, TypeOK, Ownership, PanelExclusive, NotStranded
<1>12. ASSUME SetIdle PROVE IInv'
  BY <1>12 DEF SetIdle, IInv, TypeOK, Ownership, PanelExclusive, NotStranded
<1>13. ASSUME Give PROVE IInv'
  <2>1. /\ wpc = "give" /\ wpc' = "idle" /\ sem' \in {0, 1}
        /\ \/ pc' = pc
           \/ \E c \in Callers : pc[c] = "wait" /\ pc' = [pc EXCEPT ![c] = "status"]
        /\ UNCHANGED <<state, lastResult, lastJobId, pending, slotBusy, work, cmd, ret, op,
                       last_job, outcome, begun>>
    BY <1>13 DEF Give, IInv, TypeOK
  <2>2. pending # None => pending.by \in Callers
    BY DEF IInv, TypeOK, Command
  <2>3. TypeOK'
    BY <2>1 DEF IInv, TypeOK
  <2>4. Ownership'
    BY <2>1 DEF IInv, TypeOK, Ownership
  <2>5. PanelExclusive'
    BY <2>1 DEF IInv, PanelExclusive
  <2>6. NotStranded'
    BY <2>1, <2>2 DEF IInv, TypeOK, NotStranded
  <2> QED BY <2>3, <2>4, <2>5, <2>6 DEF IInv
<1>14. CASE UNCHANGED vars
  BY <1>14 DEF vars, service, worker, IInv, TypeOK, Ownership, PanelExclusive, NotStranded
<1> QED
  BY <1>1, <1>2, <1>3, <1>4, <1>5, <1>6, <1>7, <1>8, <1>9, <1>10, <1>11, <1>12, <1>13, <1>14
     DEF Next, CallerStep, WorkerStep, Environment

\* The inductive invariant holds in every reachable state.
THEOREM Invariance == Spec => []IInv
BY InitIInv, StepIInv, PTL DEF Spec

\* The variables of the display service always have their types.
THEOREM TypeCorrect == Spec => []TypeOK
BY Invariance, PTL DEF IInv

\* Exactly one command drives the panel at a time, and its payload slot is held
\* from acceptance to the end of its refresh.
THEOREM PanelIsExclusive == Spec => []PanelExclusive
BY Invariance, PTL DEF IInv

\* An accepted command always has a handler run coming.
THEOREM NeverStranded == Spec => []NotStranded
BY Invariance, PTL DEF IInv
-----------------------------------------------------------------------------
(* The service implements PanelService: its liveness is left to TLC.       *)

\* A step that touches neither the pending slot, nor the worker, nor the published
\* result is a stuttering step of the abstract service.
LEMMA Stutter ==
  ASSUME UNCHANGED <<pending, cmd, lastResult>>,
         wpc' = wpc \/ {wpc, wpc'} \cap {"paint", "record", "set_idle"} = {}
                   \/ {wpc, wpc'} \subseteq {"paint", "record", "set_idle"}
  PROVE  UNCHANGED Abstract!vars
BY DEF Abstract!vars, Outstanding

\* Acceptance happens in queue_cmd, completion in set_idle; every other step of the
\* threads and of the worker is invisible.
LEMMA StepRefines == IInv /\ [Next]_vars => [Abstract!Next]_Abstract!vars
<1> SUFFICES ASSUME IInv, [Next]_vars PROVE [Abstract!Next]_Abstract!vars
    OBVIOUS
<1>1. ASSUME NEW c \in Callers, Queue(c) PROVE Abstract!Next
  <2>1. op[c] \in Command /\ op[c] # None
    BY <1>1, NoneIsNoCommand DEF Queue, IInv, Ownership
  <2>2. pending = None /\ pending' = op[c] /\ lastResult' = lastResult
    BY <1>1 DEF Queue, Busy
  <2>3. Outstanding = None
    BY <1>1, <2>2 DEF Queue, Busy, IInv, PanelExclusive, Outstanding
  <2>4. Outstanding' = op[c]
    BY <2>1, <2>2 DEF Outstanding
  <2> QED
    BY <2>1, <2>2, <2>3, <2>4 DEF Abstract!Next, Abstract!Accept
<1>2. ASSUME SetIdle PROVE Abstract!Next
  <2>1. /\ wpc = "set_idle" /\ wpc' = "give" /\ ret \in Results /\ lastResult' = ret
        /\ UNCHANGED <<pending, cmd>> /\ pending = None /\ cmd \in Command
    BY <1>2 DEF SetIdle, IInv, TypeOK, Ownership, PanelExclusive
  <2>2. Outstanding # None /\ Outstanding' = None
    BY <2>1, NoneIsNoCommand DEF Outstanding
  <2> QED
    BY <2>1, <2>2 DEF Abstract!Next, Abstract!Complete
<1>3. ASSUME Take PROVE UNCHANGED Abstract!vars
  <2>1. CASE pending = None
    BY <1>3, <2>1, Stutter DEF Take, service
  <2>2. CASE pending # None
    <3>1. /\ wpc = "idle" /\ wpc' = "paint" /\ cmd' = pending /\ pending' = None
          /\ lastResult' = lastResult
      BY <1>3, <2>2 DEF Take
    <3> QED
      BY <2>2, <3>1 DEF Abstract!vars, Outstanding
  <2> QED BY <2>1, <2>2
<1>4. ASSUME NEW r \in Results, Paint(r) PROVE UNCHANGED Abstract!vars
  BY <1>4, Stutter DEF Paint
<1>5. CASE RecordJob
  BY <1>5, Stutter DEF RecordJob
<1>6. CASE Give
  BY <1>6, Stutter DEF Give
<1>7. ASSUME NEW c \in Callers,
             \/ \E k \in Kinds, j \in Jobs \union {None} : Begin(c, k, j)
             \/ QueueBusy(c) \/ Submit(c) \/ TakeToken(c) \/ ReadStatus(c)
             \/ Advance(c) \/ WaitExpires(c)
      PROVE UNCHANGED Abstract!vars
  <2>1. UNCHANGED <<pending, cmd, lastResult, wpc>>
    BY <1>7 DEF Begin, QueueBusy, Submit, TakeToken, ReadStatus, Advance, WaitExpires,
                service, worker
  <2> QED BY <2>1, Stutter
<1>8. CASE UNCHANGED vars
  BY <1>8, Stutter DEF vars, service, worker
<1> QED
  BY <1>1, <1>2, <1>3, <1>4, <1>5, <1>6, <1>7, <1>8 DEF Next, CallerStep, WorkerStep, Environment

\* The safety part of ImplementsPanelService: commands are accepted one at a time
\* and each accepted command is completed exactly once, whatever the threads do.
THEOREM RefinesPanelService == Spec => Abstract!Init /\ [][Abstract!Next]_Abstract!vars
<1>1. Init => Abstract!Init
  BY DEF Init, Abstract!Init, Outstanding
<1> QED
  BY <1>1, Invariance, StepRefines, PTL DEF Spec
-----------------------------------------------------------------------------
(* A show reports its own paint, in builds where no thread that issues     *)
(* commands is more urgent than the worker, and threads more urgent than a *)
(* waiting one wait too, for refreshes that end within the two minutes.    *)

WaitersFit ==
    \A b \in Builds, c, d \in Callers :
        ~b.fire /\ "show_job" \in b.ops[c] /\ b.ops[d] # {} =>
            /\ WorkerPrio < Prio[d]
            /\ Prio[d] < Prio[c] => b.ops[d] = {"show_job"} /\ ~b.slow

\* Threads issue what the build lets them, and only a show waits.
Issued ==
    \A c \in Callers :
        /\ pc[c] # "idle" => op[c].kind \in build.ops[c]
        /\ pc[c] \in {"take", "wait", "status"} => op[c].kind = "show_job" /\ ~build.fire

\* The panel's result is the one of its command, and bad if that thread never blocked.
Outcomes ==
    wpc \in {"record", "set_idle"} =>
        /\ outcome[cmd.by] = ret
        /\ pc[cmd.by] \in {"submit", "take"} => ret = "error"

Waited == ~build.fire /\ \E c \in Callers : "show_job" \in build.ops[c]

\* Where somebody waits, the token announces that nothing is in progress.
Token ==
    Waited => /\ wpc = "give" => pending = None
              /\ sem = 1 => pending = None /\ wpc = "idle"

\* The command of c is accepted and its result is not published.
Own(c) == \/ pending # None /\ pending.by = c
          \/ wpc \in {"paint", "record", "set_idle"} /\ cmd.by = c

\* What get_status says now or after the next publication is true of c's refresh.
Told(c) ==
    lastResult = "ok" \/ (wpc \in {"record", "set_idle"} /\ ret = "ok") => outcome[c] = "ok"

\* A more urgent thread has taken over before c took its token.
Overtaken(c) ==
    \E d \in Callers : Own(d) /\ Prio[d] < Prio[c] /\ pc[d] \in {"submit", "take", "wait"}

Taking(c) == Told(c) /\ ((pending = None /\ wpc \in {"idle", "give"}) \/ Overtaken(c))

Blocked(c) ==
    \/ pending = None /\ wpc = "idle"
    \/ wpc = "give" /\ Told(c)
    \/ wpc = "give" /\ Prio[cmd.by] < Prio[c] /\ pc[cmd.by] = "wait"
    \/ Overtaken(c)

ShowInv ==
    \A c \in Callers :
        /\ pc[c] = "take" /\ ~Own(c) => Taking(c)
        /\ pc[c] = "wait" /\ ~Own(c) => Blocked(c)
        /\ pc[c] = "status" => Told(c) /\ ~Own(c)
        /\ pc[c] = "advance" /\ ~build.fire => outcome[c] = "ok" /\ ~Own(c)

ReportInv == Issued /\ Outcomes /\ Token /\ ShowInv

\* What the builds say of the threads in a call.
LEMMA Fits ==
  ASSUME WaitersFit, IInv, Issued,
         NEW c \in Callers, pc[c] \in {"take", "wait", "status"} \/ Waited,
         NEW d \in Callers, pc[d] # "idle"
  PROVE  /\ ~build.fire /\ WorkerPrio < Prio[d]
         /\ pc[c] \in {"take", "wait", "status"} /\ Prio[d] < Prio[c] =>
              build.ops[d] = {"show_job"} /\ ~build.slow /\ op[d].kind = "show_job"
<1>1. build \in Builds
  BY DEF IInv, TypeOK
<1>2. op[d].kind \in build.ops[d]
  BY DEF Issued
<1>3. PICK e \in Callers : /\ ~build.fire /\ "show_job" \in build.ops[e]
                           /\ pc[c] \in {"take", "wait", "status"} => e = c
  <2>1. CASE pc[c] \in {"take", "wait", "status"}
    BY <2>1, Zenon DEF Issued
  <2>2. CASE pc[c] \notin {"take", "wait", "status"}
    BY <2>2 DEF Waited
  <2> QED BY <2>1, <2>2
<1>4. WorkerPrio < Prio[d] /\ (Prio[d] < Prio[e] => build.ops[d] = {"show_job"} /\ ~build.slow)
  BY <1>1, <1>2, <1>3, Zenon DEF WaitersFit
<1> QED BY <1>2, <1>3, <1>4

\* Kinds of commands are chosen when they begin.
LEMMA StepIssued == IInv /\ Issued /\ [Next]_vars => Issued'
<1> SUFFICES ASSUME IInv, Issued, [Next]_vars, NEW c \in Callers
             PROVE /\ pc'[c] # "idle" => op'[c].kind \in build.ops[c]
                   /\ pc'[c] \in {"take", "wait", "status"} => op'[c].kind = "show_job" /\ ~build.fire
  BY DEF Issued, Next, CallerStep, WorkerStep, Environment, vars
<1>0. /\ pc \in [Callers -> {"idle", "queue", "submit", "take", "wait", "status", "advance"}]
      /\ op \in [Callers -> Command \union {None}]
      /\ pc[c] # "idle" => op[c].kind \in build.ops[c]
      /\ pc[c] \in {"take", "wait", "status"} => op[c].kind = "show_job" /\ ~build.fire
  BY DEF IInv, TypeOK, Issued
<1>1. ASSUME op'[c] = op[c], \/ pc'[c] \in {pc[c], "idle"}
                             \/ pc[c] \in {"take", "wait"} /\ pc'[c] \in {"wait", "status"}
                             \/ pc[c] # "idle" /\ pc'[c] \in {"submit", "advance"}
                             \/ pc[c] # "idle" /\ pc'[c] = AfterSubmit(c)
      PROVE  /\ pc'[c] # "idle" => op'[c].kind \in build.ops[c]
             /\ pc'[c] \in {"take", "wait", "status"} => op'[c].kind = "show_job" /\ ~build.fire
  <2>1. AfterSubmit(c) \in {"idle", "take", "advance"}
        /\ (AfterSubmit(c) = "take" => op[c].kind = "show_job" /\ ~build.fire)
    BY DEF AfterSubmit, FireAndForget
  <2> QED BY <1>0, <1>1, <2>1
<1>2. ASSUME NEW d \in Callers, NEW k \in Kinds, NEW j \in Jobs \union {None}, Begin(d, k, j)
      PROVE  /\ pc'[c] # "idle" => op'[c].kind \in build.ops[c]
             /\ pc'[c] \in {"take", "wait", "status"} => op'[c].kind = "show_job" /\ ~build.fire
  <2>1. CASE c = d
    BY <1>0, <1>2, <2>1 DEF Begin
  <2>2. CASE c # d
    BY <1>0, <1>1, <1>2, <2>2 DEF Begin
  <2> QED BY <2>1, <2>2
<1>3. ASSUME NEW d \in Callers, QueueBusy(d) \/ Queue(d)
      PROVE  op'[c] = op[c] /\ (pc'[c] \in {pc[c], "idle"} \/ (pc[c] # "idle" /\ pc'[c] = "submit"))
  BY <1>0, <1>3 DEF QueueBusy, Queue
<1>4. ASSUME NEW d \in Callers, Submit(d)
      PROVE  op'[c] = op[c] /\ (pc'[c] = pc[c] \/ (pc[c] # "idle" /\ pc'[c] = AfterSubmit(c)))
  BY <1>0, <1>4 DEF Submit
<1>5. ASSUME NEW d \in Callers, TakeToken(d) \/ WaitExpires(d)
      PROVE  op'[c] = op[c] /\ \/ pc'[c] \in {pc[c], "idle"}
                               \/ pc[c] = "take" /\ pc'[c] \in {"wait", "status"}
  BY <1>0, <1>5 DEF TakeToken, WaitExpires
<1>6. ASSUME NEW d \in Callers, ReadStatus(d) \/ Advance(d)
      PROVE  op'[c] = op[c] /\ (pc'[c] \in {pc[c], "idle"} \/ (pc[c] # "idle" /\ pc'[c] = "advance"))
  BY <1>0, <1>6 DEF ReadStatus, Advance
<1>7. ASSUME Give PROVE op'[c] = op[c] /\ (pc'[c] = pc[c] \/ (pc[c] = "wait" /\ pc'[c] = "status"))
  BY <1>0, <1>7 DEF Give
<1>8. ASSUME Take \/ RecordJob \/ SetIdle \/ (\E r \in Results : Paint(r)) \/ UNCHANGED vars
      PROVE  op'[c] = op[c] /\ pc'[c] = pc[c]
  BY <1>8 DEF Take, RecordJob, SetIdle, Paint, vars
<1> QED
  BY <1>1, <1>2, <1>3, <1>4, <1>5, <1>6, <1>7, <1>8, Zenon
     DEF Next, CallerStep, WorkerStep, Environment

\* Paint sets result and outcome together, and succeeds only while no thread is ready.
LEMMA StepOutcomes == IInv /\ Outcomes /\ [Next]_vars => Outcomes'
<1> SUFFICES ASSUME IInv, Outcomes, [Next]_vars PROVE Outcomes'
    OBVIOUS
<1>0. /\ pc \in [Callers -> {"idle", "queue", "submit", "take", "wait", "status", "advance"}]
      /\ outcome \in [Callers -> Results \union {None}]
      /\ wpc # "idle" => cmd.by \in Callers
  BY DEF IInv, TypeOK, Ownership, Command
<1>1. ASSUME UNCHANGED <<wpc, cmd, ret, outcome>>,
             \A d \in Callers : pc'[d] \in {"submit", "take"} => pc[d] \in {"submit", "take"}
      PROVE  Outcomes'
  BY <1>0, <1>1 DEF Outcomes
<1>2. ASSUME NEW c \in Callers, Queue(c) PROVE Outcomes'
  <2>1. wpc' = wpc /\ wpc \notin {"record", "set_idle"}
    BY <1>2 DEF Queue, Busy, IInv, PanelExclusive, worker
  <2> QED BY <2>1 DEF Outcomes
<1>3. ASSUME NEW c \in Callers,
             \/ \E k \in Kinds, j \in Jobs \union {None} : Begin(c, k, j)
             \/ QueueBusy(c) \/ Submit(c) \/ TakeToken(c) \/ ReadStatus(c) \/ Advance(c)
             \/ WaitExpires(c)
      PROVE  Outcomes'
  <2>1. UNCHANGED <<wpc, cmd, ret, outcome>>
    BY <1>3 DEF Begin, QueueBusy, Submit, TakeToken, ReadStatus, Advance, WaitExpires, worker
  <2>2. \A d \in Callers : pc'[d] \in {"submit", "take"} => pc[d] \in {"submit", "take"}
    BY <1>0, <1>3 DEF Begin, QueueBusy, Submit, TakeToken, ReadStatus, Advance, WaitExpires
  <2> QED BY <1>1, <2>1, <2>2
<1>4. ASSUME NEW r \in Results, Paint(r) PROVE Outcomes'
  <2>1. /\ cmd' = cmd /\ cmd.by \in Callers /\ pc' = pc /\ ret' = r
        /\ outcome' = [outcome EXCEPT ![cmd.by] = r]
        /\ r = "ok" => \A c \in Callers : ~Ready(c)
    BY <1>0, <1>4 DEF Paint
  <2>2. outcome'[cmd.by] = r
    BY <1>0, <2>1
  <2>3. pc[cmd.by] \in {"submit", "take"} => r = "error"
    BY <2>1 DEF Ready
  <2> QED BY <2>1, <2>2, <2>3 DEF Outcomes
<1>5. CASE RecordJob
  BY <1>5 DEF RecordJob, Outcomes
<1>6. CASE Take \/ SetIdle \/ Give
  <2>1. wpc' \in {"paint", "give", "idle"} \/ UNCHANGED <<wpc, cmd, ret, outcome, pc>>
    BY <1>6 DEF Take, SetIdle, Give
  <2> QED BY <2>1 DEF Outcomes
<1>7. CASE UNCHANGED vars
  BY <1>7 DEF vars, worker, Outcomes
<1> QED
  BY <1>2, <1>3, <1>4, <1>5, <1>6, <1>7 DEF Next, CallerStep, WorkerStep, Environment

\* The token is taken back by each new command, which nobody accepts before it is given.
LEMMA StepToken == WaitersFit /\ IInv /\ Issued /\ Token /\ [Next]_vars => Token'
<1> SUFFICES ASSUME WaitersFit, IInv, Issued, Token, [Next]_vars, Waited
             PROVE /\ wpc' = "give" => pending' = None
                   /\ sem' = 1 => pending' = None /\ wpc' = "idle"
  BY DEF Token, Waited, Next, CallerStep, WorkerStep, Environment, vars
<1>0. /\ wpc = "give" => pending = None
      /\ sem = 1 => pending = None /\ wpc = "idle"
  BY DEF Token
<1>1. ASSUME NEW c \in Callers, Queue(c) PROVE sem' = 0 /\ wpc' = wpc /\ wpc # "give"
  <2>1. pc[c] = "queue" /\ CallerRuns(c) /\ sem' = 0 /\ wpc' = wpc
    BY <1>1 DEF Queue, worker
  <2>2. WorkerPrio < Prio[c]
    BY <2>1, Fits
  <2> QED BY <2>1, <2>2 DEF CallerRuns, WorkerReady
<1>2. ASSUME NEW c \in Callers,
             \/ \E k \in Kinds, j \in Jobs \union {None} : Begin(c, k, j)
             \/ QueueBusy(c) \/ Submit(c) \/ TakeToken(c) \/ ReadStatus(c) \/ Advance(c)
             \/ WaitExpires(c)
      PROVE  UNCHANGED <<pending, wpc>> /\ sem' \in {0, sem}
  BY <1>2 DEF Begin, QueueBusy, Submit, TakeToken, ReadStatus, Advance, WaitExpires, worker,
              service
<1>3. CASE Take
  BY <1>0, <1>3 DEF Take, service
<1>4. CASE SetIdle
  BY <1>0, <1>4 DEF SetIdle, IInv, PanelExclusive
<1>5. CASE RecordJob \/ \E r \in Results : Paint(r)
  BY <1>0, <1>5 DEF RecordJob, Paint
<1>6. CASE Give
  BY <1>0, <1>6 DEF Give
<1>7. CASE UNCHANGED vars
  BY <1>0, <1>7 DEF vars, service, worker
<1>8. ASSUME NEW c \in Callers, CallerStep(c) \/ Environment(c)
      PROVE  /\ wpc' = "give" => pending' = None
             /\ sem' = 1 => pending' = None /\ wpc' = "idle"
  BY <1>0, <1>1, <1>2, <1>8 DEF CallerStep, Environment
<1> QED BY <1>3, <1>4, <1>5, <1>6, <1>7, <1>8 DEF Next, WorkerStep

ShowInvOf(c) ==
    /\ pc[c] = "take" /\ ~Own(c) => Taking(c)
    /\ pc[c] = "wait" /\ ~Own(c) => Blocked(c)
    /\ pc[c] = "status" => Told(c) /\ ~Own(c)
    /\ pc[c] = "advance" /\ ~build.fire => outcome[c] = "ok" /\ ~Own(c)

Calling == {"submit", "take", "wait"}

\* A step of the callers that leaves the commands alone: it suffices that c stays where it
\* is and that the thread that has overtaken it stays in its call.
LEMMA Elsewhere ==
  ASSUME NEW c \in Callers, ShowInvOf(c), build' = build,
         UNCHANGED <<pending, wpc, cmd, lastResult, ret, outcome>>,
         pc'[c] \in {pc[c], "idle", "queue"},
         pc[c] \in {"take", "wait"} =>
           \A d \in Callers : Prio[d] < Prio[c] =>
             /\ Own(d) /\ pc[d] \in Calling => pc'[d] \in Calling
             /\ wpc = "give" /\ cmd.by = d /\ pc[d] = "wait" => pc'[d] = "wait",
         wpc = "give" => cmd.by \in Callers
  PROVE  ShowInvOf(c)'
<1>1. \A d : Own(d)' = Own(d) /\ Told(d)' = Told(d)
  BY DEF Own, Told
<1>2. ASSUME pc[c] \in {"take", "wait"}, Overtaken(c) PROVE Overtaken(c)'
  BY <1>1, <1>2 DEF Overtaken, Calling
<1>3. Taking(c) /\ pc[c] = "take" => Taking(c)'
  BY <1>1, <1>2 DEF Taking
<1>4. Blocked(c) /\ pc[c] = "wait" => Blocked(c)'
  BY <1>1, <1>2 DEF Blocked
<1> QED BY <1>1, <1>3, <1>4 DEF ShowInvOf

\* Each action keeps what is said of each thread.
LEMMA StepShowInv ==
  WaitersFit /\ IInv /\ Issued /\ Outcomes /\ Token /\ ShowInv /\ [Next]_vars => ShowInv'
<1> SUFFICES ASSUME WaitersFit, IInv, Issued, Outcomes, Token, ShowInv, [Next]_vars,
                    NEW c \in Callers
             PROVE  ShowInvOf(c)'
  BY DEF ShowInv, ShowInvOf
<1>0. build' = build
  BY DEF Next, CallerStep, WorkerStep, Environment, vars
<1> USE <1>0
<1>i. ShowInvOf(c)
  BY DEF ShowInv, ShowInvOf
<1>t. /\ pc \in [Callers -> {"idle", "queue", "submit", "take", "wait", "status", "advance"}]
      /\ outcome \in [Callers -> Results \union {None}]
      /\ wpc # "idle" => cmd.by \in Callers
      /\ \A d \in Callers : Prio[d] \in Nat /\ WorkerPrio \in Nat
  BY ConstantsOK DEF IInv, TypeOK, Ownership, Command
<1>w. ASSUME NEW d \in Callers, pc[d] \in {"take", "wait", "status"} PROVE Waited
  BY <1>w, Zenon DEF Issued, Waited
<1>1. ASSUME NEW d \in Callers, NEW k \in Kinds, NEW j \in Jobs \union {None}, Begin(d, k, j)
      PROVE  ShowInvOf(c)'
  <2>1. pc' = [pc EXCEPT ![d] = "queue"] /\ pc[d] = "idle" /\ UNCHANGED <<service, worker, outcome>>
    BY <1>1 DEF Begin
  <2> QED BY <1>i, <1>t, <2>1, Elsewhere DEF service, worker, Calling
<1>2. ASSUME NEW d \in Callers, QueueBusy(d) \/ Advance(d) PROVE ShowInvOf(c)'
  <2>1. /\ pc' = [pc EXCEPT ![d] = "idle"] /\ pc[d] \in {"queue", "advance"}
        /\ UNCHANGED <<service, worker, outcome>>
    BY <1>2 DEF QueueBusy, Advance
  <2> QED BY <1>i, <1>t, <2>1, Elsewhere DEF service, worker, Calling
<1>3. ASSUME NEW d \in Callers, Queue(d) PROVE ShowInvOf(c)'
  <2>1. /\ pending = None /\ state # "REFRESHING" /\ pc[d] = "queue" /\ CallerRuns(d)
        /\ pending' = op[d] /\ op[d] # None /\ op[d].by = d
        /\ outcome' = [outcome EXCEPT ![d] = None]
        /\ pc' = [e \in Callers |-> IF e = d THEN "submit"
                                    ELSE IF pc[e] = "wait" THEN "idle" ELSE pc[e]]
        /\ UNCHANGED <<lastResult, wpc, cmd, ret>>
    BY <1>3, NoneIsNoCommand DEF Queue, Busy, IInv, Ownership, worker
  <2>2. wpc \notin {"paint", "record", "set_idle"}
    BY <2>1 DEF IInv, PanelExclusive
  <2>3. Own(d)' /\ \A e \in Callers \ {d} : ~Own(e)'
    BY <2>1, <2>2 DEF Own
  <2>4. CASE c = d
    BY <1>t, <2>1, <2>4 DEF ShowInvOf
  <2>5. CASE c # d
    <3>1. Told(c) => Told(c)'
      BY <1>t, <2>1, <2>2, <2>5 DEF Told
    <3>2. pc'[c] = "take" => pc[c] = "take" /\ Overtaken(c)'
      <4>1. pc[c] = "take" => Prio[d] < Prio[c]
        BY <1>t, <2>1, <2>5, ConstantsOK DEF CallerRuns, Ready
      <4>2. pc'[d] = "submit"
        BY <2>1
      <4> QED BY <1>t, <2>1, <2>3, <2>5, <4>1, <4>2 DEF Overtaken
    <3>3. ~Own(c) /\ pc'[c] # "wait" /\ (pc'[c] \in {"status", "advance"} => pc'[c] = pc[c])
      BY <2>1, <2>2, <2>5 DEF Own
    <3>4. outcome'[c] = outcome[c]
      BY <1>t, <2>1, <2>5
    <3> QED BY <1>i, <2>3, <2>5, <3>1, <3>2, <3>3, <3>4 DEF ShowInvOf, Taking
  <2> QED BY <2>4, <2>5
<1>4. ASSUME NEW d \in Callers, Submit(d) PROVE ShowInvOf(c)'
  <2>1. /\ pc[d] = "submit" /\ pc' = [pc EXCEPT ![d] = AfterSubmit(d)]
        /\ UNCHANGED <<service, wpc, cmd, ret, outcome>> /\ Own(d)
    BY <1>4 DEF Submit, IInv, Ownership, Own
  <2>2. AfterSubmit(d) \in {"idle", "take", "advance"} /\ (AfterSubmit(d) = "advance" => build.fire)
    BY DEF AfterSubmit, FireAndForget
  <2>3. CASE c = d
    <3>1. Own(c)'
      BY <2>1, <2>3 DEF Own, service
    <3> QED BY <1>t, <2>1, <2>2, <2>3, <3>1 DEF ShowInvOf
  <2>4. CASE c # d
    <3>1. pc[c] \in {"take", "wait"} /\ Prio[d] < Prio[c] => AfterSubmit(d) = "take"
      BY <2>1, Fits DEF AfterSubmit, FireAndForget
    <3> QED BY <1>i, <1>t, <2>1, <2>4, <3>1, Elsewhere DEF service, Calling
  <2> QED BY <2>3, <2>4
<1>5. ASSUME NEW d \in Callers, TakeToken(d) PROVE ShowInvOf(c)'
  <2>1. /\ pc[d] = "take" /\ UNCHANGED <<pending, wpc, cmd, lastResult, ret, outcome>>
        /\ IF sem = 1 THEN pc' = [pc EXCEPT ![d] = "status"] ELSE pc' = [pc EXCEPT ![d] = "wait"]
    BY <1>5 DEF TakeToken, worker
  <2>2. sem = 1 => pending = None /\ wpc = "idle"
    BY <1>w, <2>1 DEF Token
  <2>3. \A e : Own(e)' = Own(e) /\ Told(e)' = Told(e)
    BY <2>1 DEF Own, Told
  <2>4. Own(d) => sem # 1
    BY <2>2 DEF Own
  <2>5. \A e \in Callers : Own(e) /\ pc[e] \in Calling => pc'[e] \in Calling
    BY <1>t, <2>1, <2>4 DEF Calling
  <2>6. CASE c = d
    <3>1. CASE sem = 1
      <4>1. ~Own(c) /\ Told(c)
        BY <1>i, <2>1, <2>2, <2>6, <3>1 DEF ShowInvOf, Own, Taking
      <4> QED BY <1>t, <2>1, <2>3, <2>6, <3>1, <4>1 DEF ShowInvOf
    <3>2. CASE sem # 1
      <4>1. Overtaken(c) => Overtaken(c)'
        BY <2>3, <2>5 DEF Overtaken, Calling
      <4>2. ~Own(c) => Blocked(c)'
        BY <1>i, <2>1, <2>3, <2>6, <4>1 DEF ShowInvOf, Taking, Blocked
      <4> QED BY <1>t, <2>1, <2>3, <2>6, <3>2, <4>2 DEF ShowInvOf
    <3> QED BY <3>1, <3>2
  <2>7. CASE c # d
    BY <1>i, <1>t, <2>1, <2>5, <2>7, Elsewhere
  <2> QED BY <2>6, <2>7
<1>6. ASSUME NEW d \in Callers, WaitExpires(d) PROVE ShowInvOf(c)'
  <2>1. /\ pc[d] = "wait" /\ pc' = [pc EXCEPT ![d] = "idle"] /\ UNCHANGED <<service, worker, outcome>>
        /\ build.slow \/ ~InProgress(d)
    BY <1>6 DEF WaitExpires
  <2>2. pc[c] \in {"take", "wait"} /\ Prio[d] < Prio[c] => ~InProgress(d)
    BY <2>1, Fits
  <2>3. InProgress(d) <=> Own(d) \/ (wpc = "give" /\ cmd.by = d)
    BY DEF InProgress, Own, IInv, TypeOK
  <2> QED BY <1>i, <1>t, <2>1, <2>2, <2>3, Elsewhere DEF service, worker
<1>7. ASSUME NEW d \in Callers, ReadStatus(d) PROVE ShowInvOf(c)'
  <2>1. /\ pc[d] = "status" /\ UNCHANGED <<service, worker, outcome>>
        /\ pc' \in {[pc EXCEPT ![d] = "idle"], [pc EXCEPT ![d] = "advance"]}
        /\ pc' = [pc EXCEPT ![d] = "advance"] => lastResult = "ok"
    <3> DEFINE to == IF lastResult = "ok" /\ op[d].advance THEN "advance" ELSE "idle"
    <3>1. pc[d] = "status" /\ UNCHANGED <<service, worker, outcome>> /\ pc' = [pc EXCEPT ![d] = to]
      BY <1>7 DEF ReadStatus
    <3>2. pc'[d] = to
      BY <1>t, <3>1
    <3>3. pc' = [pc EXCEPT ![d] = "advance"] => to = "advance"
      BY <1>t, <3>2
    <3> QED BY <3>1, <3>3
  <2>2. CASE c = d
    <3>1. pc'[c] = "advance" => lastResult = "ok" /\ outcome[c] = "ok"
      BY <1>i, <1>t, <2>1, <2>2 DEF ShowInvOf, Told
    <3>2. ~Own(c)'
      BY <1>i, <2>1, <2>2 DEF ShowInvOf, Own, service, worker
    <3> QED BY <1>t, <2>1, <2>2, <3>1, <3>2 DEF ShowInvOf
  <2>3. CASE c # d
    BY <1>i, <1>t, <2>1, <2>3, Elsewhere DEF service, worker, Calling
  <2> QED BY <2>2, <2>3
<1>8. CASE Take
  <2>1. CASE pending = None
    <3>1. UNCHANGED <<pending, wpc, cmd, lastResult, ret, outcome, pc>>
      BY <1>8, <2>1 DEF Take, service
    <3> QED BY <1>i, <1>t, <3>1, Elsewhere
  <2>2. CASE pending # None
    <3>1. /\ wpc = "idle" /\ wpc' = "paint" /\ cmd' = pending /\ pending' = None
          /\ UNCHANGED <<lastResult, ret, outcome, pc>>
      BY <1>8, <2>2 DEF Take
    <3>2. \A d : Own(d)' = Own(d) /\ Told(d)' = Told(d)
      BY <2>2, <3>1 DEF Own, Told
    <3>3. Overtaken(c) => Overtaken(c)'
      BY <3>1, <3>2 DEF Overtaken
    <3> QED BY <1>i, <2>2, <3>1, <3>2, <3>3 DEF ShowInvOf, Taking, Blocked
  <2> QED BY <2>1, <2>2
<1>9. ASSUME NEW r \in Results, Paint(r) PROVE ShowInvOf(c)'
  <2>1. /\ wpc = "paint" /\ wpc' \in {"record", "set_idle"} /\ ret' = r /\ cmd.by \in Callers
        /\ outcome' = [outcome EXCEPT ![cmd.by] = r]
        /\ UNCHANGED <<pending, cmd, lastResult, pc>>
        /\ r = "ok" => pc[c] \notin {"take", "status"}
    BY <1>9, <1>t DEF Paint, Ready
  <2>2. \A d : Own(d)' = Own(d)
    BY <2>1 DEF Own
  <2>3. Overtaken(c) => Overtaken(c)'
    BY <2>1, <2>2 DEF Overtaken
  <2>4. ~Own(c) => outcome'[c] = outcome[c]
    BY <1>t, <2>1 DEF Own
  <2>5. ~Own(c) /\ r = "error" => (Told(c) => Told(c)')
    BY <2>1, <2>4 DEF Told
  <2> QED BY <1>i, <2>1, <2>2, <2>3, <2>4, <2>5 DEF ShowInvOf, Taking, Blocked
<1>10. CASE RecordJob
  <2>1. /\ wpc = "record" /\ wpc' = "set_idle"
        /\ UNCHANGED <<pending, cmd, lastResult, ret, outcome, pc>>
    BY <1>10 DEF RecordJob
  <2>2. \A d : Own(d)' = Own(d) /\ Told(d)' = Told(d)
    BY <2>1 DEF Own, Told
  <2>3. Overtaken(c) => Overtaken(c)'
    BY <2>1, <2>2 DEF Overtaken
  <2> QED BY <1>i, <2>1, <2>2, <2>3 DEF ShowInvOf, Taking, Blocked
<1>11. CASE SetIdle
  <2>1. /\ wpc = "set_idle" /\ wpc' = "give" /\ lastResult' = ret /\ ret \in Results
        /\ UNCHANGED <<pending, cmd, ret, outcome, pc>> /\ pending = None /\ cmd.by \in Callers
    BY <1>11, <1>t DEF SetIdle, IInv, TypeOK, PanelExclusive
  <2>2. ~Own(c)' /\ \A d : Own(d) => d = cmd.by
    BY <2>1 DEF Own
  <2>3. outcome[cmd.by] = ret /\ (pc[cmd.by] \in {"submit", "take"} => ret = "error")
    BY <2>1 DEF Outcomes
  <2>4. Told(c) => Told(c)'
    BY <2>1 DEF Told
  <2>5. Own(c) => Told(c)'
    BY <2>1, <2>2, <2>3 DEF Told
  <2>6. Overtaken(c) => Blocked(c)'
    <3>1. CASE pc[cmd.by] = "wait"
      BY <2>1, <2>2, <3>1 DEF Overtaken, Blocked
    <3>2. CASE pc[cmd.by] # "wait"
      <4>1. Overtaken(c) => ret = "error"
        BY <2>2, <2>3, <3>2 DEF Overtaken
      <4>2. ret = "error" => Told(c)'
        BY <2>1 DEF Told
      <4> QED BY <2>1, <4>1, <4>2 DEF Blocked
    <3> QED BY <3>1, <3>2
  <2> QED BY <1>i, <2>1, <2>2, <2>4, <2>5, <2>6 DEF ShowInvOf, Taking, Blocked
<1>12. CASE Give
  <2>1. /\ wpc = "give" /\ wpc' = "idle" /\ UNCHANGED <<pending, cmd, lastResult, ret, outcome>>
        /\ \/ pc' = pc
           \/ \E d \in Callers : /\ pc[d] = "wait" /\ pc' = [pc EXCEPT ![d] = "status"]
                                 /\ \A e \in Callers : pc[e] = "wait" => Prio[d] <= Prio[e]
    BY <1>12 DEF Give
  <2>2. \A d : Own(d)' = Own(d) /\ Told(d)' = Told(d)
    BY <2>1 DEF Own, Told
  <2>3. pc[c] \in {"take", "wait", "status"} => pending = None
    BY <1>w, <2>1 DEF Token
  <2>4. pending = None => \A d : ~Own(d)
    BY <2>1 DEF Own
  <2>5. CASE pc'[c] = pc[c]
    BY <1>i, <2>1, <2>2, <2>3, <2>4, <2>5 DEF ShowInvOf, Taking, Blocked, Overtaken
  <2>6. CASE pc'[c] # pc[c]
    <3>1. /\ pc[c] = "wait" /\ pc'[c] = "status"
          /\ \A e \in Callers : pc[e] = "wait" => Prio[c] <= Prio[e]
      BY <1>t, <2>1, <2>6
    <3>2. ~(Prio[cmd.by] < Prio[c] /\ pc[cmd.by] = "wait")
      BY <1>t, <2>1, <3>1
    <3>3. Told(c)
      BY <1>i, <2>1, <2>3, <2>4, <3>1, <3>2 DEF ShowInvOf, Blocked, Overtaken
    <3> QED BY <2>2, <2>3, <2>4, <3>1, <3>3 DEF ShowInvOf
  <2> QED BY <2>5, <2>6
<1>13. CASE UNCHANGED vars
  BY <1>13, <1>i, <1>t, Elsewhere DEF vars, service, worker
<1> QED
  BY <1>1, <1>2, <1>3, <1>4, <1>5, <1>6, <1>7, <1>8, <1>9, <1>10, <1>11, <1>12, <1>13
     DEF Next, CallerStep, WorkerStep, Environment

\* Where no thread is more urgent than the worker and those more urgent than a waiting one
\* wait too, a show that advances the schedule had its own refresh succeed, for any
\* number of threads, jobs and commands (show_job_locked_copy, wait_idle, set_idle).
THEOREM ShowReportsOwn ==
  ASSUME WaitersFit
  PROVE  Spec => []ShowReportsOwnPaint
<1>1. Init => ReportInv
  BY DEF Init, ReportInv, Issued, Outcomes, Token, ShowInv
<1>2. IInv /\ ReportInv /\ [Next]_vars => ReportInv'
  BY StepIssued, StepOutcomes, StepToken, StepShowInv DEF ReportInv
<1>3. ReportInv => ShowReportsOwnPaint
  BY DEF ReportInv, ShowInv, ShowReportsOwnPaint, FireAndForget
<1> QED BY <1>1, <1>2, <1>3, Invariance, PTL DEF Spec
-----------------------------------------------------------------------------
(* Nobody waits in vain.                                                   *)

\* The single waiting thread has its token, or one is still to be given.
Expecting ==
    OneWaiter =>
        \A c \in Callers :
            /\ pc[c] = "take" => sem = 1 \/ pending # None \/ wpc # "idle"
            /\ pc[c] = "wait" => pending # None \/ wpc # "idle"

\* Every step keeps what the waiting thread expects.
LEMMA StepExpecting == IInv /\ Issued /\ Expecting /\ [Next]_vars => Expecting'
<1> SUFFICES ASSUME IInv, Issued, Expecting, [Next]_vars, OneWaiter', NEW c \in Callers
             PROVE  /\ pc'[c] = "take" => sem' = 1 \/ pending' # None \/ wpc' # "idle"
                    /\ pc'[c] = "wait" => pending' # None \/ wpc' # "idle"
  BY DEF Expecting
<1> DEFINE Goal == /\ pc'[c] = "take" => sem' = 1 \/ pending' # None \/ wpc' # "idle"
                   /\ pc'[c] = "wait" => pending' # None \/ wpc' # "idle"
<1>0. build' = build
  BY DEF Next, CallerStep, WorkerStep, Environment, vars
<1>1. OneWaiter
  BY <1>0 DEF OneWaiter
<1>2. /\ pc[c] = "take" => sem = 1 \/ pending # None \/ wpc # "idle"
      /\ pc[c] = "wait" => pending # None \/ wpc # "idle"
  BY <1>1 DEF Expecting
<1>3. pc \in [Callers -> {"idle", "queue", "submit", "take", "wait", "status", "advance"}]
  BY DEF IInv, TypeOK
<1>4. ASSUME NEW d \in Callers, pc[c] \in {"take", "wait"}, pc[d] \in {"take", "wait"}
      PROVE  d = c
  <2>1. "show_job" \in build.ops[c] /\ "show_job" \in build.ops[d]
    BY <1>4 DEF Issued
  <2> QED BY <1>1, <2>1 DEF OneWaiter
<1>5. ASSUME NEW d \in Callers, NEW k \in Kinds, NEW j \in Jobs \union {None}, Begin(d, k, j)
      PROVE  Goal
  BY <1>2, <1>3, <1>5 DEF Begin, service, worker
<1>6. ASSUME NEW d \in Callers, QueueBusy(d) PROVE Goal
  BY <1>2, <1>3, <1>6 DEF QueueBusy, service, worker
<1>7. ASSUME NEW d \in Callers, Queue(d) PROVE Goal
  <2>1. pending' = op[d] /\ op[d] # None
    BY <1>7, NoneIsNoCommand DEF Queue, IInv, Ownership
  <2> QED BY <2>1
<1>8. ASSUME NEW d \in Callers, Submit(d) PROVE Goal
  <2>1. pending # None /\ pending' = pending
    BY <1>8 DEF Submit, IInv, Ownership, service
  <2> QED BY <2>1
<1>9. ASSUME NEW d \in Callers, TakeToken(d) PROVE Goal
  <2>1. /\ pc[d] = "take" /\ UNCHANGED <<pending, wpc>>
        /\ \/ sem = 1 /\ pc' = [pc EXCEPT ![d] = "status"]
           \/ sem # 1 /\ sem' = sem /\ pc' = [pc EXCEPT ![d] = "wait"]
    BY <1>9 DEF TakeToken, worker
  <2>2. CASE d = c
    BY <1>2, <1>3, <2>1, <2>2
  <2>3. CASE d # c
    <3>1. pc'[c] = pc[c] /\ pc[c] \notin {"take", "wait"}
      BY <1>3, <1>4, <2>1, <2>3
    <3> QED BY <3>1
  <2> QED BY <2>2, <2>3
<1>10. ASSUME NEW d \in Callers, WaitExpires(d) \/ ReadStatus(d) \/ Advance(d) PROVE Goal
  <2>1. /\ UNCHANGED <<sem, pending, wpc>>
        /\ \E l \in {"idle", "advance"} : pc' = [pc EXCEPT ![d] = l]
    BY <1>10 DEF WaitExpires, ReadStatus, Advance, service, worker
  <2>2. pc'[c] \in {pc[c], "idle", "advance"}
    BY <1>3, <2>1
  <2> QED BY <1>2, <2>1, <2>2
<1>11. CASE Take
  <2>1. wpc' = "paint"
    BY <1>11 DEF Take, IInv, NotStranded
  <2> QED BY <2>1
<1>12. CASE RecordJob \/ SetIdle \/ \E r \in Results : Paint(r)
  BY <1>12 DEF RecordJob, SetIdle, Paint
<1>13. CASE Give
  <2>1. CASE Waiting = {}
    <3>1. sem' = 1 /\ pc' = pc /\ pc[c] # "wait"
      BY <1>13, <2>1 DEF Give
    <3> QED BY <3>1
  <2>2. CASE Waiting # {}
    <3>1. PICK d \in Waiting : pc' = [pc EXCEPT ![d] = "status"]
      BY <1>13, <2>2 DEF Give
    <3>2. d # c => pc'[c] = pc[c] /\ pc[c] \notin {"take", "wait"}
      BY <1>3, <1>4, <3>1
    <3> QED BY <1>3, <3>1, <3>2
  <2> QED BY <2>1, <2>2
<1>14. CASE UNCHANGED vars
  BY <1>2, <1>14 DEF vars, service, worker
<1> QED
  BY <1>5, <1>6, <1>7, <1>8, <1>9, <1>10, <1>11, <1>12, <1>13, <1>14
     DEF Next, CallerStep, Environment, WorkerStep

\* For any threads, priorities and builds, a single waiting thread never waits for nothing
\* (eink_display_wait_idle, set_idle).
THEOREM NobodyWaitsInVain == Spec => []NoWaitInVain
<1>1. Init => Issued /\ Expecting
  BY DEF Init, Issued, Expecting
<1>2. Expecting => NoWaitInVain
  BY DEF Expecting, NoWaitInVain
<1> QED BY <1>1, <1>2, Invariance, StepIssued, StepExpecting, PTL DEF Spec
=============================================================================
