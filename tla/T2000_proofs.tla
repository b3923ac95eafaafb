---------------------------- MODULE T2000_proofs ----------------------------
(***************************************************************************)
(* Proofs about T2000 for any fill indexes, number of stripes, size of the *)
(* USB stack's pool and bounds: who has xfer_lock and what is allocated,   *)
(* the types, and what a command that reports success has done.            *)
(***************************************************************************)
EXTENDS T2000, SequenceTheorems, TLAPS

Locked == {"reset", "enqueue", "wait"}
Holding == {"enqueue", "wait"}

\* What the argument needs of the types.
Counts ==
    /\ xpc \in [Threads -> {"call", "lock", "reset", "enqueue", "wait"}]
    /\ pool \in Nat /\ timeouts \in Nat

\* A thread is between k_mutex_lock and k_mutex_unlock exactly while it has the lock.
Exclusion == \A t \in Threads : xpc[t] \in Locked <=> lock = t

IInv == Counts /\ Exclusion /\ OnlyTimeoutsLoseTransfers

USE DEF Locked, Holding

\* Somebody has a transfer.
Held == \E t \in Threads : xpc[t] \in Holding

\* Nothing is allocated at the start.
LEMMA InitIInv == Init => IInv
<1> SUFFICES ASSUME Init PROVE IInv
    OBVIOUS
<1>1. /\ xpc = [t \in Threads |-> "call"] /\ lock = None /\ pool = Pool /\ timeouts = 0
      /\ Pool \in Nat /\ None \notin Threads
  BY T2000OK DEF Init
<1>2. Counts /\ Exclusion
  BY <1>1 DEF Counts, Exclusion
<1>3. ~Held
  BY <1>1 DEF Held
<1> QED BY <1>1, <1>2, <1>3 DEF IInv, OnlyTimeoutsLoseTransfers, Held

\* A step of t that leaves it outside the lock it had: what it allocated is free, or lost
\* to a timeout.
LEMMA Unlocks ==
    ASSUME IInv, NEW t \in Threads, xpc[t] \in Locked, lock' = None,
           xpc' = [xpc EXCEPT ![t] = "call"],
           \/ xpc[t] = "reset" /\ pool' = pool /\ timeouts' = timeouts
           \/ xpc[t] \in Holding /\ pool' = pool + 1 /\ timeouts' = timeouts
           \/ xpc[t] \in Holding /\ pool' = pool /\ timeouts' = timeouts + 1
    PROVE  IInv'
<1>1. \A u \in Threads : u # t => xpc[u] \notin Locked
  BY DEF IInv, Exclusion
<1>2. Counts'
  BY DEF IInv, Counts
<1>3. \A u \in Threads : xpc'[u] \notin Locked
  BY <1>1 DEF IInv, Counts
<1>4. Exclusion'
  BY <1>3, T2000OK DEF Exclusion
<1>5. ~Held'
  BY <1>3 DEF Held
<1>6. Held <=> xpc[t] \in Holding
  BY <1>1 DEF Held
<1>7. Pool \in Nat
  BY T2000OK
<1>8. pool' + timeouts' = Pool
  BY <1>6, <1>7 DEF IInv, Counts, OnlyTimeoutsLoseTransfers, Held
<1>9. OnlyTimeoutsLoseTransfers'
  <2>1. ~(\E u \in Threads : xpc'[u] \in {"enqueue", "wait"})
    BY <1>5 DEF Held
  <2>2. pool' \in Nat /\ timeouts' \in Nat
    BY <1>2 DEF Counts
  <2>3. pool' + timeouts' + 0 = Pool
    BY <1>8, <2>2
  <2>4. (IF \E u \in Threads : xpc'[u] \in {"enqueue", "wait"} THEN 1 ELSE 0) = 0
    BY <2>1
  <2> QED BY <2>3, <2>4 DEF OnlyTimeoutsLoseTransfers
<1> QED BY <1>2, <1>4, <1>9 DEF IInv

\* A step of t outside the lock.
LEMMA Outside ==
    ASSUME IInv, NEW t \in Threads, xpc[t] \notin Locked,
           UNCHANGED <<lock, pool, timeouts>>,
           xpc' \in {[xpc EXCEPT ![t] = "call"], [xpc EXCEPT ![t] = "lock"]}
    PROVE  IInv'
<1>1. \A u \in Threads : xpc'[u] \in Locked <=> xpc[u] \in Locked
  BY DEF IInv, Counts
<1>2. \A u \in Threads : xpc'[u] \in Holding <=> xpc[u] \in Holding
  BY DEF IInv, Counts
<1>3. Counts' /\ Exclusion'
  BY <1>1 DEF IInv, Counts, Exclusion
<1> QED BY <1>2, <1>3 DEF IInv, OnlyTimeoutsLoseTransfers

\* A command that fails or ends leaves bulk_xfer.
LEMMA EndCalls ==
    ASSUME NEW t \in Threads, NEW read,
           Fails(t) \/ Proceed(t, read) \/ (\E r \in Read(t) : Proceed(t, r))
    PROVE  xpc' = [xpc EXCEPT ![t] = "call"]
  BY DEF Fails, Proceed, End

\* Every step keeps the invariant.
LEMMA StepIInv == IInv /\ [Next]_vars => IInv'
<1> SUFFICES ASSUME IInv, [Next]_vars PROVE IInv'
    OBVIOUS
<1> USE T2000OK
<1>0. ASSUME UNCHANGED <<xpc, lock, pool, timeouts>> PROVE IInv'
  BY <1>0 DEF IInv, Counts, Exclusion, OnlyTimeoutsLoseTransfers
<1>1. ASSUME NEW t \in Threads, Call(t) PROVE IInv'
  <2>1. /\ xpc[t] = "call" /\ UNCHANGED <<lock, pool, timeouts>>
        /\ xpc' = [xpc EXCEPT ![t] = "lock"] \/ Fails(t)
    BY <1>1 DEF Call, host
  <2>2. xpc' \in {[xpc EXCEPT ![t] = "call"], [xpc EXCEPT ![t] = "lock"]}
    BY <2>1, EndCalls
  <2> QED BY <2>1, <2>2, Outside
<1>2. ASSUME NEW t \in Threads, Lock(t) PROVE IInv'
  <2>1. /\ lock = None /\ lock' = t /\ UNCHANGED <<pool, timeouts>>
        /\ xpc[t] = "lock" /\ xpc' = [xpc EXCEPT ![t] = "reset"]
    BY <1>2 DEF Lock, history
  <2>2. \A u \in Threads : xpc[u] \notin Locked
    BY <2>1 DEF IInv, Exclusion
  <2>3. Counts' /\ Exclusion'
    BY <2>1, <2>2 DEF IInv, Counts, Exclusion
  <2>4. ~Held /\ ~Held'
    BY <2>1, <2>2 DEF Held, IInv, Counts
  <2> QED BY <2>1, <2>3, <2>4 DEF IInv, OnlyTimeoutsLoseTransfers, Held
<1>3. ASSUME NEW t \in Threads, NoMemory(t) PROVE IInv'
  <2>1. /\ xpc[t] = "reset" /\ lock' = None /\ Fails(t) /\ UNCHANGED <<pool, timeouts>>
    BY <1>3 DEF NoMemory
  <2> QED BY <2>1, EndCalls, Unlocks
<1>4. ASSUME NEW t \in Threads, Reset(t) PROVE IInv'
  <2>1. /\ xpc[t] = "reset" /\ pool > 0 /\ pool' = pool - 1 /\ UNCHANGED <<lock, timeouts>>
        /\ xpc' = [xpc EXCEPT ![t] = "enqueue"]
    BY <1>4 DEF Reset, history
  <2>2. \A u \in Threads : u # t => xpc[u] \notin Locked
    BY <2>1 DEF IInv, Exclusion
  <2>3. Counts'
    BY <2>1 DEF IInv, Counts
  <2>4. Exclusion'
    BY <2>1, <2>2 DEF IInv, Counts, Exclusion
  <2>5. ~Held /\ Held'
    BY <2>1, <2>2 DEF Held, IInv, Counts
  <2> QED BY <2>1, <2>3, <2>4, <2>5 DEF IInv, Counts, OnlyTimeoutsLoseTransfers, Held
<1>5. ASSUME NEW t \in Threads, Enqueue(t) PROVE IInv'
  <2>1. /\ xpc[t] = "enqueue" /\ UNCHANGED <<lock, pool, timeouts>>
        /\ xpc' = [xpc EXCEPT ![t] = "wait"]
    BY <1>5 DEF Enqueue, history
  <2>2. \A u \in Threads : xpc'[u] \in Locked <=> xpc[u] \in Locked
    BY <2>1 DEF IInv, Counts
  <2>3. \A u \in Threads : xpc'[u] \in Holding <=> xpc[u] \in Holding
    BY <2>1 DEF IInv, Counts
  <2>4. Counts' /\ Exclusion'
    BY <2>1, <2>2 DEF IInv, Counts, Exclusion
  <2> QED BY <2>1, <2>3, <2>4 DEF IInv, OnlyTimeoutsLoseTransfers
<1>6. ASSUME NEW t \in Threads, EnqueueFails(t) PROVE IInv'
  <2>1. /\ xpc[t] = "enqueue" /\ lock' = None /\ Fails(t) /\ pool' = pool + 1
        /\ timeouts' = timeouts
    BY <1>6 DEF EnqueueFails
  <2> QED BY <2>1, EndCalls, Unlocks
<1>7. ASSUME NEW t \in Threads, Done(t) PROVE IInv'
  <2>1. /\ xpc[t] = "wait" /\ lock' = None /\ pool' = pool + 1 /\ timeouts' = timeouts
        /\ Fails(t) \/ \E read \in Read(t) : Proceed(t, read)
    BY <1>7 DEF Done, GoOn
  <2> QED BY <2>1, EndCalls, Unlocks
<1>8. ASSUME NEW t \in Threads, TimesOut(t) PROVE IInv'
  <2>1. /\ xpc[t] = "wait" /\ lock' = None /\ Fails(t) /\ pool' = pool
        /\ timeouts' = timeouts + 1
    BY <1>8 DEF TimesOut
  <2> QED BY <2>1, EndCalls, Unlocks
<1>9. CASE Usb
  BY <1>0, <1>9 DEF Usb, Complete, Settle, Attach, Detach, CompleteLate, host, thread, history
<1>10. ASSUME NEW t \in Threads, NEW o \in Ops, NEW i \in Indexes, Give(t, o, i) PROVE IInv'
  BY <1>0, <1>10 DEF Give, host
<1>11. CASE UNCHANGED vars
  BY <1>0, <1>11 DEF vars, host, thread, history
<1> QED
  BY <1>1, <1>2, <1>3, <1>4, <1>5, <1>6, <1>7, <1>8, <1>9, <1>10, <1>11 DEF Next, Thread

\* The invariant holds throughout.
THEOREM Invariance == Spec => []IInv
  BY InitIInv, StepIInv, PTL DEF Spec

\* Only a timeout costs a transfer of the USB stack's pool (bulk_xfer), whatever its size
\* and whatever fails.
THEOREM PoolIsKept == Spec => []OnlyTimeoutsLoseTransfers
<1>1. IInv => OnlyTimeoutsLoseTransfers
  BY DEF IInv
<1> QED BY <1>1, Invariance, PTL

\* One transfer at a time is between k_mutex_lock and k_mutex_unlock (bulk_xfer).
THEOREM OneTransferAtATime ==
    Spec => [](\A t, u \in Threads : xpc[t] \in Locked /\ xpc[u] \in Locked => t = u)
<1>1. IInv => \A t, u \in Threads : xpc[t] \in Locked /\ xpc[u] \in Locked => t = u
  BY DEF IInv, Exclusion
<1> QED BY <1>1, Invariance, PTL
-----------------------------------------------------------------------------
(* The scripts.                                                            *)

Names == {"info", "read info", "in", "multi", "mode", "header", "stripe", "trigger", "clear",
          "status", "read status"}

\* What display_chunk sends, position by position.
LEMMA FrameIs ==
  /\ Frame \in Seq(Names) /\ Len(Frame) = 2 * Stripes
  /\ \A m \in 0..(Stripes - 1) : Frame[2 * m + 1] = "header" /\ Frame[2 * m + 2] = "stripe"
<1> USE T2000OK DEF Frame
<1>1. Frame \in Seq(Names) /\ Len(Frame) = 2 * Stripes
  BY DEF Names
<1>2. ASSUME NEW m \in 0..(Stripes - 1)
      PROVE  Frame[2 * m + 1] = "header" /\ Frame[2 * m + 2] = "stripe"
  <2>1. 2 * m + 1 \in 1..(2 * Stripes) /\ 2 * m + 2 \in 1..(2 * Stripes)
    OBVIOUS
  <2>2. (2 * m + 1) % 2 = 1 /\ (2 * m + 2) % 2 # 1
    OBVIOUS
  <2> QED BY <2>1, <2>2
<1> QED BY <1>1, <1>2

Fill == Script("fill")

\* What a fill sends, position by position.
LEMMA FillIs ==
  /\ Len(Fill) = 9 + 2 * Stripes /\ Fill \in Seq(Names)
  /\ Fill[1] = "info" /\ Fill[2] = "read info" /\ Fill[3] = "in"
  /\ Fill[4] = "multi" /\ Fill[5] = "mode"
  /\ \A m \in 0..(Stripes - 1) : Fill[6 + 2 * m] = "header" /\ Fill[7 + 2 * m] = "stripe"
  /\ Fill[6 + 2 * Stripes] = "trigger" /\ Fill[7 + 2 * Stripes] = "status"
  /\ Fill[8 + 2 * Stripes] = "read status" /\ Fill[9 + 2 * Stripes] = "in"
<1> DEFINE setup == <<"multi", "mode">>
           go == <<"trigger">>
           a == Info \o setup
           b == a \o Frame
           c == b \o go
           s == c \o Status
<1>0. Stripes \in Nat /\ Stripes > 0
  BY T2000OK
<1>1. Info \in Seq(Names) /\ Len(Info) = 3
  BY DEF Info, Names
<1>2. setup \in Seq(Names) /\ Len(setup) = 2
  BY DEF Names
<1>3. go \in Seq(Names) /\ Len(go) = 1
  BY DEF Names
<1>4. Status \in Seq(Names) /\ Len(Status) = 3
  BY DEF Status, Names
<1>23. go[1] = "trigger"
  OBVIOUS
<1>24. setup[1] = "multi"
  OBVIOUS
<1>25. setup[2] = "mode"
  OBVIOUS
<1>5. Fill = s
  BY Zenon DEF Fill, Script
<1> HIDE DEF setup, go
<1>6. /\ a \in Seq(Names) /\ Len(a) = Len(Info) + Len(setup)
      /\ \A i \in 1..(Len(Info) + Len(setup)) :
           a[i] = IF i <= Len(Info) THEN Info[i] ELSE setup[i - Len(Info)]
  BY <1>1, <1>2, ConcatProperties, Zenon
<1> HIDE DEF a
<1>7. /\ a \in Seq(Names) /\ Len(a) = 5
      /\ \A i \in 1..3 : a[i] = Info[i]
      /\ \A i \in 1..2 : a[3 + i] = setup[i]
  BY <1>1, <1>2, <1>6
<1>8. /\ b \in Seq(Names) /\ Len(b) = Len(a) + Len(Frame)
      /\ \A i \in 1..(Len(a) + Len(Frame)) : b[i] = IF i <= Len(a) THEN a[i] ELSE Frame[i - Len(a)]
  <2>1. a \in Seq(Names) /\ Frame \in Seq(Names)
    BY <1>7, FrameIs
  <2> QED BY <2>1, ConcatProperties, Zenon
<1> HIDE DEF b
<1>9. /\ b \in Seq(Names) /\ Len(b) = 5 + 2 * Stripes
      /\ \A i \in 1..5 : b[i] = a[i]
      /\ \A i \in 1..(2 * Stripes) : b[5 + i] = Frame[i]
  <2>1. Len(a) = 5
    BY <1>7
  <2>2. Len(Frame) = 2 * Stripes
    BY FrameIs
  <2> QED BY <1>0, <1>8, <2>1, <2>2
<1>10. /\ c \in Seq(Names) /\ Len(c) = Len(b) + Len(go)
       /\ \A i \in 1..(Len(b) + Len(go)) : c[i] = IF i <= Len(b) THEN b[i] ELSE go[i - Len(b)]
  <2>1. b \in Seq(Names) /\ go \in Seq(Names)
    BY <1>3, <1>9
  <2> QED BY <2>1, ConcatProperties, Zenon
<1> HIDE DEF c
<1>11. /\ Len(c) = 6 + 2 * Stripes
       /\ \A i \in 1..(5 + 2 * Stripes) : c[i] = b[i]
       /\ c[6 + 2 * Stripes] = go[1]
  BY <1>0, <1>3, <1>9, <1>10
<1>12. /\ s \in Seq(Names) /\ Len(s) = Len(c) + Len(Status)
       /\ \A i \in 1..(Len(c) + Len(Status)) : s[i] = IF i <= Len(c) THEN c[i] ELSE Status[i - Len(c)]
  <2>1. c \in Seq(Names) /\ Status \in Seq(Names)
    BY <1>4, <1>10
  <2> QED BY <2>1, ConcatProperties, Zenon
<1> HIDE DEF s
<1>13. /\ Len(s) = 9 + 2 * Stripes
       /\ \A i \in 1..(6 + 2 * Stripes) : s[i] = c[i]
       /\ \A i \in 1..3 : s[6 + 2 * Stripes + i] = Status[i]
  BY <1>0, <1>4, <1>11, <1>12
<1>14. \A i \in 1..(5 + 2 * Stripes) : s[i] = b[i]
  BY <1>0, <1>11, <1>13
<1>15. s[6 + 2 * Stripes] = "trigger"
  BY <1>0, <1>11, <1>13, <1>23
<1>16. \A i \in 1..5 : s[i] = a[i]
  BY <1>0, <1>9, <1>14
<1>19. \A i \in 1..3 : s[i] = Info[i]
  BY <1>7, <1>16
<1>20. s[1] = "info" /\ s[2] = "read info" /\ s[3] = "in"
  <2>1. s[1] = Info[1] /\ s[2] = Info[2] /\ s[3] = Info[3]
    BY <1>19
  <2> QED BY <2>1 DEF Info
<1>21. s[4] = "multi" /\ s[5] = "mode"
  <2>1. s[4] = setup[1] /\ s[5] = setup[2]
    BY <1>7, <1>16
  <2> QED BY <2>1, <1>24, <1>25
<1>22. /\ s[7 + 2 * Stripes] = "status" /\ s[8 + 2 * Stripes] = "read status"
       /\ s[9 + 2 * Stripes] = "in"
  <2>1. /\ s[7 + 2 * Stripes] = Status[1] /\ s[8 + 2 * Stripes] = Status[2]
        /\ s[9 + 2 * Stripes] = Status[3]
    BY <1>0, <1>13
  <2> QED BY <2>1 DEF Status
<1>17. ASSUME NEW m \in 0..(Stripes - 1) PROVE s[6 + 2 * m] = "header" /\ s[7 + 2 * m] = "stripe"
  <2> DEFINE h == 2 * m + 1
             d == 2 * m + 2
  <2>1. h \in 1..(2 * Stripes) /\ d \in 1..(2 * Stripes)
    BY <1>0
  <2>2. Frame[h] = "header" /\ Frame[d] = "stripe"
    BY FrameIs
  <2>3. 6 + 2 * m = 5 + h /\ 7 + 2 * m = 5 + d
    OBVIOUS
  <2> HIDE DEF h, d
  <2>4. b[5 + h] = "header" /\ b[5 + d] = "stripe"
    BY <1>9, <2>1, <2>2
  <2>5. 5 + h \in 1..(5 + 2 * Stripes) /\ 5 + d \in 1..(5 + 2 * Stripes)
    BY <1>0, <2>1
  <2> QED BY <1>14, <2>3, <2>4, <2>5
<1>18. s \in Seq(Names)
  BY <1>12
<1> QED BY <1>5, <1>13, <1>15, <1>17, <1>18, <1>20, <1>21, <1>22

\* What an info and a clear send.
LEMMA OthersAre ==
  /\ Script("info") \in Seq(Names) /\ Len(Script("info")) = 3 /\ Script("info")[3] = "in"
  /\ Script("clear") \in Seq(Names) /\ Len(Script("clear")) = 4 /\ Script("clear")[4] = "in"
  /\ \A k \in 1..3 : Script("info")[k] # "stripe"
  /\ \A k \in 1..4 : Script("clear")[k] # "stripe"
<1> DEFINE go == <<"clear">>
           s == go \o Status
<1>1. go \in Seq(Names) /\ Len(go) = 1
  BY DEF Names
<1>2. Status \in Seq(Names) /\ Len(Status) = 3
  BY DEF Status, Names
<1>7. Status[3] = "in"
  BY DEF Status
<1>3. Script("clear") = s
  BY DEF Script
<1> HIDE DEF go
<1>4. /\ s \in Seq(Names) /\ Len(s) = Len(go) + Len(Status)
      /\ \A i \in 1..(Len(go) + Len(Status)) : s[i] = IF i <= Len(go) THEN go[i] ELSE Status[i - Len(go)]
  BY <1>1, <1>2, ConcatProperties, Zenon
<1> HIDE DEF s
<1>5. Len(s) = 4 /\ s[4] = "in"
  BY <1>1, <1>2, <1>7, <1>4
<1>6. Script("info") \in Seq(Names) /\ Len(Script("info")) = 3 /\ Script("info")[3] = "in"
  BY DEF Script, Info, Names
<1>8. \A k \in 1..3 : Script("info")[k] # "stripe"
  <2>1. Script("info") = Info
    BY DEF Script
  <2>2. Info[1] # "stripe"
    BY DEF Info
  <2>3. Info[2] # "stripe"
    BY DEF Info
  <2>4. Info[3] # "stripe"
    BY DEF Info
  <2> QED BY <2>1, <2>2, <2>3, <2>4
<1>9. \A k \in 1..4 : s[k] # "stripe"
  <2>1. s[1] = go[1] /\ \A k \in 1..3 : s[1 + k] = Status[k]
    BY <1>1, <1>2, <1>4
  <2>2. go[1] # "stripe"
    BY DEF go
  <2>3. \A k \in 1..3 : Status[k] # "stripe"
    <3>1. Status[1] # "stripe"
      BY DEF Status
    <3>2. Status[2] # "stripe"
      BY DEF Status
    <3>3. Status[3] # "stripe"
      BY DEF Status
    <3> QED BY <3>1, <3>2, <3>3
  <2>4. \A k \in 2..4 : k - 1 \in 1..3 /\ 1 + (k - 1) = k
    OBVIOUS
  <2>5. \A k \in 2..4 : s[k] # "stripe"
    BY <2>1, <2>3, <2>4
  <2> QED BY <2>1, <2>2, <2>5
<1> QED BY <1>3, <1>4, <1>5, <1>6, <1>8, <1>9

\* Every position of a fill is one of those.
LEMMA Positions ==
  ASSUME NEW s \in 1..(9 + 2 * Stripes)
  PROVE  \/ s \in 1..5
         \/ \E m \in 0..(Stripes - 1) : s = 6 + 2 * m \/ s = 7 + 2 * m
         \/ s \in (6 + 2 * Stripes)..(9 + 2 * Stripes)
<1>0. Stripes \in Nat /\ Stripes > 0
  BY T2000OK
<1> SUFFICES ASSUME s > 5, s < 6 + 2 * Stripes
             PROVE  \E m \in 0..(Stripes - 1) : s = 6 + 2 * m \/ s = 7 + 2 * m
  BY <1>0
<1> DEFINE m == (s - 6) \div 2
<1>1. m \in Int /\ (s = 6 + 2 * m \/ s = 7 + 2 * m)
  BY <1>0
<1> HIDE DEF m
<1>2. m \in 0..(Stripes - 1)
  BY <1>0, <1>1
<1> QED BY <1>1, <1>2

\* The last transfer of every command reads an answer, and another round fits before it.
LEMMA LastReads ==
  ASSUME NEW o \in Ops
  PROVE  /\ Script(o) \in Seq(Names) /\ Len(Script(o)) \in Nat /\ Len(Script(o)) >= 3
         /\ Script(o)[Len(Script(o))] = "in"
<1>1. CASE o = "fill"
  <2>1. Len(Fill) = 9 + 2 * Stripes /\ Fill \in Seq(Names) /\ Fill[9 + 2 * Stripes] = "in"
    BY FillIs
  <2> QED BY <1>1, <2>1, T2000OK DEF Fill
<1>2. CASE o # "fill"
  BY <1>2, OthersAre DEF Ops
<1> QED BY <1>1, <1>2
-----------------------------------------------------------------------------
(* Types.                                                                  *)

\* Where a thread is in its command, and what a fill fills with.
InScript ==
    \A t \in Threads :
        /\ op[t] = None => xpc[t] = "call"
        /\ op[t] # None => step[t] \in 1..Len(Script(op[t]))
        /\ op[t] = "fill" => index[t] \in Indexes \union {Torn}

\* The stripes on their way have a colour.
Coloured(x) == x.cmd = "stripe" => x.index \in Indexes \union {Torn}

TypeInv ==
    /\ IInv /\ TypeOK /\ InScript
    /\ live # None => Coloured(live)
    /\ \A x \in late : Coloured(x)

LEMMA InitTypeInv == Init => TypeInv
<1> SUFFICES ASSUME Init PROVE TypeInv
    OBVIOUS
<1> USE T2000OK, NoneIsNew
<1>1. IInv
  BY InitIInv
<1>2. InScript
  <2>1. \A t \in Threads : op[t] = None /\ xpc[t] = "call"
    BY DEF Init
  <2>2. None # "fill"
    BY DEF Ops
  <2> QED BY <2>1, <2>2 DEF InScript
<1>3. TypeOK
  <2>1. /\ bound \in BOOLEAN /\ lock \in Threads \union {None} /\ pool \in 0..Pool
        /\ sem \in {0, 1} /\ err \in {"ok", "error"}
        /\ live \in Transfers \union {None} /\ late \subseteq Transfers
    <3>1. bound \in BOOLEAN /\ lock \in Threads \union {None}
      BY DEF Init
    <3>2. pool = Pool /\ Pool \in Nat
      BY DEF Init
    <3>3. sem \in {0, 1} /\ err \in {"ok", "error"}
      BY DEF Init
    <3>4. live \in Transfers \union {None} /\ late \subseteq Transfers
      BY DEF Init
    <3> QED BY <3>1, <3>2, <3>3, <3>4
  <2>2. /\ op \in [Threads -> Ops \union {None}] /\ step \in [Threads -> Nat \ {0}]
        /\ xpc \in [Threads -> {"call", "lock", "reset", "enqueue", "wait"}]
        /\ index \in [Threads -> Indexes \union {None, Torn}]
        /\ clean \in [Threads -> BOOLEAN]
    <3>1. op \in [Threads -> Ops \union {None}] /\ step \in [Threads -> Nat \ {0}]
      BY DEF Init
    <3>2. xpc \in [Threads -> {"call", "lock", "reset", "enqueue", "wait"}]
      BY DEF Init
    <3>3. index \in [Threads -> Indexes \union {None, Torn}]
      BY DEF Init
    <3>4. clean \in [Threads -> BOOLEAN]
      BY DEF Init
    <3> QED BY <3>1, <3>2, <3>3, <3>4
  <2>3. /\ buf \in Answers \union {None} /\ reply \in {"info", "status", None}
        /\ header \in BOOLEAN /\ glass \in Indexes \union {None, Torn} /\ busy \in BOOLEAN
    BY DEF Init
  <2>4. loaded = <<>>
    BY DEF Init
  <2>5. loaded \in Seq(Indexes \union {Torn}) /\ Len(loaded) <= Stripes + 1
    BY <2>4
  <2> QED BY <2>1, <2>2, <2>3, <2>5 DEF TypeOK
<1>4. live = None /\ late = {}
  BY DEF Init
<1> QED BY <1>1, <1>2, <1>3, <1>4 DEF TypeInv

\* The pool never exceeds its size.
LEMMA PoolBounded == IInv => pool \in 0..Pool
  BY T2000OK DEF IInv, Counts, OnlyTimeoutsLoseTransfers

\* What the command at hand may be.
LEMMA CurrentIs ==
  ASSUME TypeInv, NEW t \in Threads, op[t] # None
  PROVE  /\ Current(t) \in Commands /\ op[t] \in Ops
         /\ Current(t) = "stripe" => index[t] \in Indexes \union {Torn}
<1>1. op[t] \in Ops /\ step[t] \in 1..Len(Script(op[t]))
  BY DEF TypeInv, TypeOK, InScript
<1>2. Script(op[t]) \in Seq(Names)
  BY <1>1, LastReads
<1>3. step[t] \in DOMAIN Script(op[t])
  BY <1>1, <1>2
<1>4. Current(t) = "stripe" => op[t] = "fill"
  BY <1>1, OthersAre DEF Current, Ops
<1>5. op[t] = "fill" => index[t] \in Indexes \union {Torn}
  BY DEF TypeInv, InScript
<1> QED BY <1>1, <1>3, <1>4, <1>5 DEF Current, Commands

\* A command fails, goes on or ends within its script.
LEMMA ScriptKept ==
  ASSUME TypeInv, NEW t \in Threads, op[t] # None,
         index' \in {index, [index EXCEPT ![t] = Torn]}, NEW read, Fails(t) \/ Proceed(t, read)
  PROVE  /\ op' \in [Threads -> Ops \union {None}] /\ step' \in [Threads -> Nat \ {0}]
         /\ xpc' \in [Threads -> {"call", "lock", "reset", "enqueue", "wait"}]
         /\ InScript'
<1>1. /\ op \in [Threads -> Ops \union {None}] /\ step \in [Threads -> Nat \ {0}]
      /\ xpc \in [Threads -> {"call", "lock", "reset", "enqueue", "wait"}]
      /\ op[t] \in Ops /\ step[t] \in 1..Len(Script(op[t]))
  BY DEF TypeInv, TypeOK, InScript
<1>2. Len(Script(op[t])) \in Nat /\ Len(Script(op[t])) >= 3
  BY <1>1, LastReads
<1>3. xpc' = [xpc EXCEPT ![t] = "call"]
  BY EndCalls
<1>4. \/ op' = [op EXCEPT ![t] = None] /\ step' = [step EXCEPT ![t] = 1]
      \/ /\ op' = op
         /\ \/ step[t] < Len(Script(op[t])) /\ step' = [step EXCEPT ![t] = @ + 1]
            \/ step[t] >= Len(Script(op[t])) /\ step' = [step EXCEPT ![t] = @ - 2]
  BY <1>1, <1>2 DEF Fails, Proceed, End
<1>5. op' \in [Threads -> Ops \union {None}] /\ step' \in [Threads -> Nat \ {0}]
  BY <1>1, <1>2, <1>4
<1>6. ASSUME NEW u \in Threads
      PROVE  /\ op'[u] = None => xpc'[u] = "call"
             /\ op'[u] # None => step'[u] \in 1..Len(Script(op'[u]))
             /\ op'[u] = "fill" => index'[u] \in Indexes \union {Torn}
  <2>1. CASE u # t
    <3>1. op'[u] = op[u] /\ step'[u] = step[u] /\ xpc'[u] = xpc[u] /\ index'[u] = index[u]
      BY <1>1, <1>3, <1>4, <2>1 DEF TypeInv, TypeOK
    <3> QED BY <3>1 DEF TypeInv, InScript
  <2>2. CASE u = t
    <3>1. op[t] = "fill" => index'[t] \in Indexes \union {Torn}
      BY DEF TypeInv, TypeOK, InScript
    <3>2. xpc'[t] = "call"
      BY <1>1, <1>3
    <3>3. op'[t] = "fill" => op[t] = "fill"
      BY <1>1, <1>4, NoneIsNew DEF Ops
    <3>4. op'[t] # None => step'[t] \in 1..Len(Script(op'[t]))
      BY <1>1, <1>2, <1>4
    <3> QED BY <2>2, <3>1, <3>2, <3>3, <3>4
  <2> QED BY <2>1, <2>2
<1>7. xpc' \in [Threads -> {"call", "lock", "reset", "enqueue", "wait"}]
  BY <1>1, <1>3
<1> QED BY <1>5, <1>6, <1>7 DEF InScript

\* A thread moves on inside bulk_xfer.
LEMMA Moves ==
  ASSUME TypeInv, NEW t \in Threads, op[t] # None, UNCHANGED <<op, step, index>>,
         NEW l \in {"call", "lock", "reset", "enqueue", "wait"}, xpc' = [xpc EXCEPT ![t] = l]
  PROVE  /\ op' \in [Threads -> Ops \union {None}] /\ step' \in [Threads -> Nat \ {0}]
         /\ xpc' \in [Threads -> {"call", "lock", "reset", "enqueue", "wait"}]
         /\ InScript'
  BY DEF TypeInv, TypeOK, InScript

\* The display keeps its types.
LEMMA CarryTypes ==
  ASSUME TypeOK, NEW x \in Transfers, Coloured(x), Carry(x)
  PROVE  /\ reply' \in {"info", "status", None} /\ header' \in BOOLEAN
         /\ loaded' \in Seq(Indexes \union {Torn}) /\ Len(loaded') <= Stripes + 1
         /\ glass' \in Indexes \union {None, Torn} /\ busy' \in BOOLEAN
<1> USE T2000OK
<1>1. /\ reply \in {"info", "status", None} /\ header \in BOOLEAN
      /\ loaded \in Seq(Indexes \union {Torn}) /\ Len(loaded) <= Stripes + 1
      /\ glass \in Indexes \union {None, Torn} /\ busy \in BOOLEAN
  BY DEF TypeOK
<1>2. Picture \in Indexes \union {Torn}
  <2>1. CASE \E i \in Indexes : loaded = Solid(i)
    <3>1. PICK i \in Indexes : loaded = Solid(i)
      BY <2>1
    <3>2. loaded[1] = i
      BY <3>1 DEF Solid
    <3> QED BY <2>1, <3>2 DEF Picture
  <2>2. CASE ~\E i \in Indexes : loaded = Solid(i)
    BY <2>2 DEF Picture
  <2> QED BY <2>1, <2>2
<1>3. CASE x.cmd = "in"
  BY <1>1, <1>3 DEF Carry
<1>4. CASE x.cmd # "in" /\ header
  <2>1. Load(x)
    BY <1>4 DEF Carry
  <2>2. header' = FALSE /\ UNCHANGED <<reply, glass, busy>>
    BY <2>1 DEF Load
  <2>3. loaded' \in Seq(Indexes \union {Torn}) /\ Len(loaded') <= Stripes + 1
    <3>1. CASE Len(loaded) > Stripes
      BY <1>1, <2>1, <3>1 DEF Load
    <3>2. CASE ~(Len(loaded) > Stripes)
      <4>1. PICK e : loaded' = Append(loaded, e) /\ e = (IF x.cmd = "stripe" THEN x.index ELSE Torn)
        BY <2>1, <3>2 DEF Load
      <4>2. Len(loaded) \in Nat /\ Len(loaded) <= Stripes
        BY <1>1, <3>2
      <4>3. e \in Indexes \union {Torn}
        BY <4>1, T2000OK DEF Coloured, Transfers
      <4> QED BY <1>1, <4>1, <4>2, <4>3
    <3> QED BY <3>1, <3>2
  <2> QED BY <1>1, <2>2, <2>3
<1>5. CASE x.cmd # "in" /\ ~header
  <2>1. Obey(x.cmd)
    BY <1>5 DEF Carry
  <2>2. loaded' \in {<<>>, loaded} /\ glass' \in {Picture, None, glass}
    BY <2>1 DEF Obey
  <2>3. loaded' \in Seq(Indexes \union {Torn}) /\ Len(loaded') <= Stripes + 1
    <3>1. CASE loaded' = <<>>
      BY <3>1
    <3>2. CASE loaded' = loaded
      BY <1>1, <3>2
    <3> QED BY <2>2, <3>1, <3>2
  <2>4. reply' \in {"info", "status", None} /\ header' \in BOOLEAN /\ busy' \in BOOLEAN
    BY <1>1, <2>1 DEF Obey
  <2> QED BY <1>1, <1>2, <2>2, <2>3, <2>4
<1> QED BY <1>1, <1>3, <1>4, <1>5, Zenon
Places == {"call", "lock", "reset", "enqueue", "wait"}

HostTypes ==
    /\ bound \in BOOLEAN /\ lock \in Threads \union {None} /\ pool \in 0..Pool
    /\ sem \in {0, 1} /\ err \in {"ok", "error"}
    /\ live \in Transfers \union {None} /\ late \subseteq Transfers
    /\ buf \in Answers \union {None}

ThreadTypes ==
    /\ op \in [Threads -> Ops \union {None}] /\ step \in [Threads -> Nat \ {0}]
    /\ xpc \in [Threads -> Places] /\ index \in [Threads -> Indexes \union {None, Torn}]
    /\ clean \in [Threads -> BOOLEAN]

DisplayTypes ==
    /\ reply \in {"info", "status", None} /\ header \in BOOLEAN
    /\ loaded \in Seq(Indexes \union {Torn}) /\ Len(loaded) <= Stripes + 1
    /\ glass \in Indexes \union {None, Torn} /\ busy \in BOOLEAN

Colours == (live # None => Coloured(live)) /\ \A x \in late : Coloured(x)

\* The parts of the invariant.
LEMMA Parts ==
  TypeInv <=> IInv /\ HostTypes /\ ThreadTypes /\ DisplayTypes /\ InScript /\ Colours
  BY DEF TypeInv, TypeOK, HostTypes, ThreadTypes, DisplayTypes, Colours, Places

\* A thread that moves on, fails or ends keeps the types of the threads.
LEMMA ThreadKept ==
  ASSUME TypeInv, NEW t \in Threads, op[t] # None, clean' = clean,
         \/ /\ UNCHANGED <<op, step, index>>
            /\ \E l \in Places : xpc' = [xpc EXCEPT ![t] = l]
         \/ /\ index' \in {index, [index EXCEPT ![t] = Torn]}
            /\ Fails(t) \/ \E read : Proceed(t, read)
  PROVE  ThreadTypes' /\ InScript'
<1>1. index' \in [Threads -> Indexes \union {None, Torn}] /\ clean' \in [Threads -> BOOLEAN]
  BY DEF TypeInv, TypeOK
<1>2. CASE UNCHANGED <<op, step, index>> /\ \E l \in Places : xpc' = [xpc EXCEPT ![t] = l]
  BY <1>1, <1>2, Moves DEF ThreadTypes, Places
<1>3. CASE /\ index' \in {index, [index EXCEPT ![t] = Torn]}
           /\ Fails(t) \/ \E read : Proceed(t, read)
  <2>1. PICK read : Fails(t) \/ Proceed(t, read)
    BY <1>3
  <2> QED BY <1>1, <2>1, ScriptKept DEF ThreadTypes, Places
<1> QED BY <1>2, <1>3

\* Every step keeps the types.
LEMMA StepTypeInv == TypeInv /\ [Next]_vars => TypeInv'
<1> SUFFICES ASSUME TypeInv, [Next]_vars PROVE TypeInv'
    OBVIOUS
<1> USE T2000OK
<1>a. IInv'
  BY StepIInv DEF TypeInv
<1>b. (pool \in 0..Pool)'
  BY <1>a, PoolBounded, PTL
<1>c. HostTypes /\ ThreadTypes /\ DisplayTypes /\ InScript /\ Colours
  BY Parts
<1> SUFFICES HostTypes' /\ ThreadTypes' /\ DisplayTypes' /\ InScript' /\ Colours'
  BY <1>a DEF TypeInv, TypeOK, HostTypes, ThreadTypes, DisplayTypes, Colours, Places
<1>d. display' = display => DisplayTypes'
  BY <1>c DEF DisplayTypes, display
<1>e. UNCHANGED <<thread, clean>> => ThreadTypes' /\ InScript'
  BY <1>c DEF ThreadTypes, InScript, thread
<1>f. ASSUME NEW t \in Threads, xpc[t] # "call" PROVE op[t] # None
  BY <1>c, <1>f DEF InScript
<1>g. live' = None /\ late' = (IF live = None THEN late ELSE late \union {live})
        => live' \in Transfers \union {None} /\ late' \subseteq Transfers /\ Colours'
  BY <1>c DEF HostTypes, Colours
<1>1. ASSUME NEW t \in Threads, Call(t)
      PROVE  HostTypes' /\ ThreadTypes' /\ DisplayTypes' /\ InScript' /\ Colours'
  <2>1. UNCHANGED host /\ UNCHANGED display
    BY <1>1 DEF Call
  <2>2. HostTypes' /\ Colours'
    BY <1>c, <2>1 DEF HostTypes, Colours, host
  <2>3. /\ op[t] # None /\ index' = index /\ clean' = clean
        /\ (UNCHANGED <<op, step>> /\ xpc' = [xpc EXCEPT ![t] = "lock"]) \/ Fails(t)
    BY <1>1 DEF Call
  <2>4. "lock" \in Places
    BY DEF Places
  <2>5. ThreadTypes' /\ InScript'
    BY <2>3, <2>4, ThreadKept
  <2> QED BY <1>d, <2>1, <2>2, <2>5
<1>2. ASSUME NEW t \in Threads, Lock(t)
      PROVE  HostTypes' /\ ThreadTypes' /\ DisplayTypes' /\ InScript' /\ Colours'
  <2>1. /\ UNCHANGED <<bound, pool, sem, err, live, buf, late, op, step, index, display, clean>>
        /\ lock' = t /\ xpc[t] = "lock" /\ xpc' = [xpc EXCEPT ![t] = "reset"]
    BY <1>2 DEF Lock, history
  <2>2. HostTypes' /\ Colours'
    BY <1>c, <2>1 DEF HostTypes, Colours
  <2>3. op[t] # None
    BY <1>f, <2>1
  <2>4. "reset" \in Places
    BY DEF Places
  <2>5. ThreadTypes' /\ InScript'
    BY <2>1, <2>3, <2>4, ThreadKept
  <2> QED BY <1>d, <2>1, <2>2, <2>5
<1>3. ASSUME NEW t \in Threads, NoMemory(t)
      PROVE  HostTypes' /\ ThreadTypes' /\ DisplayTypes' /\ InScript' /\ Colours'
  <2>1. /\ UNCHANGED <<bound, pool, sem, err, live, buf, late, index, display, clean>>
        /\ lock' = None /\ xpc[t] = "reset" /\ Fails(t)
    BY <1>3 DEF NoMemory
  <2>2. HostTypes' /\ Colours'
    BY <1>c, <2>1 DEF HostTypes, Colours
  <2>3. op[t] # None
    BY <1>f, <2>1
  <2>5. ThreadTypes' /\ InScript'
    BY <2>1, <2>3, ThreadKept
  <2> QED BY <1>d, <2>1, <2>2, <2>5
<1>4. ASSUME NEW t \in Threads, Reset(t)
      PROVE  HostTypes' /\ ThreadTypes' /\ DisplayTypes' /\ InScript' /\ Colours'
  <2>1. /\ UNCHANGED <<bound, lock, live, late, op, step, index, display, clean>>
        /\ sem' = 0 /\ err' = "ok" /\ buf' = None
        /\ xpc[t] = "reset" /\ xpc' = [xpc EXCEPT ![t] = "enqueue"]
    BY <1>4 DEF Reset, history
  <2>2. HostTypes' /\ Colours'
    BY <1>b, <1>c, <2>1 DEF HostTypes, Colours
  <2>3. op[t] # None
    BY <1>f, <2>1
  <2>4. "enqueue" \in Places
    BY DEF Places
  <2>5. ThreadTypes' /\ InScript'
    BY <2>1, <2>3, <2>4, ThreadKept
  <2> QED BY <1>d, <2>1, <2>2, <2>5
<1>5. ASSUME NEW t \in Threads, Enqueue(t)
      PROVE  HostTypes' /\ ThreadTypes' /\ DisplayTypes' /\ InScript' /\ Colours'
  <2>1. /\ UNCHANGED <<bound, lock, pool, sem, err, buf, late, op, step, index, display, clean>>
        /\ live' = [cmd |-> Current(t), index |-> index[t]]
        /\ xpc[t] = "enqueue" /\ xpc' = [xpc EXCEPT ![t] = "wait"]
    BY <1>5 DEF Enqueue, history
  <2>3. op[t] # None
    BY <1>f, <2>1
  <2>6. Current(t) \in Commands /\ (Current(t) = "stripe" => index[t] \in Indexes \union {Torn})
    BY <2>3, CurrentIs
  <2>7. live' \in Transfers /\ Coloured(live')
    BY <1>c, <2>1, <2>6 DEF Transfers, Coloured, ThreadTypes
  <2>2. HostTypes' /\ Colours'
    BY <1>c, <2>1, <2>7 DEF HostTypes, Colours
  <2>4. "wait" \in Places
    BY DEF Places
  <2>5. ThreadTypes' /\ InScript'
    BY <2>1, <2>3, <2>4, ThreadKept
  <2> QED BY <1>d, <2>1, <2>2, <2>5
<1>6. ASSUME NEW t \in Threads, EnqueueFails(t)
      PROVE  HostTypes' /\ ThreadTypes' /\ DisplayTypes' /\ InScript' /\ Colours'
  <2>1. /\ UNCHANGED <<bound, sem, err, live, buf, late, index, display, clean>>
        /\ lock' = None /\ xpc[t] = "enqueue" /\ Fails(t)
    BY <1>6 DEF EnqueueFails
  <2>2. HostTypes' /\ Colours'
    BY <1>b, <1>c, <2>1 DEF HostTypes, Colours
  <2>3. op[t] # None
    BY <1>f, <2>1
  <2>5. ThreadTypes' /\ InScript'
    BY <2>1, <2>3, ThreadKept
  <2> QED BY <1>d, <2>1, <2>2, <2>5
<1>7. ASSUME NEW t \in Threads, Done(t)
      PROVE  HostTypes' /\ ThreadTypes' /\ DisplayTypes' /\ InScript' /\ Colours'
  <2>1. /\ UNCHANGED <<bound, err, buf, display, clean>>
        /\ sem' = 0 /\ lock' = None /\ xpc[t] = "wait"
        /\ live' = None /\ late' = IF live = None THEN late ELSE late \union {live}
        /\ index' \in {index, [index EXCEPT ![t] = Torn]}
        /\ Fails(t) \/ \E read : Proceed(t, read)
    BY <1>7 DEF Done, GoOn
  <2>2. HostTypes' /\ Colours'
    BY <1>b, <1>c, <1>g, <2>1 DEF HostTypes
  <2>3. op[t] # None
    BY <1>f, <2>1
  <2>5. ThreadTypes' /\ InScript'
    BY <2>1, <2>3, ThreadKept
  <2> QED BY <1>d, <2>1, <2>2, <2>5
<1>8. ASSUME NEW t \in Threads, TimesOut(t)
      PROVE  HostTypes' /\ ThreadTypes' /\ DisplayTypes' /\ InScript' /\ Colours'
  <2>1. /\ UNCHANGED <<bound, pool, sem, err, buf, index, display, clean>>
        /\ lock' = None /\ xpc[t] = "wait" /\ Fails(t)
        /\ live' = None /\ late' = IF live = None THEN late ELSE late \union {live}
    BY <1>8 DEF TimesOut
  <2>2. HostTypes' /\ Colours'
    BY <1>c, <1>g, <2>1 DEF HostTypes
  <2>3. op[t] # None
    BY <1>f, <2>1
  <2>5. ThreadTypes' /\ InScript'
    BY <2>1, <2>3, ThreadKept
  <2> QED BY <1>d, <2>1, <2>2, <2>5
<1>9. ASSUME Complete
      PROVE  HostTypes' /\ ThreadTypes' /\ DisplayTypes' /\ InScript' /\ Colours'
  <2>1. /\ live # None /\ live' = None /\ UNCHANGED <<bound, lock, pool, late, thread, clean>>
        /\ \/ Carry(live) /\ Callback("ok") /\ buf' \in {Answered, None}
           \/ Callback("error") /\ UNCHANGED <<buf, display>>
    BY <1>9 DEF Complete, thread, history
  <2>2. live \in Transfers /\ Coloured(live)
    BY <1>c, <2>1 DEF HostTypes, Colours
  <2>3. buf' \in Answers \union {None} /\ sem' \in {0, 1} /\ err' \in {"ok", "error"}
    BY <1>c, <2>1 DEF Callback, Answered, Answers, HostTypes
  <2>4. HostTypes' /\ Colours'
    BY <1>c, <2>1, <2>3 DEF HostTypes, Colours
  <2>5. DisplayTypes'
    <3>1. CASE Carry(live)
      <4>1. PICK x \in Transfers : x = live
        BY <2>2
      <4> QED BY <2>2, <3>1, <4>1, CarryTypes DEF DisplayTypes, TypeInv
    <3>2. CASE UNCHANGED display
      BY <1>d, <3>2
    <3> QED BY <2>1, <3>1, <3>2
  <2> QED BY <1>e, <2>1, <2>4, <2>5
<1>10. ASSUME NEW x \in late, CompleteLate(x)
       PROVE  HostTypes' /\ ThreadTypes' /\ DisplayTypes' /\ InScript' /\ Colours'
  <2>1. /\ late' = late \ {x} /\ UNCHANGED <<bound, lock, pool, live, buf, thread>>
        /\ clean' = [t \in Threads |-> FALSE]
        /\ \/ UNCHANGED <<sem, err, display>>
           \/ Carry(x) /\ Callback("ok")
           \/ Callback("error") /\ UNCHANGED display
    BY <1>10 DEF CompleteLate, thread
  <2>2. x \in Transfers /\ Coloured(x)
    BY <1>c DEF HostTypes, Colours
  <2>3. sem' \in {0, 1} /\ err' \in {"ok", "error"}
    BY <1>c, <2>1 DEF Callback, HostTypes
  <2>4. HostTypes' /\ Colours'
    BY <1>c, <2>1, <2>3 DEF HostTypes, Colours
  <2>5. DisplayTypes'
    <3>1. CASE Carry(x)
      BY <2>2, <3>1, CarryTypes DEF DisplayTypes, TypeInv
    <3>2. CASE UNCHANGED display
      BY <1>d, <3>2
    <3> QED BY <2>1, <3>1, <3>2
  <2>6. ThreadTypes' /\ InScript'
    BY <1>c, <2>1 DEF ThreadTypes, InScript, thread
  <2> QED BY <2>4, <2>5, <2>6
<1>11. ASSUME Settle
       PROVE  HostTypes' /\ ThreadTypes' /\ DisplayTypes' /\ InScript' /\ Colours'
  <2>1. busy' = FALSE /\ UNCHANGED <<host, thread, clean, reply, header, loaded, glass>>
    BY <1>11 DEF Settle, history
  <2>2. DisplayTypes'
    BY <1>c, <2>1 DEF DisplayTypes
  <2>3. HostTypes' /\ Colours'
    BY <1>c, <2>1 DEF HostTypes, Colours, host
  <2> QED BY <1>e, <2>1, <2>2, <2>3
<1>12. ASSUME Attach
       PROVE  HostTypes' /\ ThreadTypes' /\ DisplayTypes' /\ InScript' /\ Colours'
  <2>1. /\ bound' = TRUE
        /\ UNCHANGED <<lock, pool, sem, err, live, buf, late, thread, display, clean>>
    BY <1>12 DEF Attach, history
  <2>2. HostTypes' /\ Colours'
    BY <1>c, <2>1 DEF HostTypes, Colours
  <2> QED BY <1>d, <1>e, <2>1, <2>2
<1>13. ASSUME Detach
       PROVE  HostTypes' /\ ThreadTypes' /\ DisplayTypes' /\ InScript' /\ Colours'
  <2>1. /\ bound' = FALSE /\ reply' = None /\ header' = FALSE /\ loaded' = <<>> /\ busy' = FALSE
        /\ UNCHANGED <<lock, pool, sem, err, live, buf, late, thread, glass>>
        /\ clean' = [t \in Threads |-> FALSE]
    BY <1>13 DEF Detach
  <2>2. HostTypes' /\ Colours'
    BY <1>c, <2>1 DEF HostTypes, Colours
  <2>3. loaded' \in Seq(Indexes \union {Torn}) /\ Len(loaded') <= Stripes + 1
    BY <2>1
  <2>4. DisplayTypes'
    BY <1>c, <2>1, <2>3 DEF DisplayTypes
  <2>5. ThreadTypes' /\ InScript'
    BY <1>c, <2>1 DEF ThreadTypes, InScript, thread
  <2> QED BY <2>2, <2>4, <2>5
<1>14. ASSUME NEW t \in Threads, NEW o \in Ops, NEW i \in Indexes, Give(t, o, i)
       PROVE  HostTypes' /\ ThreadTypes' /\ DisplayTypes' /\ InScript' /\ Colours'
  <2>1. /\ op[t] = None /\ UNCHANGED <<host, xpc, display>>
        /\ op' = [op EXCEPT ![t] = o] /\ step' = [step EXCEPT ![t] = 1]
        /\ index' = [index EXCEPT ![t] = IF o = "fill" THEN i ELSE None]
    BY <1>14 DEF Give
  <2>2. HostTypes' /\ Colours'
    BY <1>c, <2>1 DEF HostTypes, Colours, host
  <2>3. clean' \in [Threads -> BOOLEAN]
    <3> DEFINE alone == late = {} /\ \A u \in Threads : op[u] = None
    <3>1. alone \in BOOLEAN
      OBVIOUS
    <3>2. clean' = [u \in Threads |-> IF u = t THEN alone ELSE FALSE]
      BY <1>14 DEF Give
    <3> HIDE DEF alone
    <3> QED BY <3>1, <3>2
  <2>4. ThreadTypes'
    <3>1. op' \in [Threads -> Ops \union {None}]
      BY <1>c, <2>1 DEF ThreadTypes
    <3>2. step' \in [Threads -> Nat \ {0}]
      BY <1>c, <2>1 DEF ThreadTypes
    <3>3. index' \in [Threads -> Indexes \union {None, Torn}]
      <4> DEFINE n == IF o = "fill" THEN i ELSE None
      <4>1. n \in Indexes \union {None, Torn} /\ index' = [index EXCEPT ![t] = n]
        BY <2>1
      <4> HIDE DEF n
      <4> QED BY <1>c, <4>1 DEF ThreadTypes
    <3> QED BY <1>c, <2>1, <2>3, <3>1, <3>2, <3>3 DEF ThreadTypes
  <2>5. 1 \in 1..Len(Script(o))
    <3>1. Len(Script(o)) \in Nat /\ Len(Script(o)) >= 3
      BY LastReads
    <3> QED BY <3>1
  <2>6. InScript'
    <3> SUFFICES ASSUME NEW u \in Threads
                 PROVE  /\ op'[u] = None => xpc'[u] = "call"
                        /\ op'[u] # None => step'[u] \in 1..Len(Script(op'[u]))
                        /\ op'[u] = "fill" => index'[u] \in Indexes \union {Torn}
      BY DEF InScript
    <3>1. CASE u = t
      BY <1>c, <2>1, <2>5, <3>1 DEF InScript, ThreadTypes
    <3>2. CASE u # t
      <4>1. op'[u] = op[u] /\ step'[u] = step[u] /\ xpc'[u] = xpc[u] /\ index'[u] = index[u]
        BY <1>c, <2>1, <3>2 DEF ThreadTypes
      <4> QED BY <1>c, <4>1 DEF InScript
    <3> QED BY <3>1, <3>2
  <2> QED BY <1>d, <2>1, <2>2, <2>4, <2>6
<1>15. ASSUME UNCHANGED vars
       PROVE  HostTypes' /\ ThreadTypes' /\ DisplayTypes' /\ InScript' /\ Colours'
  <2>1. UNCHANGED <<host, thread, display, clean>>
    BY <1>15 DEF vars, history
  <2>2. HostTypes' /\ Colours'
    BY <1>c, <2>1 DEF HostTypes, Colours, host
  <2> QED BY <1>d, <1>e, <2>1, <2>2
<1>16. ASSUME NEW t \in Threads, Thread(t)
       PROVE  HostTypes' /\ ThreadTypes' /\ DisplayTypes' /\ InScript' /\ Colours'
  BY <1>1, <1>2, <1>3, <1>4, <1>5, <1>6, <1>7, <1>8, <1>16 DEF Thread
<1>17. ASSUME Usb
       PROVE  HostTypes' /\ ThreadTypes' /\ DisplayTypes' /\ InScript' /\ Colours'
  BY <1>9, <1>10, <1>11, <1>12, <1>13, <1>17 DEF Usb
<1> QED BY <1>14, <1>15, <1>16, <1>17 DEF Next

\* Every state has the types, for any fill indexes, number of stripes, pool and bounds: no
\* script is left at a position it does not have, and the pool is never given more than it
\* lent (t2000_priv, bulk_xfer).
THEOREM TypeCorrect == Spec => []TypeOK
<1>1. TypeInv => TypeOK
  BY DEF TypeInv
<1> QED BY <1>1, InitTypeInv, StepTypeInv, PTL DEF Spec

\* Nobody waits for a lock that is not coming back: the thread that has xfer_lock is inside
\* bulk_xfer and in a command, so that no failure, timeout or removal leaves it locked.
THEOREM LockIsReturned ==
    Spec => [](\A t \in Threads : lock = t => xpc[t] \in Locked /\ op[t] # None)
<1>1. TypeInv => \A t \in Threads : lock = t => xpc[t] \in Locked /\ op[t] # None
  BY DEF TypeInv, IInv, Exclusion, InScript
<1> QED BY <1>1, InitTypeInv, StepTypeInv, PTL DEF Spec
-----------------------------------------------------------------------------
(* What success means.                                                     *)

\* The transfer the controller has is the one its thread waits for.
LiveIsAwaited ==
    live # None =>
        \E t \in Threads : xpc[t] = "wait" /\ live = [cmd |-> Current(t), index |-> index[t]]

Undisturbed(t) == op[t] # None /\ clean[t]

\* An undisturbed command is the only one.
Alone ==
    \A t \in Threads : Undisturbed(t) => late = {} /\ \A u \in Threads : u # t => op[u] = None

\* The thread waits, and the callback has said that its transfer went well.
Succeeds(t) == xpc[t] = "wait" /\ sem = 1 /\ err = "ok"

\* The semaphore of an undisturbed command says that its own transfer has ended.
Told ==
    \A t \in Threads :
        Undisturbed(t) =>
            /\ xpc[t] = "enqueue" => sem = 0
            /\ xpc[t] = "wait" => (sem = 1 <=> live = None)

\* The transfers of its script that the display has obeyed.
Obeyed(t) == IF Succeeds(t) THEN step[t] ELSE step[t] - 1

Filled(i, m) == Len(loaded) = m /\ \A k \in 1..m : loaded[k] = i

\* The display after the first d transfers of a fill with index i.
Reached(i, d) ==
    /\ d >= 1 => (header <=> \E m \in 0..(Stripes - 1) : d = 6 + 2 * m)
    /\ d = 4 => Filled(i, 0)
    /\ \A m \in 0..Stripes : d = 5 + 2 * m \/ (d = 6 + 2 * m /\ m < Stripes) => Filled(i, m)
    /\ d >= 6 + 2 * Stripes => glass = i

\* An undisturbed fill has brought the display where its position in the script says.
Fills(t) == op[t] = "fill" /\ index[t] # Torn
Progress == \A t \in Threads : Undisturbed(t) /\ Fills(t) => Reached(index[t], Obeyed(t))

SInv == TypeInv /\ LiveIsAwaited /\ Alone /\ Told /\ Progress

\* The display obeys the next transfer of a fill.
LEMMA Obeys ==
  ASSUME TypeOK, NEW i \in Indexes, NEW s \in 1..(9 + 2 * Stripes), NEW x,
         x.cmd = Fill[s], x.index = i, Reached(i, s - 1), Carry(x)
  PROVE  Reached(i, s)'
<1>0. Stripes \in Nat /\ Stripes > 0
  BY T2000OK
<1>1. loaded \in Seq(Indexes \union {Torn})
  BY DEF TypeOK
<1>2. CASE s \in {1, 2, 3}
  <2>1. x.cmd \in {"info", "read info", "in"} /\ (x.cmd = "in" => ~header)
    <3>1. (s = 1 => x.cmd = "info") /\ (s = 2 => x.cmd = "read info") /\ (s = 3 => x.cmd = "in")
      BY FillIs
    <3>2. s # 1 => ~header
      BY <1>0, <1>2 DEF Reached
    <3> QED BY <1>2, <3>1, <3>2
  <2>2. ~header'
    BY <2>1 DEF Carry, Load, Obey
  <2> QED BY <1>0, <1>2, <2>2 DEF Reached
<1>3. CASE s = 4
  <2>1. x.cmd = "multi" /\ ~header
    <3>1. x.cmd = "multi"
      BY <1>3, FillIs
    <3>2. s - 1 >= 1 /\ ~\E m \in 0..(Stripes - 1) : s - 1 = 6 + 2 * m
      BY <1>0, <1>3
    <3> QED BY <3>1, <3>2 DEF Reached
  <2>2. ~header' /\ loaded' = <<>>
    BY <2>1 DEF Carry, Obey
  <2>3. Filled(i, 0)'
    BY <2>2 DEF Filled
  <2> QED BY <1>0, <1>3, <2>2, <2>3 DEF Reached
<1>4. CASE s = 5
  <2>1. x.cmd = "mode" /\ ~header /\ Filled(i, 0)
    <3>1. x.cmd = "mode"
      BY <1>4, FillIs
    <3>2. s - 1 >= 1 /\ s - 1 = 4 /\ ~\E m \in 0..(Stripes - 1) : s - 1 = 6 + 2 * m
      BY <1>0, <1>4
    <3> QED BY <3>1, <3>2 DEF Reached
  <2>2. ~header' /\ loaded' = loaded
    BY <2>1 DEF Carry, Obey
  <2>3. Filled(i, 0)'
    BY <2>1, <2>2 DEF Filled
  <2> QED BY <1>0, <1>4, <2>2, <2>3 DEF Reached
<1>5. ASSUME NEW m \in 0..(Stripes - 1), s = 6 + 2 * m
      PROVE  Reached(i, s)'
  <2>1. s - 1 = 5 + 2 * m /\ m \in 0..Stripes
    BY <1>0, <1>5
  <2>2. ~header /\ Filled(i, m)
    BY <1>0, <2>1 DEF Reached
  <2>3. x.cmd = "header"
    BY <1>5, FillIs
  <2>4. header' = TRUE /\ loaded' = loaded
    BY <2>2, <2>3 DEF Carry, Obey
  <2>5. Filled(i, m)'
    BY <2>2, <2>4 DEF Filled
  <2> QED BY <1>0, <1>5, <2>4, <2>5 DEF Reached
<1>6. ASSUME NEW m \in 0..(Stripes - 1), s = 7 + 2 * m
      PROVE  Reached(i, s)'
  <2>1. s - 1 = 6 + 2 * m /\ m \in 0..Stripes /\ m < Stripes
    BY <1>0, <1>6
  <2>2. header /\ Filled(i, m)
    BY <1>0, <2>1 DEF Reached
  <2>3. x.cmd = "stripe"
    BY <1>6, FillIs
  <2>4. header' = FALSE /\ loaded' = Append(loaded, i)
    BY <1>0, <2>1, <2>2, <2>3 DEF Carry, Load, Filled
  <2>5. Filled(i, m + 1)'
    BY <1>1, <2>1, <2>2, <2>4 DEF Filled
  <2>6. s = 5 + 2 * (m + 1)
    BY <1>6
  <2>7. ~\E k \in 0..(Stripes - 1) : s = 6 + 2 * k
    BY <1>0, <1>6
  <2>8. s # 4 /\ s < 6 + 2 * Stripes
    BY <1>0, <1>6
  <2>9. \A k \in 0..Stripes : s = 5 + 2 * k \/ (s = 6 + 2 * k /\ k < Stripes) => k = m + 1
    BY <1>0, <2>6, <2>7
  <2>10. \A k \in 0..Stripes :
           s = 5 + 2 * k \/ (s = 6 + 2 * k /\ k < Stripes) => Filled(i, k)'
    BY <1>0, <2>5, <2>9 DEF Filled
  <2>11. header' <=> \E k \in 0..(Stripes - 1) : s = 6 + 2 * k
    BY <2>4, <2>7
  <2>12. ~(s >= 6 + 2 * Stripes)
    BY <1>0, <2>8
  <2> QED BY <2>8, <2>10, <2>11, <2>12, Zenon DEF Reached
<1>7. CASE s = 6 + 2 * Stripes
  <2>1. s - 1 = 5 + 2 * Stripes /\ Stripes \in 0..Stripes
    BY <1>0, <1>7
  <2>2. ~header /\ Filled(i, Stripes)
    BY <1>0, <2>1 DEF Reached
  <2>3. x.cmd = "trigger"
    BY <1>7, FillIs
  <2>4. Picture = i
    <3>1. loaded = Solid(i)
      BY <1>0, <1>1, <2>2 DEF Filled, Solid
    <3>2. loaded[1] = i
      BY <1>0, <2>2 DEF Filled
    <3> QED BY <3>1, <3>2 DEF Picture
  <2>5. header' = FALSE /\ glass' = i
    BY <2>2, <2>3, <2>4 DEF Carry, Obey
  <2> QED BY <1>0, <1>7, <2>5 DEF Reached
<1>8. CASE s \in (7 + 2 * Stripes)..(9 + 2 * Stripes)
  <2>1. ~header /\ glass = i
    BY <1>0, <1>8 DEF Reached
  <2>2. x.cmd \in {"status", "read status", "in"}
    <3>1. s = 7 + 2 * Stripes \/ s = 8 + 2 * Stripes \/ s = 9 + 2 * Stripes
      BY <1>0, <1>8
    <3> QED BY <3>1, FillIs
  <2>3. ~header' /\ glass' = glass
    BY <2>1, <2>2 DEF Carry, Obey
  <2> QED BY <1>0, <1>8, <2>1, <2>3 DEF Reached
<1>9. \/ s \in 1..5 \/ \E m \in 0..(Stripes - 1) : s = 6 + 2 * m \/ s = 7 + 2 * m
      \/ s \in (6 + 2 * Stripes)..(9 + 2 * Stripes)
  BY Positions
<1> QED BY <1>0, <1>2, <1>3, <1>4, <1>5, <1>6, <1>7, <1>8, <1>9

LEMMA InitSInv == Init => SInv
<1> SUFFICES ASSUME Init PROVE SInv
    OBVIOUS
<1>1. live = None /\ \A t \in Threads : op[t] = None
  BY DEF Init
<1>2. \A t \in Threads : ~Undisturbed(t)
  BY <1>1 DEF Undisturbed
<1> QED BY <1>1, <1>2, InitTypeInv DEF SInv, LiveIsAwaited, Alone, Told, Progress

\* A command that t gives, fails or ends with is no concern of the others', and a step that
\* leaves the transfers and the display alone keeps what is known of both.
LEMMA Quiet ==
  ASSUME SInv, UNCHANGED <<sem, err, live, late, header, loaded, glass>>,
         \A u \in Threads :
             op'[u] # None =>
                 /\ op'[u] = op[u] /\ step'[u] = step[u] /\ index'[u] = index[u]
                 /\ clean'[u] = clean[u] /\ (xpc'[u] = "wait" <=> xpc[u] = "wait")
                 /\ (xpc'[u] = "enqueue" => xpc[u] = "enqueue"),
         \A u \in Threads : op'[u] = None => op[u] = None \/ xpc[u] # "wait"
  PROVE  LiveIsAwaited' /\ Alone' /\ Told' /\ Progress'
<1>1. \A u \in Threads : Undisturbed(u)' => Undisturbed(u)
  BY DEF Undisturbed
<1>2. \A u \in Threads : op[u] = None => op'[u] = None
  OBVIOUS
<1>3. \A u \in Threads : op'[u] # None => Current(u)' = Current(u)
  BY DEF Current
<1>4. \A u \in Threads : op'[u] # None => (Succeeds(u)' <=> Succeeds(u))
  BY DEF Succeeds
<1>5. \A u \in Threads : op'[u] # None => Obeyed(u)' = Obeyed(u)
  BY <1>4 DEF Obeyed
<1>6. LiveIsAwaited'
  <2> SUFFICES ASSUME live # None PROVE LiveIsAwaited'
    BY DEF LiveIsAwaited
  <2>1. PICK t \in Threads : xpc[t] = "wait" /\ live = [cmd |-> Current(t), index |-> index[t]]
    BY DEF SInv, LiveIsAwaited
  <2>2. op[t] # None
    BY <2>1 DEF SInv, TypeInv, InScript
  <2>3. op'[t] # None
    BY <2>1, <2>2
  <2>4. xpc'[t] = "wait" /\ Current(t)' = Current(t) /\ index'[t] = index[t] /\ live' = live
    BY <1>3, <2>1, <2>3
  <2> QED BY <2>1, <2>4 DEF LiveIsAwaited
<1>7. Alone'
  BY <1>1, <1>2 DEF SInv, Alone
<1>8. Told'
  <2> SUFFICES ASSUME NEW u \in Threads, Undisturbed(u)'
               PROVE  /\ xpc'[u] = "enqueue" => sem' = 0
                      /\ xpc'[u] = "wait" => (sem' = 1 <=> live' = None)
    BY DEF Told
  <2>1. op'[u] # None /\ Undisturbed(u)
    BY <1>1 DEF Undisturbed
  <2>2. /\ xpc[u] = "enqueue" => sem = 0
        /\ xpc[u] = "wait" => (sem = 1 <=> live = None)
    BY <2>1 DEF SInv, Told
  <2> QED BY <2>1, <2>2
<1>9. Progress'
  <2> SUFFICES ASSUME NEW u \in Threads, Undisturbed(u)', Fills(u)'
               PROVE  Reached(index[u], Obeyed(u))'
    BY DEF Progress
  <2>1. op'[u] # None /\ Undisturbed(u)
    BY <1>1 DEF Undisturbed
  <2>2. Reached(index[u], Obeyed(u))
    BY <2>1 DEF SInv, Progress, Fills
  <2>3. index'[u] = index[u] /\ Obeyed(u)' = Obeyed(u)
    BY <1>5, <2>1
  <2> QED BY <2>2, <2>3 DEF Reached, Filled
<1> QED BY <1>6, <1>7, <1>8, <1>9

\* A thread in bulk_xfer is the only one there, and no other command is undisturbed.
LEMMA Others ==
  ASSUME SInv, NEW t \in Threads, NEW u \in Threads, u # t
  PROVE  /\ xpc[t] \in Locked => xpc[u] \notin Locked
         /\ op[t] # None => ~Undisturbed(u)
  BY DEF SInv, TypeInv, IInv, Exclusion, Alone

\* Without an undisturbed command there is little to know.
LEMMA Disturbed ==
  ASSUME \A u \in Threads : ~Undisturbed(u)'
  PROVE  Alone' /\ Told' /\ Progress'
  BY DEF Alone, Told, Progress

\* Every step keeps what success means.
LEMMA StepSInv == SInv /\ [Next]_vars => SInv'
<1> SUFFICES ASSUME SInv, [Next]_vars PROVE SInv'
    OBVIOUS
<1> USE T2000OK
<1>a. TypeInv /\ TypeInv'
  BY StepTypeInv DEF SInv
<1> SUFFICES LiveIsAwaited' /\ Alone' /\ Told' /\ Progress'
  BY <1>a DEF SInv
<1>b. ThreadTypes /\ HostTypes /\ InScript /\ ThreadTypes'
  BY <1>a, Parts DEF TypeInv, TypeOK, ThreadTypes, Places
<1>c. ASSUME NEW t \in Threads, xpc[t] # "call" PROVE op[t] # None
  BY <1>b, <1>c DEF InScript
<1>d. ASSUME NEW t \in Threads, Fails(t), clean' = clean, index' = index, xpc[t] # "wait",
             UNCHANGED <<sem, err, live, late, header, loaded, glass>>
      PROVE  LiveIsAwaited' /\ Alone' /\ Told' /\ Progress'
  <2>1. /\ op' = [op EXCEPT ![t] = None] /\ step' = [step EXCEPT ![t] = 1]
        /\ xpc' = [xpc EXCEPT ![t] = "call"]
    BY <1>d DEF Fails, End
  <2>2. ASSUME NEW u \in Threads, op'[u] # None
        PROVE  op'[u] = op[u] /\ step'[u] = step[u] /\ xpc'[u] = xpc[u]
    BY <1>b, <2>1, <2>2 DEF ThreadTypes
  <2>3. ASSUME NEW u \in Threads, op'[u] = None PROVE op[u] = None \/ xpc[u] # "wait"
    BY <1>b, <1>d, <2>1, <2>3 DEF ThreadTypes
  <2> QED BY <1>d, <2>2, <2>3, Quiet
<1>1. ASSUME NEW t \in Threads, Call(t) PROVE LiveIsAwaited' /\ Alone' /\ Told' /\ Progress'
  <2>1. /\ xpc[t] = "call" /\ UNCHANGED <<host, display, index, clean>>
        /\ (UNCHANGED <<op, step>> /\ xpc' = [xpc EXCEPT ![t] = "lock"]) \/ Fails(t)
    BY <1>1 DEF Call
  <2>2. CASE Fails(t)
    BY <1>d, <2>1, <2>2 DEF host, display
  <2>3. CASE UNCHANGED <<op, step>> /\ xpc' = [xpc EXCEPT ![t] = "lock"]
    <3>1. \A u \in Threads : (xpc'[u] = "wait" <=> xpc[u] = "wait")
                             /\ (xpc'[u] = "enqueue" => xpc[u] = "enqueue")
      BY <1>b, <2>1, <2>3 DEF ThreadTypes
    <3> QED BY <2>1, <2>3, <3>1, Quiet DEF host, display
  <2> QED BY <2>1, <2>2, <2>3
<1>2. ASSUME NEW t \in Threads, Lock(t) PROVE LiveIsAwaited' /\ Alone' /\ Told' /\ Progress'
  <2>1. /\ xpc[t] = "lock" /\ UNCHANGED <<sem, err, live, late, buf, display, op, step, index, clean>>
        /\ xpc' = [xpc EXCEPT ![t] = "reset"]
    BY <1>2 DEF Lock, history
  <2>2. \A u \in Threads : (xpc'[u] = "wait" <=> xpc[u] = "wait")
                           /\ (xpc'[u] = "enqueue" => xpc[u] = "enqueue")
    BY <1>b, <2>1 DEF ThreadTypes
  <2> QED BY <2>1, <2>2, Quiet DEF display
<1>3. ASSUME NEW t \in Threads, NoMemory(t) PROVE LiveIsAwaited' /\ Alone' /\ Told' /\ Progress'
  <2>1. /\ xpc[t] = "reset" /\ UNCHANGED <<sem, err, live, late, buf, display, index, clean>>
        /\ Fails(t)
    BY <1>3 DEF NoMemory
  <2> QED BY <1>d, <2>1 DEF display
<1>4. ASSUME NEW t \in Threads, Reset(t) PROVE LiveIsAwaited' /\ Alone' /\ Told' /\ Progress'
  <2>1. /\ xpc[t] = "reset" /\ xpc' = [xpc EXCEPT ![t] = "enqueue"] /\ sem' = 0
        /\ UNCHANGED <<live, late, display, op, step, index, clean>>
    BY <1>4 DEF Reset, history
  <2>2. ASSUME NEW u \in Threads PROVE xpc[u] # "wait" /\ xpc'[u] # "wait"
    <3>1. u # t => xpc[u] \notin Locked
      BY <2>1, Others
    <3> QED BY <1>b, <2>1, <3>1 DEF ThreadTypes
  <2>3. live = None /\ live' = None
    BY <2>1, <2>2 DEF SInv, LiveIsAwaited
  <2>4. LiveIsAwaited' /\ Alone'
    BY <2>1, <2>3 DEF SInv, LiveIsAwaited, Alone, Undisturbed
  <2>5. \A u \in Threads : ~Succeeds(u) /\ ~Succeeds(u)' /\ Obeyed(u)' = Obeyed(u)
    BY <2>1, <2>2 DEF Succeeds, Obeyed
  <2>6. Told'
    BY <2>1, <2>2, <2>5 DEF Told
  <2>7. Progress'
    <3> SUFFICES ASSUME NEW u \in Threads, Undisturbed(u)', Fills(u)'
                 PROVE  Reached(index[u], Obeyed(u))'
      BY DEF Progress
    <3>1. Reached(index[u], Obeyed(u))
      BY <2>1 DEF SInv, Progress, Fills, Undisturbed
    <3> QED BY <2>1, <2>5, <3>1 DEF Reached, Filled, display
  <2> QED BY <2>4, <2>6, <2>7
<1>5. ASSUME NEW t \in Threads, Enqueue(t) PROVE LiveIsAwaited' /\ Alone' /\ Told' /\ Progress'
  <2>1. /\ xpc[t] = "enqueue" /\ xpc' = [xpc EXCEPT ![t] = "wait"]
        /\ live' = [cmd |-> Current(t), index |-> index[t]]
        /\ UNCHANGED <<sem, err, buf, late, display, op, step, index, clean>>
    BY <1>5 DEF Enqueue, history
  <2>2. op[t] # None
    BY <1>c, <2>1
  <2>3. live' # None
    <3>1. Current(t) \in Commands
      BY <1>a, <2>2, CurrentIs
    <3>2. live' \in Transfers
      BY <1>b, <2>1, <3>1 DEF Transfers, ThreadTypes
    <3> QED BY <3>2, NoneIsNew
  <2>4. LiveIsAwaited'
    <3>1. xpc'[t] = "wait" /\ Current(t)' = Current(t) /\ index'[t] = index[t]
      BY <1>b, <2>1 DEF ThreadTypes, Current
    <3> QED BY <2>1, <3>1 DEF LiveIsAwaited
  <2>5. Alone'
    BY <2>1 DEF SInv, Alone, Undisturbed
  <2>6. ASSUME NEW u \in Threads, Undisturbed(u)' PROVE u = t /\ Undisturbed(t)
    BY <2>1, <2>2, <2>6, Others DEF Undisturbed
  <2>7. Undisturbed(t) => sem = 0
    BY <2>1 DEF SInv, Told
  <2>8. Undisturbed(t) => ~Succeeds(t) /\ ~Succeeds(t)' /\ Obeyed(t)' = Obeyed(t)
    BY <2>1, <2>7 DEF Succeeds, Obeyed
  <2>9. Told'
    <3>1. xpc'[t] = "wait"
      BY <1>b, <2>1 DEF ThreadTypes
    <3>2. sem' = sem
      BY <2>1
    <3> QED BY <2>3, <2>6, <2>7, <2>8, <3>1, <3>2 DEF Told
  <2>10. Progress'
    <3> SUFFICES ASSUME Undisturbed(t), Fills(t)' PROVE Reached(index[t], Obeyed(t))'
      BY <2>6 DEF Progress
    <3>1. Reached(index[t], Obeyed(t))
      BY <2>1 DEF SInv, Progress, Fills
    <3> QED BY <2>1, <2>8, <3>1 DEF Reached, Filled, display
  <2> QED BY <2>4, <2>5, <2>9, <2>10
<1>6. ASSUME NEW t \in Threads, EnqueueFails(t) PROVE LiveIsAwaited' /\ Alone' /\ Told' /\ Progress'
  <2>1. /\ xpc[t] = "enqueue" /\ UNCHANGED <<sem, err, live, late, buf, display, index, clean>>
        /\ Fails(t)
    BY <1>6 DEF EnqueueFails
  <2> QED BY <1>d, <2>1 DEF display
<1>7. ASSUME NEW t \in Threads, Done(t) PROVE LiveIsAwaited' /\ Alone' /\ Told' /\ Progress'
  <2>1. /\ xpc[t] = "wait" /\ sem = 1 /\ live' = None
        /\ late' = (IF live = None THEN late ELSE late \union {live})
        /\ UNCHANGED <<display, clean>> /\ index' \in {index, [index EXCEPT ![t] = Torn]}
        /\ Fails(t) \/ (Succeeded /\ \E read \in Read(t) : Proceed(t, read))
    BY <1>7 DEF Done, GoOn
  <2>2. op[t] # None
    BY <1>c, <2>1
  <2>3. xpc' = [xpc EXCEPT ![t] = "call"]
    BY <2>1, EndCalls
  <2>4. \/ Fails(t)
        \/ /\ Succeeded /\ op' = op
           /\ \/ step[t] < Len(Script(op[t])) /\ step' = [step EXCEPT ![t] = @ + 1]
              \/ ~(step[t] < Len(Script(op[t]))) /\ step' = [step EXCEPT ![t] = @ - 2]
        \/ op' = [op EXCEPT ![t] = None]
    BY <2>1 DEF Proceed, Fails, End
  <2>5. ASSUME NEW u \in Threads, Undisturbed(u)'
        PROVE  /\ u = t /\ Undisturbed(t) /\ Succeeded /\ op' = op
               /\ \/ step[t] < Len(Script(op[t])) /\ step'[t] = step[t] + 1
                  \/ ~(step[t] < Len(Script(op[t]))) /\ step'[t] = step[t] - 2
    <3>1. op' \in {op, [op EXCEPT ![t] = None]} /\ clean' = clean
      BY <2>1, <2>4 DEF Fails, End
    <3>2. u = t
      <4> SUFFICES ASSUME u # t PROVE FALSE
        OBVIOUS
      <4>1. op'[u] = op[u]
        BY <1>b, <3>1 DEF ThreadTypes
      <4>2. Undisturbed(u)
        BY <2>5, <3>1, <4>1 DEF Undisturbed
      <4> QED BY <2>2, <4>2, Others
    <3>3. op'[t] # None
      BY <2>5, <3>2 DEF Undisturbed
    <3>4. op' # [op EXCEPT ![t] = None]
      BY <1>b, <3>3 DEF ThreadTypes
    <3>5. /\ Succeeded /\ op' = op
          /\ \/ step[t] < Len(Script(op[t])) /\ step' = [step EXCEPT ![t] = @ + 1]
             \/ ~(step[t] < Len(Script(op[t]))) /\ step' = [step EXCEPT ![t] = @ - 2]
      BY <2>4, <3>4 DEF Fails, End
    <3>6. Undisturbed(t)
      BY <2>5, <3>1, <3>2, <3>5 DEF Undisturbed
    <3> QED BY <1>b, <3>2, <3>5, <3>6 DEF ThreadTypes
  <2>6. Undisturbed(t) => live = None /\ late = {}
    BY <2>1 DEF SInv, Told, Alone
  <2>7. xpc'[t] = "call"
    BY <1>b, <2>3 DEF ThreadTypes
  <2>8. LiveIsAwaited'
    BY <2>1 DEF LiveIsAwaited
  <2>9. Alone'
    <3> SUFFICES ASSUME NEW u \in Threads, Undisturbed(u)'
                 PROVE  late' = {} /\ \A v \in Threads : v # u => op'[v] = None
      BY DEF Alone
    <3>1. u = t /\ Undisturbed(t) /\ op' = op
      BY <2>5
    <3> QED BY <2>1, <2>6, <3>1 DEF SInv, Alone
  <2>10. Told'
    <3>1. ~Succeeds(t)'
      BY <2>7 DEF Succeeds
    <3> QED BY <2>5, <2>7, <3>1 DEF Told
  <2>11. Progress'
    <3> SUFFICES ASSUME Undisturbed(t)', Fills(t)' PROVE Reached(index[t], Obeyed(t))'
      BY <2>5 DEF Progress
    <3>1. /\ Undisturbed(t) /\ Succeeded /\ op[t] = "fill" /\ index'[t] = index[t] /\ Fills(t)
          /\ \/ step[t] < Len(Fill) /\ step'[t] = step[t] + 1
             \/ ~(step[t] < Len(Fill)) /\ step'[t] = step[t] - 2
      BY <1>b, <2>1, <2>5 DEF Fill, Fills, ThreadTypes
    <3>2. Succeeds(t) /\ ~Succeeds(t)'
      BY <2>1, <2>7, <3>1 DEF Succeeds, Succeeded
    <3>3. Obeyed(t) = step[t] /\ Obeyed(t)' = step'[t] - 1
      BY <3>2 DEF Obeyed
    <3>4. Reached(index[t], step[t])
      BY <3>1, <3>3 DEF SInv, Progress, Fills
    <3>5. step[t] \in 1..(9 + 2 * Stripes) /\ Len(Fill) = 9 + 2 * Stripes
      BY <1>b, <3>1, FillIs, NoneIsNew DEF InScript, Fill, Ops
    <3>6. PICK i, d : i = index[t] /\ d = step[t]
      OBVIOUS
    <3>7. PICK e : e = step'[t] - 1
      OBVIOUS
    <3>8. e = d \/ (d = 9 + 2 * Stripes /\ e = 6 + 2 * Stripes)
      BY <3>1, <3>5, <3>6, <3>7
    <3>9. Reached(i, e)
      <4>1. CASE e = d
        BY <3>4, <3>6, <4>1
      <4>2. CASE d = 9 + 2 * Stripes /\ e = 6 + 2 * Stripes
        <5>1. ~header /\ glass = i
          BY <3>4, <3>6, <4>2 DEF Reached
        <5> QED BY <4>2, <5>1 DEF Reached
      <4> QED BY <3>8, <4>1, <4>2
    <3>10. Reached(i, e)'
      BY <2>1, <3>9 DEF Reached, Filled, display
    <3>11. index'[t] = i /\ Obeyed(t)' = e
      BY <3>1, <3>3, <3>6, <3>7
    <3> QED BY <3>10, <3>11 DEF Reached, Filled
  <2> QED BY <2>8, <2>9, <2>10, <2>11
<1>8. ASSUME NEW t \in Threads, TimesOut(t) PROVE LiveIsAwaited' /\ Alone' /\ Told' /\ Progress'
  <2>1. /\ xpc[t] = "wait" /\ live' = None /\ clean' = clean /\ op' = [op EXCEPT ![t] = None]
    BY <1>8 DEF TimesOut, Fails, End
  <2>2. op[t] # None
    BY <1>c, <2>1
  <2>3. ASSUME NEW u \in Threads PROVE ~Undisturbed(u)'
    <3>1. CASE u = t
      BY <1>b, <2>1, <3>1 DEF Undisturbed, ThreadTypes
    <3>2. CASE u # t
      <4>1. ~Undisturbed(u)
        BY <2>2, <3>2, Others
      <4>2. op'[u] = op[u] /\ clean'[u] = clean[u]
        BY <1>b, <2>1, <3>2 DEF ThreadTypes
      <4> QED BY <4>1, <4>2 DEF Undisturbed
    <3> QED BY <3>1, <3>2
  <2> QED BY <2>1, <2>3, Disturbed DEF LiveIsAwaited
<1>9. ASSUME Complete PROVE LiveIsAwaited' /\ Alone' /\ Told' /\ Progress'
  <2>1. /\ live # None /\ live' = None /\ UNCHANGED <<late, op, step, xpc, index, clean>>
        /\ \/ Carry(live) /\ Callback("ok")
           \/ Callback("error") /\ UNCHANGED display
    BY <1>9 DEF Complete, history
  <2>2. PICK t \in Threads : xpc[t] = "wait" /\ live = [cmd |-> Current(t), index |-> index[t]]
    BY <2>1 DEF SInv, LiveIsAwaited
  <2>3. op[t] # None
    BY <1>c, <2>2
  <2>4. ASSUME NEW u \in Threads, Undisturbed(u)' PROVE u = t /\ Undisturbed(t)
    BY <2>1, <2>3, <2>4, Others DEF Undisturbed
  <2>5. sem' = 1 /\ (Undisturbed(t) => sem # 1)
    BY <2>1, <2>2 DEF Callback, SInv, Told
  <2>6. LiveIsAwaited' /\ Alone'
    BY <2>1 DEF SInv, LiveIsAwaited, Alone, Undisturbed
  <2>7. CASE Callback("error") /\ UNCHANGED display
    <3>1. ~Succeeds(t)'
      BY <2>7 DEF Succeeds, Callback
    <3>2. Told'
      BY <2>1, <2>2, <2>4, <2>5, <3>1 DEF Told
    <3>3. Progress'
      <4> SUFFICES ASSUME Undisturbed(t), Fills(t)' PROVE Reached(index[t], Obeyed(t))'
        BY <2>4 DEF Progress
      <4>1. Reached(index[t], Obeyed(t))
        BY <2>1 DEF SInv, Progress, Fills
      <4>2. Obeyed(t)' = Obeyed(t)
        BY <2>1, <2>5, <3>1 DEF Obeyed, Succeeds
      <4> QED BY <2>1, <2>7, <4>1, <4>2 DEF Reached, Filled, display
    <3> QED BY <2>6, <3>2, <3>3
  <2>8. CASE Carry(live) /\ Callback("ok")
    <3>1. Succeeds(t)'
      BY <2>1, <2>2, <2>8 DEF Succeeds, Callback
    <3>2. live.cmd = Current(t) /\ live.index = index[t] /\ Current(t)' = Current(t)
      BY <2>1, <2>2 DEF Current
    <3>4. Told'
      BY <2>1, <2>2, <2>4, <2>5 DEF Told
    <3>5. Progress'
      <4> SUFFICES ASSUME Undisturbed(t), Fills(t)' PROVE Reached(index[t], Obeyed(t))'
        BY <2>4 DEF Progress
      <4>1. Fills(t) /\ op[t] = "fill" /\ Reached(index[t], Obeyed(t))
        BY <2>1 DEF SInv, Progress, Fills
      <4>2. Obeyed(t) = step[t] - 1
        BY <2>5 DEF Obeyed, Succeeds
      <4>3. Obeyed(t)' = step[t] /\ index' = index
        BY <2>1, <3>1 DEF Obeyed
      <4>4. step[t] \in 1..(9 + 2 * Stripes) /\ index[t] \in Indexes
        BY <1>b, <4>1, FillIs, NoneIsNew DEF InScript, Fill, Fills, Ops
      <4>5. PICK i \in Indexes, s \in 1..(9 + 2 * Stripes) : i = index[t] /\ s = step[t]
        BY <4>4
      <4>6. PICK x : x = live
        OBVIOUS
      <4>7. x.cmd = Fill[s] /\ x.index = i
        BY <3>2, <4>1, <4>5, <4>6 DEF Current, Fill
      <4>8. Reached(i, s - 1) /\ Carry(x)
        BY <2>8, <4>1, <4>2, <4>5, <4>6
      <4>9. Reached(i, s)'
        BY <1>a, <4>7, <4>8, Obeys DEF TypeInv
      <4>10. index'[t] = i /\ Obeyed(t)' = s
        BY <4>3, <4>5
      <4> QED BY <4>9, <4>10 DEF Reached, Filled
    <3> QED BY <2>6, <3>4, <3>5
  <2> QED BY <2>1, <2>7, <2>8
<1>10. ASSUME UNCHANGED <<live, thread>>, clean' = [t \in Threads |-> FALSE]
       PROVE  LiveIsAwaited' /\ Alone' /\ Told' /\ Progress'
  <2>1. \A u \in Threads : ~Undisturbed(u)'
    BY <1>10 DEF Undisturbed
  <2>2. LiveIsAwaited'
    BY <1>10 DEF SInv, LiveIsAwaited, Current, thread
  <2> QED BY <2>1, <2>2, Disturbed
<1>11. ASSUME UNCHANGED <<sem, err, live, late, header, loaded, glass, thread, clean>>
       PROVE  LiveIsAwaited' /\ Alone' /\ Told' /\ Progress'
  BY <1>11, Quiet DEF thread
<1>12. CASE Usb
  <2>1. ASSUME NEW x \in late, CompleteLate(x) PROVE LiveIsAwaited' /\ Alone' /\ Told' /\ Progress'
    BY <1>10, <2>1 DEF CompleteLate, thread
  <2>2. ASSUME Settle PROVE LiveIsAwaited' /\ Alone' /\ Told' /\ Progress'
    BY <1>11, <2>2 DEF Settle, host, history
  <2>3. ASSUME Attach PROVE LiveIsAwaited' /\ Alone' /\ Told' /\ Progress'
    BY <1>11, <2>3 DEF Attach, display, history
  <2>4. ASSUME Detach PROVE LiveIsAwaited' /\ Alone' /\ Told' /\ Progress'
    BY <1>10, <2>4 DEF Detach
  <2> QED BY <1>9, <1>12, <2>1, <2>2, <2>3, <2>4 DEF Usb
<1>13. ASSUME NEW t \in Threads, NEW o \in Ops, NEW i \in Indexes, Give(t, o, i)
       PROVE  LiveIsAwaited' /\ Alone' /\ Told' /\ Progress'
  <2>1. /\ op[t] = None /\ UNCHANGED <<host, xpc, display>>
        /\ op' = [op EXCEPT ![t] = o] /\ step' = [step EXCEPT ![t] = 1]
        /\ index' = [index EXCEPT ![t] = IF o = "fill" THEN i ELSE None]
        /\ clean' = [u \in Threads |->
                        IF u = t THEN late = {} /\ \A v \in Threads : op[v] = None ELSE FALSE]
    BY <1>13 DEF Give
  <2>2. xpc[t] = "call"
    BY <1>b, <2>1 DEF InScript
  <2>3. ASSUME NEW u \in Threads, Undisturbed(u)'
        PROVE  u = t /\ late = {} /\ \A v \in Threads : op[v] = None
    BY <2>1, <2>3 DEF Undisturbed
  <2>4. LiveIsAwaited'
    <3> SUFFICES ASSUME live # None PROVE LiveIsAwaited'
      BY <2>1 DEF LiveIsAwaited, host
    <3>1. PICK v \in Threads : xpc[v] = "wait" /\ live = [cmd |-> Current(v), index |-> index[v]]
      BY DEF SInv, LiveIsAwaited
    <3>2. v # t
      BY <2>2, <3>1
    <3>3. op'[v] = op[v] /\ step'[v] = step[v] /\ index'[v] = index[v] /\ xpc'[v] = xpc[v] /\ live' = live
      BY <1>b, <2>1, <3>2 DEF ThreadTypes, host
    <3> QED BY <3>1, <3>3 DEF LiveIsAwaited, Current
  <2>5. Alone'
    <3> SUFFICES ASSUME Undisturbed(t)'
                 PROVE  late' = {} /\ \A v \in Threads : v # t => op'[v] = None
      BY <2>3 DEF Alone
    <3> QED BY <1>b, <2>1, <2>3 DEF ThreadTypes, host
  <2>6. ~Succeeds(t)' /\ xpc'[t] = "call"
    BY <2>1, <2>2 DEF Succeeds
  <2>7. Told'
    BY <2>3, <2>6 DEF Told
  <2>8. Progress'
    <3>1. Obeyed(t)' = 0
      <4>1. step'[t] = 1
        BY <1>b, <2>1 DEF ThreadTypes
      <4> QED BY <2>6, <4>1 DEF Obeyed
    <3>2. Reached(index[t], Obeyed(t))'
      BY <3>1 DEF Reached
    <3> QED BY <2>3, <3>2 DEF Progress
  <2> QED BY <2>4, <2>5, <2>7, <2>8
<1>14. CASE UNCHANGED vars
  BY <1>11, <1>14 DEF vars, host, display, history
<1>15. ASSUME NEW t \in Threads, Thread(t) PROVE LiveIsAwaited' /\ Alone' /\ Told' /\ Progress'
  BY <1>1, <1>2, <1>3, <1>4, <1>5, <1>6, <1>7, <1>8, <1>15 DEF Thread
<1> QED BY <1>12, <1>13, <1>14, <1>15 DEF Next

THEOREM Success == Spec => []SInv
  BY InitSInv, StepSInv, PTL DEF Spec

\* Only the thread whose command it is ends a command, and with success only at the last
\* transfer of its script.
LEMMA Ends ==
  ASSUME SInv, [Next]_vars, NEW t \in Threads, op[t] \in Ops, op'[t] = None, result'.ok,
         clean[t]
  PROVE  Succeeds(t) /\ step[t] = Len(Script(op[t]))
<1> USE T2000OK
<1>a. ThreadTypes /\ InScript /\ Len(Script(op[t])) \in Nat
  BY Parts, LastReads DEF SInv
<1>b. op[t] # None
  BY NoneIsNew
<1>c. op' # op
  BY <1>b
<1>d. Undisturbed(t)
  BY <1>b DEF Undisturbed
<1>e. \A u \in Threads : Fails(u) => ~result'.ok
  BY DEF Fails, End
<1>1. ASSUME NEW u \in Threads, Thread(u) PROVE u = t
  <2>1. op[u] # None
    BY <1>1, <1>a DEF Thread, InScript, Call, Lock, NoMemory, Reset, Enqueue, EnqueueFails, Done, TimesOut
  <2> QED BY <1>d, <2>1, Others
<1>2. ~Usb
  BY <1>c DEF Usb, Complete, CompleteLate, Settle, Attach, Detach, thread
<1>3. ~(\E u \in Threads, o \in Ops, i \in Indexes : Give(u, o, i))
  <2> SUFFICES ASSUME NEW u \in Threads, NEW o \in Ops, NEW i \in Indexes, Give(u, o, i)
               PROVE  FALSE
    OBVIOUS
  <2>1. op' = [op EXCEPT ![u] = o] /\ op[u] = None
    BY DEF Give
  <2> QED BY <1>a, <1>b, <2>1 DEF ThreadTypes
<1>4. op' = op => FALSE
  BY <1>c
<1>5. Thread(t)
  BY <1>1, <1>2, <1>3, <1>4 DEF Next, vars, thread
<1>6. Done(t) /\ Succeeded
  BY <1>4, <1>5, <1>e DEF Thread, Call, Lock, NoMemory, Reset, Enqueue, EnqueueFails, Done, TimesOut
<1>7. PICK read \in Read(t) : Proceed(t, read)
  BY <1>6, <1>e DEF Done, GoOn
<1>8. ~(step[t] < Len(Script(op[t])))
  BY <1>4, <1>7, <1>e DEF Proceed
<1>9. step[t] = Len(Script(op[t]))
  BY <1>8, <1>a, <1>b DEF InScript
<1>10. Succeeds(t)
  BY <1>6 DEF Done, Succeeds, Succeeded
<1> QED BY <1>9, <1>10

\* A fill that reports success has put its index on all of the glass, if nothing has
\* interfered and the display has told its size (eink_t2000_fill, display_chunk,
\* bulk_xfer), whatever the number of stripes.
THEOREM FillSolid == Spec => FillIsSolid
<1>1. SInv /\ [Next]_vars =>
        \A t \in Threads :
           op[t] = "fill" /\ op'[t] = None /\ result'.ok /\ clean[t] /\ index[t] # Torn
           => glass = index[t]
  <2> SUFFICES ASSUME SInv, [Next]_vars, NEW t \in Threads,
                      op[t] = "fill", op'[t] = None, result'.ok, clean[t], index[t] # Torn
               PROVE  glass = index[t]
    OBVIOUS
  <2>1. Succeeds(t) /\ step[t] = Len(Fill)
    BY Ends DEF Ops, Fill
  <2>2. Undisturbed(t)
    BY NoneIsNew DEF Undisturbed, Ops
  <2>3. Reached(index[t], Obeyed(t)) /\ Obeyed(t) = 9 + 2 * Stripes
    BY <2>1, <2>2, FillIs DEF SInv, Progress, Fills, Obeyed
  <2> QED BY <2>3, T2000OK DEF Reached
<1> QED BY <1>1, Success, PTL DEF Spec, FillIsSolid
=============================================================================
