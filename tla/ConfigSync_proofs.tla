------------------------- MODULE ConfigSync_proofs --------------------------
(***************************************************************************)
(* Proofs about ConfigSync for any clouds, configurations, builds, ring    *)
(* size and bounds.                                                        *)
(***************************************************************************)
EXTENDS ConfigSync, TLAPS

\* The cached CRC and schedule are those of one body, and the cached ETag is the one that
\* some cloud sent with some body.
CacheCoherent ==
    /\ cache.valid => Caching /\ cache.body \in Body /\ cache.sched = cache.body.sched
    /\ ~cache.valid => cache.etag = None
    /\ cache.etag # None => /\ named \in Servers \X Body
                            /\ cache.etag = Etag[named[1]][named[2]]

\* An open request carries the ETag of the cache, which does not move before the answer.
Conditional ==
    pc \in {"config", "parse"} /\ ifnone # None => cache.valid /\ ifnone = cache.etag

\* What an answer says of the configuration its cloud held.
Answered ==
    pc = "parse" =>
        \/ /\ resp = NotModified /\ ifnone # None
           /\ \E b \in Body : ifnone = Etag[asked][b] /\ served = b.sched
        \/ /\ resp.status = 200 /\ resp.body \in Body \union {Garbled}
           /\ resp.body \in Body => served = resp.body.sched
           /\ resp.etag # None /\ resp.body \in Body => resp.etag = Etag[asked][resp.body]

\* Until the ring is full its bytes are those of the log, from its first cell on.
RingFills ==
    /\ ring_len < RingSize => ring_head = ring_len /\ logged = ring_len
    /\ ring_len <= logged

SyncInv == CacheCoherent /\ Conditional /\ Answered /\ PassUsesServed
RingInv == RingFills /\ RingHoldsLatest
IInv == TypeOK /\ SyncInv /\ RingInv

(***************************************************************************)
(* Indexes of the ring.                                                    *)
(***************************************************************************)

\* Below the ring's size an index is a cell.
LEMMA ModBelow == ASSUME NEW x \in Nat, x < RingSize PROVE x % RingSize = x
  BY ConfigSyncOK

\* Once around, it is that many cells from the first.
LEMMA ModOnce ==
    ASSUME NEW x \in Nat, RingSize <= x, x < 2 * RingSize PROVE x % RingSize = x - RingSize
  BY ConfigSyncOK

\* It always is a cell.
LEMMA ModIsCell == ASSUME NEW x \in Nat PROVE x % RingSize \in 0..(RingSize - 1)
  BY ConfigSyncOK

\* So is the sum of two cells, once around.
LEMMA SumIsCell ==
    ASSUME NEW x \in 0..(RingSize - 1), NEW y \in 0..(RingSize - 1)
    PROVE  (x + y) % RingSize \in 0..(RingSize - 1)
<1>1. x + y \in Nat
  BY ConfigSyncOK
<1> QED BY <1>1, ModIsCell

\* eink_log_ring_snapshot copies a sequence shorter than the ring.
LEMMA SnapshotOK ==
    ASSUME TypeOK
    PROVE  /\ Snapshot \in Seq(Nat)
           /\ Len(Snapshot) = IF ring_len < RingSize - 1 THEN ring_len ELSE RingSize - 1
           /\ \A i \in 1..Len(Snapshot) : Snapshot[i] = ring[(Oldest + i - 1) % RingSize]
<1> DEFINE n == IF ring_len < RingSize - 1 THEN ring_len ELSE RingSize - 1
<1>1. n \in Nat /\ RingSize \in Nat \ {0}
  BY ConfigSyncOK DEF TypeOK
<1>2. Oldest \in Nat
  BY <1>1 DEF Oldest, TypeOK
<1>3. \A i \in 1..n : ring[(Oldest + i - 1) % RingSize] \in Nat
  <2> TAKE i \in 1..n
  <2>1. Oldest + i - 1 \in Nat
    BY <1>1, <1>2
  <2> QED BY <2>1, ModIsCell DEF TypeOK
<1>4. Snapshot = [i \in 1..n |-> ring[(Oldest + i - 1) % RingSize]]
  BY DEF Snapshot
<1> HIDE DEF n
<1>5. [i \in 1..n |-> ring[(Oldest + i - 1) % RingSize]] \in Seq(Nat)
  BY <1>1, <1>3
<1>6. Len([i \in 1..n |-> ring[(Oldest + i - 1) % RingSize]]) = n
  BY <1>1
<1> QED BY <1>1, <1>4, <1>5, <1>6 DEF n

(***************************************************************************)
(* The invariant.                                                          *)
(***************************************************************************)

\* A device that has just started.
LEMMA InitIInv == Init => IInv
<1> SUFFICES ASSUME Init PROVE IInv
    OBVIOUS
<1>1. TypeOK
  <2>1. /\ ring \in [0..(RingSize - 1) -> Nat] /\ ring_head \in 0..(RingSize - 1)
        /\ ring_len \in 0..RingSize /\ logged \in Nat /\ changes \in Nat
        /\ snap \in Seq(Nat) /\ Len(snap) < RingSize
    BY ConfigSyncOK DEF Init
  <2>2. /\ named \in (Servers \X Body) \union {None}
        /\ cache \in [valid : BOOLEAN, body : Body \union {None}, sched : Contents \union {None},
                      etag : Tags \union {None}]
        /\ resp \in [status : {200, 304}, body : Body \union {None, Garbled},
                     etag : Tags \union {None}]
    BY DEF Init, NoCache, NotModified
  <2>3. flag \in [Servers -> BOOLEAN]
    BY DEF Init
  <2> QED BY <2>1, <2>2, <2>3 DEF Init, TypeOK
<1>2. SyncInv
  BY DEF Init, NoCache, SyncInv, CacheCoherent, Conditional, Answered, PassUsesServed
<1>3. RingInv
  BY ConfigSyncOK DEF Init, RingInv, RingFills, RingHoldsLatest
<1> QED BY <1>1, <1>2, <1>3 DEF IInv

\* ring_putc_locked keeps the ring.
LEMMA PutKeepsRing ==
    ASSUME TypeOK, RingInv, Put, logged' = logged + 1
    PROVE  /\ RingInv'
           /\ ring' \in [0..(RingSize - 1) -> Nat]
           /\ ring_head' \in 0..(RingSize - 1) /\ ring_len' \in 0..RingSize
<1>0. /\ RingSize \in Nat \ {0} /\ logged \in Nat /\ ring \in [0..(RingSize - 1) -> Nat]
      /\ ring_head \in 0..(RingSize - 1) /\ ring_len \in 0..RingSize
  BY ConfigSyncOK DEF TypeOK
<1>1. /\ ring' = [ring EXCEPT ![ring_head] = logged + 1]
      /\ ring_head' = (ring_head + 1) % RingSize
      /\ ring_len' = IF ring_len < RingSize THEN ring_len + 1 ELSE ring_len
      /\ logged' = logged + 1
  BY DEF Put
<1>2. /\ ring' \in [0..(RingSize - 1) -> Nat] /\ ring_len' \in 0..RingSize
      /\ ring_head' \in 0..(RingSize - 1)
  <2>1. ring_head + 1 \in Nat
    BY <1>0
  <2>2. (ring_head + 1) % RingSize \in 0..(RingSize - 1)
    BY <2>1, ModIsCell
  <2>3. ring' \in [0..(RingSize - 1) -> Nat] /\ ring_len' \in 0..RingSize
    BY <1>0, <1>1
  <2> QED BY <1>1, <2>2, <2>3
<1>3. ring_head' = IF ring_head = RingSize - 1 THEN 0 ELSE ring_head + 1
  <2>1. ring_head + 1 \in Nat
    BY <1>0
  <2>2. CASE ring_head = RingSize - 1
    BY <1>0, <1>1, <2>1, <2>2, ModOnce
  <2>3. CASE ring_head # RingSize - 1
    BY <1>0, <1>1, <2>1, <2>3, ModBelow
  <2> QED BY <2>2, <2>3
<1>4. RingFills'
  BY <1>0, <1>1, <1>3 DEF RingInv, RingFills
<1>5. ASSUME NEW i \in 0..(ring_len' - 1)
      PROVE  ring'[(Oldest' + i) % RingSize] = logged' - ring_len' + i + 1
  <2>1. CASE ring_len < RingSize
    <3>1. Oldest' = 0
      BY <1>0, <1>1, <1>3, <2>1 DEF Oldest, RingInv, RingFills
    <3>2. (Oldest' + i) % RingSize = i /\ i \in 0..(RingSize - 1)
      <4>1. i \in 0..(RingSize - 1) /\ Oldest' + i = i
        BY <1>0, <1>1, <2>1, <3>1
      <4>2. i % RingSize = i
        BY <1>0, <4>1, ModBelow
      <4> QED BY <4>1, <4>2
    <3>3. ring_head = ring_len /\ logged = ring_len /\ ring_len' = ring_len + 1
      BY <1>1, <2>1 DEF RingInv, RingFills
    <3>4. CASE i = ring_len
      BY <1>0, <1>1, <3>2, <3>3, <3>4
    <3>5. CASE i # ring_len
      <4>1. i \in 0..(ring_len - 1)
        BY <1>0, <3>3, <3>5
      <4>2. Oldest = 0
        BY <2>1 DEF Oldest
      <4>3. ring[i] = logged - ring_len + i + 1
        <5>1. ring[(Oldest + i) % RingSize] = logged - ring_len + i + 1
          BY <4>1 DEF RingInv, RingHoldsLatest
        <5>2. (Oldest + i) % RingSize = i
          <6>1. Oldest + i = i /\ i \in Nat /\ i < RingSize
            BY <1>0, <3>2, <4>2
          <6> QED BY <6>1, ModBelow
        <5> QED BY <5>1, <5>2
      <4> QED BY <1>0, <1>1, <3>2, <3>3, <3>5, <4>3
    <3> QED BY <3>4, <3>5
  <2>2. CASE ring_len = RingSize
    <3>1. Oldest = ring_head /\ Oldest' = ring_head' /\ ring_len' = RingSize
      BY <1>0, <1>1, <2>2 DEF Oldest
    <3>2. i \in 0..(RingSize - 1)
      BY <3>1
    <3> DEFINE cell == (ring_head' + i) % RingSize
    <3>3. CASE i = RingSize - 1
      <4>1. cell = ring_head
        <5>1. CASE ring_head = RingSize - 1
          BY <1>0, <1>3, <3>3, <5>1, ModBelow
        <5>2. CASE ring_head # RingSize - 1
          <6>1. ring_head' + i = ring_head + RingSize
            BY <1>0, <1>3, <3>3, <5>2
          <6> QED BY <1>0, <5>2, <6>1, ModOnce
        <5> QED BY <5>1, <5>2
      <4> QED BY <1>0, <1>1, <3>1, <3>3, <4>1
    <3>4. CASE i # RingSize - 1
      <4>1. i + 1 \in 0..(ring_len - 1)
        BY <1>0, <2>2, <3>2, <3>4
      <4>2. cell = (ring_head + (i + 1)) % RingSize /\ cell # ring_head
        <5>1. CASE ring_head = RingSize - 1
          <6>1. cell = i
            BY <1>0, <1>3, <3>2, <5>1, ModBelow
          <6>2. (ring_head + (i + 1)) % RingSize = i
            <7>1. ring_head + (i + 1) = RingSize + i
              BY <1>0, <3>2, <5>1
            <7>2. (RingSize + i) % RingSize = RingSize + i - RingSize
              BY <1>0, <3>2, ModOnce
            <7> QED BY <1>0, <3>2, <7>1, <7>2
          <6> QED BY <6>1, <6>2, <3>2, <3>4, <5>1
        <5>2. CASE ring_head # RingSize - 1
          <6>1. ring_head' + i = ring_head + (i + 1)
            BY <1>0, <1>3, <3>2, <5>2
          <6>2. cell # ring_head
            <7>1. CASE ring_head + (i + 1) < RingSize
              BY <1>0, <3>2, <6>1, <7>1, ModBelow
            <7>2. CASE ring_head + (i + 1) >= RingSize
              <8>1. cell = ring_head + (i + 1) - RingSize
                BY <1>0, <3>2, <3>4, <6>1, <7>2, ModOnce
              <8> QED BY <1>0, <3>2, <3>4, <8>1
            <7> QED BY <1>0, <3>2, <7>1, <7>2
          <6> QED BY <6>1, <6>2
        <5> QED BY <5>1, <5>2
      <4>3. cell \in 0..(RingSize - 1)
        <5>1. ring_head' \in 0..(RingSize - 1) /\ i \in 0..(RingSize - 1)
          BY <1>2, <3>2
        <5> QED BY <5>1, SumIsCell
      <4>4. ring[cell] = logged - ring_len + (i + 1) + 1
        BY <3>1, <4>1, <4>2 DEF RingInv, RingHoldsLatest
      <4>5. ring'[cell] = ring[cell]
        BY <1>0, <1>1, <4>2, <4>3
      <4> QED BY <1>0, <1>1, <2>2, <3>1, <3>2, <4>4, <4>5
    <3> QED BY <3>3, <3>4
  <2> QED BY <1>0, <2>1, <2>2
<1>6. RingHoldsLatest'
  BY <1>5 DEF RingHoldsLatest
<1> QED BY <1>2, <1>4, <1>6 DEF RingInv

RingTypeOK ==
    /\ ring \in [0..(RingSize - 1) -> Nat]
    /\ ring_head \in 0..(RingSize - 1) /\ ring_len \in 0..RingSize
    /\ logged \in Nat

\* Only the log and a restart touch the ring.
LEMMA StepRing == TypeOK /\ RingInv /\ [Next]_vars => RingInv' /\ RingTypeOK'
<1> SUFFICES ASSUME TypeOK, RingInv, [Next]_vars PROVE RingInv' /\ RingTypeOK'
    OBVIOUS
<1>0. RingSize \in Nat \ {0} /\ RingTypeOK
  BY ConfigSyncOK DEF TypeOK, RingTypeOK
<1>1. CASE Log
  BY <1>0, <1>1, PutKeepsRing DEF Log, RingTypeOK
<1>2. CASE RingInit
  <2>1. RingInv'
    BY <1>0, <1>2 DEF RingInit, RingInv, RingFills, RingHoldsLatest
  <2> QED BY <1>0, <1>2, <2>1 DEF RingInit, RingTypeOK
<1>3. CASE UNCHANGED log
  BY <1>0, <1>3 DEF log, RingInv, RingFills, RingHoldsLatest, Oldest, RingTypeOK
<1>4. Log \/ RingInit \/ UNCHANGED log
  BY DEF Next, Pass, Ask, Answer, NoAnswer, Unchanged, Parsed, Planned, ParseFails, Work,
         WorkFails, NoUpload, Upload, Stored, UploadFails, FastPass, EndPass, Forget, Continue, PowerLoss,
         RequestLog, SetCredentials, Publish, vars, log
<1> QED BY <1>1, <1>2, <1>3, <1>4

Caches == [valid : BOOLEAN, body : Body \union {None}, sched : Contents \union {None},
           etag : Tags \union {None}]
Responses == [status : {200, 304}, body : Body \union {None, Garbled},
              etag : Tags \union {None}]

\* What EndPass leaves.
LEMMA Ended ==
    ASSUME TypeOK, EndPass, Keep \/ UNCHANGED cached, ~build.duty => UNCHANGED <<request, sched>>
    PROVE  /\ UNCHANGED cached \/ (cache' = NoCache /\ named' = None)
           /\ request' \in BOOLEAN
           /\ sched' \in Contents \union {None}
           /\ snap' \in Seq(Nat) /\ Len(snap') < RingSize
           /\ pc' = "idle" /\ hint' = FALSE
           /\ asked' = base /\ ifnone' = None /\ resp' = NotModified /\ served' = None
           /\ UNCHANGED <<build, base, changes>>
<1>1. CASE build.duty
  <2>1. snap' = <<>> /\ RingSize > 0
    BY <1>1, ConfigSyncOK DEF EndPass, Forget
  <2>2. snap' \in Seq(Nat) /\ Len(snap') < RingSize
    BY <2>1, ConfigSyncOK
  <2>3. cache' = NoCache /\ named' = None /\ request' = FALSE /\ sched' = None
    BY <1>1 DEF EndPass, Forget
  <2> QED BY <2>2, <2>3 DEF EndPass
<1>2. CASE ~build.duty
  BY <1>2 DEF EndPass, Keep, TypeOK, cached
<1> QED BY <1>1, <1>2

\* Every step keeps the types.
LEMMA StepTypeOK == TypeOK /\ SyncInv /\ RingInv /\ [Next]_vars => TypeOK'
<1> SUFFICES ASSUME TypeOK, SyncInv, RingInv, [Next]_vars PROVE TypeOK'
    OBVIOUS
<1>0. RingTypeOK'
  BY StepRing
<1> USE DEF Caches, Responses
<1>a. NoCache \in Caches /\ NotModified \in Responses
  BY DEF NoCache, NotModified
<1>b. ASSUME UNCHANGED cloud \/ (UNCHANGED config /\ flag' = [flag EXCEPT ![asked] = FALSE]),
             EndPass, Keep \/ UNCHANGED cached, ~build.duty => UNCHANGED <<request, sched>>
      PROVE  TypeOK'
  <2>1. flag' \in [Servers -> BOOLEAN] /\ config' \in [Servers -> Contents]
    BY <1>b DEF cloud, TypeOK
  <2>2. /\ cache' \in Caches /\ resp' \in Responses
        /\ named' \in (Servers \X Body) \union {None}
    BY <1>a, <1>b, Ended DEF TypeOK, cached
  <2> QED BY <1>0, <1>b, <2>1, <2>2, Ended DEF TypeOK, RingTypeOK
<1>c. ASSUME Keep PROVE ~build.duty => UNCHANGED <<request, sched>>
  BY <1>c DEF Keep
<1>1. CASE Ask
  BY <1>0, <1>1 DEF Ask, TypeOK, RingTypeOK, world, cloud, cached
<1>2. CASE Answer
  <2>1. served' \in Contents
    BY <1>2 DEF Answer, TypeOK
  <2>2. Now(asked) \in Body
    BY DEF Now, Body, TypeOK
  <2>3. resp' \in Responses
    BY <1>2, <1>a, <2>2, EtagOK DEF Answer, TypeOK
  <2> QED BY <1>0, <1>2, <2>1, <2>3 DEF Answer, TypeOK, RingTypeOK, world, cloud, cached
<1>3. CASE NoAnswer
  BY <1>3, <1>b, <1>c DEF NoAnswer
<1>4. CASE Unchanged
  <2>1. cache' \in Caches /\ sched' \in Contents \union {None}
    BY <1>4 DEF Unchanged, Continue, TypeOK, cached
  <2>2. named' \in (Servers \X Body) \union {None}
    BY <1>4 DEF Unchanged, TypeOK, cached, SyncInv, CacheCoherent
  <2> QED
    BY <1>0, <1>4, <2>1, <2>2
       DEF Unchanged, Continue, TypeOK, RingTypeOK, world, cloud, exchange
<1>5. CASE Parsed
  <2>1. resp.body.sched \in Contents /\ resp.body.flag \in BOOLEAN /\ resp.body \in Body
    BY <1>5 DEF Parsed, Body
  <2>2. cache' \in Caches /\ named' \in (Servers \X Body) \union {None}
    <3>1. resp.etag \in Tags \union {None} /\ <<asked, resp.body>> \in Servers \X Body
      BY <2>1 DEF TypeOK
    <3>2. CASE Caching
      <4>1. /\ cache' = [valid |-> TRUE, body |-> resp.body, sched |-> resp.body.sched,
                         etag |-> IF resp.etag # None THEN resp.etag ELSE cache.etag]
            /\ named' = IF resp.etag # None THEN <<asked, resp.body>> ELSE named
        BY <1>5, <3>2 DEF Parsed
      <4>2. cache.etag \in Tags \union {None} /\ named \in (Servers \X Body) \union {None}
        BY DEF TypeOK
      <4> QED BY <2>1, <3>1, <4>1, <4>2
    <3>3. CASE ~Caching
      BY <1>5, <3>3 DEF Parsed, TypeOK, cached
    <3> QED BY <3>2, <3>3
  <2>3. request' \in BOOLEAN /\ sched' \in Contents
    BY <1>5, <2>1 DEF Parsed, Continue, TypeOK
  <2> QED
    BY <1>0, <1>5, <2>2, <2>3 DEF Parsed, Continue, TypeOK, RingTypeOK, world, cloud, exchange
<1>6. CASE Planned
  <2>1. resp.body.sched \in Contents /\ resp.body.flag \in BOOLEAN
    BY <1>6 DEF Planned, Body
  <2> QED
    BY <1>0, <1>6, <2>1
       DEF Planned, Continue, TypeOK, RingTypeOK, world, cloud, exchange, cached
<1>7. CASE ParseFails
  BY <1>7, <1>b DEF ParseFails, CacheAfterFailure, Keep, cached
<1>8. CASE Work
  BY <1>0, <1>8 DEF Work, TypeOK, RingTypeOK, world, cloud, exchange, cached
<1>9. CASE WorkFails
  BY <1>9, <1>b, <1>c DEF WorkFails
<1>10. CASE NoUpload
  BY <1>10, <1>b, <1>c DEF NoUpload
<1>11. CASE Upload
  <2>1. snap' = Snapshot /\ Snapshot \in Seq(Nat)
    BY <1>11, SnapshotOK DEF Upload
  <2>2. Len(Snapshot) < RingSize
    BY SnapshotOK, ConfigSyncOK DEF TypeOK
  <2>3. /\ request' = FALSE /\ pc' = "post" /\ asked' = base
        /\ UNCHANGED <<build, world, cached, hint, ifnone, resp, served, sched>>
    BY <1>11 DEF Upload
  <2>4. snap' \in Seq(Nat) /\ Len(snap') < RingSize
    BY <2>1, <2>2
  <2>5. request' \in BOOLEAN /\ asked' \in Servers /\ cache' \in Caches /\ resp' \in Responses
    BY <2>3 DEF TypeOK, world, cached
  <2> QED BY <1>0, <2>3, <2>4, <2>5 DEF TypeOK, RingTypeOK, world, cloud, cached
<1>12. CASE Stored
  BY <1>12, <1>b, <1>c DEF Stored
<1>13. CASE UploadFails
  BY <1>13, <1>b, <1>c DEF UploadFails
<1>14. CASE Log
  BY <1>0, <1>14 DEF Log, TypeOK, RingTypeOK, world, cloud, exchange, cached
<1>15. CASE PowerLoss
  <2>1. snap' \in Seq(Nat) /\ Len(snap') < RingSize
    BY <1>15, ConfigSyncOK DEF PowerLoss, Forget
  <2>2. changes' \in Nat
    BY <1>15 DEF PowerLoss, Happens, TypeOK
  <2>3. cache' \in Caches /\ resp' \in Responses
    BY <1>15, <1>a DEF PowerLoss, Forget
  <2> QED
    BY <1>0, <1>15, <2>1, <2>2, <2>3 DEF PowerLoss, Forget, cloud, TypeOK, RingTypeOK
<1>16. ASSUME NEW s \in Servers, RequestLog(s) \/ SetCredentials(s) \/ \E c \in Contents : Publish(s, c)
       PROVE  TypeOK'
  <2>1. changes' \in Nat
    BY <1>16 DEF RequestLog, SetCredentials, Publish, Happens, TypeOK
  <2>2. /\ config' \in [Servers -> Contents] /\ flag' \in [Servers -> BOOLEAN]
        /\ base' \in Servers
    <3>1. CASE RequestLog(s)
      BY <3>1 DEF RequestLog, TypeOK
    <3>2. CASE SetCredentials(s)
      BY <3>2 DEF SetCredentials, cloud, TypeOK
    <3>3. ASSUME NEW c \in Contents, Publish(s, c)
          PROVE  /\ config' \in [Servers -> Contents] /\ flag' \in [Servers -> BOOLEAN]
                 /\ base' \in Servers
      BY <3>3 DEF Publish, TypeOK
    <3> QED BY <1>16, <3>1, <3>2, <3>3
  <2>3. UNCHANGED <<build, cached, request, hint, pc, exchange, sched, snap>>
    BY <1>16 DEF RequestLog, SetCredentials, Publish
  <2> QED BY <1>0, <2>1, <2>2, <2>3 DEF TypeOK, RingTypeOK, exchange, cached
<1>17. CASE UNCHANGED vars
  BY <1>0, <1>17 DEF vars, world, cloud, exchange, cached, TypeOK, RingTypeOK
<1>18. CASE FastPass
  BY <1>18, <1>b, <1>c DEF FastPass
<1> QED
  BY <1>1, <1>2, <1>3, <1>4, <1>5, <1>6, <1>7, <1>8, <1>9, <1>10, <1>11, <1>12, <1>13, <1>14,
     <1>15, <1>16, <1>17, <1>18 DEF Next, Pass

\* Every step keeps the cache, the open request and the answer consistent.
LEMMA StepSync == TypeOK /\ SyncInv /\ [Next]_vars => SyncInv'
<1> SUFFICES ASSUME TypeOK, SyncInv, [Next]_vars PROVE SyncInv'
    OBVIOUS
<1>0. build' = build
  BY DEF Next, Pass, Ask, Answer, NoAnswer, Unchanged, Parsed, Planned, ParseFails, Work,
         WorkFails, NoUpload, Upload, Stored, UploadFails, FastPass, EndPass, Continue, Log, PowerLoss,
         RequestLog, SetCredentials, Publish, vars
<1> USE <1>0, BodyOK, ConfigSyncOK DEF Caching
<1>a. ASSUME pc' \in {"idle", "post"}, UNCHANGED cached \/ cache' = NoCache PROVE SyncInv'
  BY <1>a DEF NoCache, cached, SyncInv, CacheCoherent, Conditional, Answered, PassUsesServed
<1>b. ASSUME UNCHANGED <<cached, pc, exchange, sched>> PROVE SyncInv'
  BY <1>b DEF cached, exchange, SyncInv, CacheCoherent, Conditional, Answered, PassUsesServed
<1>1. CASE Ask
  BY <1>1 DEF Ask, cached, SyncInv, CacheCoherent, Conditional, Answered, PassUsesServed
<1>2. CASE Answer
  <2>1. /\ pc = "config" /\ pc' = "parse" /\ served' = config[asked]
        /\ UNCHANGED <<cache, named, asked, ifnone>>
    BY <1>2 DEF Answer, cached
  <2>2. Now(asked) \in Body /\ Now(asked).sched = config[asked]
    BY DEF Now, Body, TypeOK
  <2>3. Etag[asked][Now(asked)] # None
    BY <2>2, EtagOK DEF TypeOK
  <2>4. Answered'
    <3>1. CASE ifnone = Etag[asked][Now(asked)] /\ resp' = NotModified
      BY <2>1, <2>2, <2>3, <3>1 DEF Answered
    <3>2. CASE resp' \in [status : {200}, body : {Now(asked), Garbled},
                          etag : {None, Etag[asked][Now(asked)]}]
      BY <2>1, <2>2, <3>2 DEF Answered
    <3> QED BY <1>2, <3>1, <3>2 DEF Answer
  <2> QED BY <2>1, <2>4 DEF SyncInv, CacheCoherent, Conditional, PassUsesServed
<1>3. CASE FastPass \/ NoAnswer \/ WorkFails \/ NoUpload \/ Stored \/ UploadFails
  <2>1. EndPass /\ Keep
    BY <1>3 DEF FastPass, NoAnswer, WorkFails, NoUpload, Stored, UploadFails
  <2> QED BY <2>1, <1>a DEF EndPass, Forget, Keep
<1>4. CASE ParseFails
  BY <1>4, <1>a DEF ParseFails, CacheAfterFailure, EndPass, Forget, cached
<1>5. CASE Unchanged
  <2>1. /\ pc = "parse" /\ cache.valid /\ Caching /\ pc' = "work" /\ sched' = cache.sched
        /\ UNCHANGED <<asked, ifnone, resp, served>>
        /\ resp.status = 304 \/ resp.body = cache.body
    BY <1>5 DEF Unchanged, Continue, exchange
  <2>2. cache.body \in Body /\ cache.sched = cache.body.sched /\ asked \in Servers
    BY <2>1 DEF SyncInv, CacheCoherent, TypeOK
  <2>3. /\ cache'.valid /\ cache'.body = cache.body /\ cache'.sched = cache.sched
        /\ resp.etag = None => UNCHANGED <<cache, named>>
        /\ resp.etag # None => cache'.etag = resp.etag /\ named' = <<asked, cache.body>>
    <3>1. CASE resp.etag = None
      BY <1>5, <2>1, <3>1 DEF Unchanged, cached
    <3>2. CASE resp.etag # None
      <4>1. cache' = [cache EXCEPT !.etag = resp.etag] /\ named' = <<asked, cache.body>>
        BY <1>5, <3>2 DEF Unchanged
      <4> QED BY <2>1, <3>2, <4>1 DEF TypeOK
    <3> QED BY <3>1, <3>2
  <2>4. PassUsesServed'
    <3>1. CASE resp = NotModified
      <4>1. PICK b \in Body : ifnone = Etag[asked][b] /\ served = b.sched
        BY <2>1, <3>1 DEF SyncInv, Answered, NotModified
      <4>2. ifnone = cache.etag /\ ifnone # None
        BY <2>1, <3>1 DEF SyncInv, Answered, Conditional, NotModified
      <4>3. UNCHANGED named /\ resp'.status = 304
        BY <2>1, <2>3, <3>1 DEF NotModified
      <4>4. CASE named = <<asked, cache.body>>
        <5>1. Etag[asked][cache.body] = Etag[asked][b]
          BY <4>1, <4>2, <4>4 DEF SyncInv, CacheCoherent
        <5>2. cache.body = b
          BY <2>2, <4>1, <5>1, EtagOK
        <5> QED BY <2>1, <2>2, <4>1, <5>2 DEF PassUsesServed
      <4>5. CASE named # <<asked, cache.body>>
        BY <2>1, <2>3, <4>3, <4>5 DEF PassUsesServed
      <4> QED BY <4>4, <4>5
    <3>2. CASE resp.status = 200 /\ (resp.body \in Body => served = resp.body.sched)
      BY <2>1, <2>2, <3>2 DEF PassUsesServed
    <3> QED BY <2>1, <3>1, <3>2 DEF SyncInv, Answered
  <2>5. CacheCoherent'
    <3>1. CASE resp.etag = None
      BY <2>3, <3>1 DEF SyncInv, CacheCoherent
    <3>2. CASE resp.etag # None
      <4>1. resp.etag = Etag[asked][cache.body]
        BY <2>1, <2>2, <3>2 DEF SyncInv, Answered, NotModified
      <4> QED BY <2>1, <2>2, <2>3, <3>2, <4>1 DEF CacheCoherent
    <3> QED BY <3>1, <3>2
  <2> QED BY <2>1, <2>4, <2>5 DEF SyncInv, Conditional, Answered
<1>6. CASE Parsed
  <2>1. /\ pc = "parse" /\ ~build.v2 /\ resp.body \in Body /\ pc' = "work"
        /\ sched' = resp.body.sched /\ served' = served /\ asked \in Servers
    BY <1>6 DEF Parsed, Continue, exchange, TypeOK
  <2>2. served = resp.body.sched /\ (resp.etag # None => resp.etag = Etag[asked][resp.body])
    BY <2>1 DEF SyncInv, Answered, NotModified
  <2>3. CacheCoherent'
    <3>1. CASE Caching
      <4>1. /\ cache' = [valid |-> TRUE, body |-> resp.body, sched |-> resp.body.sched,
                         etag |-> IF resp.etag # None THEN resp.etag ELSE cache.etag]
            /\ named' = IF resp.etag # None THEN <<asked, resp.body>> ELSE named
        BY <1>6, <3>1 DEF Parsed
      <4>2. CASE resp.etag # None
        BY <2>1, <2>2, <3>1, <4>1, <4>2 DEF CacheCoherent
      <4>3. CASE resp.etag = None
        BY <2>1, <3>1, <4>1, <4>3 DEF SyncInv, CacheCoherent
      <4> QED BY <4>2, <4>3
    <3>2. CASE ~Caching
      BY <1>6, <3>2 DEF Parsed, cached, SyncInv, CacheCoherent
    <3> QED BY <3>1, <3>2
  <2> QED BY <2>1, <2>2, <2>3 DEF SyncInv, Conditional, Answered, PassUsesServed
<1>7. CASE Planned
  <2>1. /\ pc = "parse" /\ resp.body \in Body /\ pc' = "work" /\ UNCHANGED cached
        /\ sched' = resp.body.sched /\ served' = served
    BY <1>7 DEF Planned, Continue, exchange
  <2>2. served = resp.body.sched
    BY <2>1 DEF SyncInv, Answered, NotModified
  <2> QED
    BY <2>1, <2>2 DEF cached, SyncInv, CacheCoherent, Conditional, Answered, PassUsesServed
<1>8. CASE Work
  BY <1>8 DEF Work, exchange, cached, SyncInv, CacheCoherent, Conditional, Answered,
              PassUsesServed
<1>9. CASE Upload
  BY <1>9, <1>a DEF Upload
<1>10. CASE PowerLoss
  BY <1>10, <1>a DEF PowerLoss, Forget
<1>11. CASE Log \/ UNCHANGED vars
  BY <1>11, <1>b DEF Log, vars
<1>12. ASSUME NEW s \in Servers, RequestLog(s) \/ SetCredentials(s) \/ \E c \in Contents : Publish(s, c)
       PROVE  SyncInv'
  BY <1>12, <1>b DEF RequestLog, SetCredentials, Publish
<1> QED
  BY <1>1, <1>2, <1>3, <1>4, <1>5, <1>6, <1>7, <1>8, <1>9, <1>10, <1>11, <1>12 DEF Next, Pass

\* The invariant holds throughout.
THEOREM Invariance == Spec => []IInv
<1>1. IInv /\ [Next]_vars => IInv'
  BY StepTypeOK, StepSync, StepRing DEF IInv
<1> QED BY <1>1, InitIInv, PTL DEF Spec

\* The state keeps its types (eink_http.c, eink_log_ring.c), for any builds, clouds and
\* size of the ring.
THEOREM TypeCorrect == Spec => []TypeOK
<1>1. IInv => TypeOK
  BY DEF IInv
<1> QED BY <1>1, Invariance, PTL

\* A pass works with what its cloud held when it answered (eink_http_fetch_config), or was
\* told 304 to an ETag that is not this cloud's for the cached body, for any number of
\* passes, clouds, changes and ETags, sent or not.
THEOREM UsesServed == Spec => []PassUsesServed
<1>1. IInv => PassUsesServed
  BY DEF IInv, SyncInv
<1> QED BY <1>1, Invariance, PTL

\* The ring holds the latest bytes in order (ring_putc_locked), for any size.
THEOREM RingIsLatest == Spec => []RingHoldsLatest
<1>1. IInv => RingHoldsLatest
  BY DEF IInv, RingInv
<1> QED BY <1>1, Invariance, PTL

\* An upload is one stretch of the log (eink_log_ring_snapshot), for any size.
THEOREM UploadIsOneStretch == Spec => UploadsOneStretch
<1> DEFINE kept == IF logged < RingSize THEN logged ELSE RingSize
           Stretch == /\ Len(snap') \in {kept, kept - 1}
                      /\ \A i \in 1..Len(snap') : snap'[i] = logged - kept + i
<1>1. IInv /\ [Next]_vars => [pc' = "post" /\ pc # "post" => Stretch]_vars
  <2> SUFFICES ASSUME IInv, Next, pc' = "post", pc # "post" PROVE Stretch
    BY DEF vars
  <2>1. Upload
    BY DEF Next, Pass, Ask, Answer, NoAnswer, Unchanged, Parsed, Planned, ParseFails, Work,
           WorkFails, NoUpload, Upload, Stored, UploadFails, FastPass, EndPass, Continue, Log, PowerLoss,
           RequestLog, SetCredentials, Publish, vars
  <2>2. snap' = Snapshot
    BY <2>1 DEF Upload
  <2>3. kept = ring_len /\ ring_len \in 0..RingSize /\ RingSize \in Nat \ {0} /\ logged \in Nat
    BY ConfigSyncOK DEF IInv, TypeOK, RingInv, RingFills
  <2>4. /\ Len(Snapshot) = IF ring_len < RingSize - 1 THEN ring_len ELSE RingSize - 1
        /\ \A i \in 1..Len(Snapshot) : Snapshot[i] = ring[(Oldest + i - 1) % RingSize]
    BY SnapshotOK DEF IInv
  <2>5. Len(Snapshot) \in {kept, kept - 1} /\ Len(Snapshot) <= ring_len
    BY <2>3, <2>4
  <2>6. ASSUME NEW i \in 1..Len(Snapshot) PROVE Snapshot[i] = logged - kept + i
    <3>1. i - 1 \in 0..(ring_len - 1) /\ Oldest \in Nat
      BY <2>3, <2>4, <2>5 DEF Oldest, IInv, TypeOK
    <3>2. ring[(Oldest + (i - 1)) % RingSize] = logged - ring_len + (i - 1) + 1
      BY <3>1 DEF IInv, RingInv, RingHoldsLatest
    <3>3. Oldest + i - 1 = Oldest + (i - 1)
      BY <3>1
    <3>4. Snapshot[i] = logged - ring_len + (i - 1) + 1
      BY <2>4, <3>2, <3>3
    <3>5. logged - ring_len + (i - 1) + 1 = logged - ring_len + i
      BY <2>3
    <3> QED BY <2>3, <3>4, <3>5
  <2> QED BY <2>2, <2>5, <2>6
<1> QED BY <1>1, Invariance, PTL DEF Spec, UploadsOneStretch
=============================================================================
