----------------------------- MODULE ConfigSync -----------------------------
(***************************************************************************)
(* What a full pass of the HTTP queue learns from the cloud, and what it   *)
(* sends back on request: eink_http_fetch_config with its RAM cache of the *)
(* last configuration, the request_debug_log hint, the debug log's ring    *)
(* (eink_log_ring.c) and its upload.  Around the pass: the cloud changes,  *)
(* a request or an answer is lost, `eink http` points the device at        *)
(* another cloud, the power goes.                                          *)
(*                                                                         *)
(* The clouds are external.  An answer may come with an ETag or without    *)
(* one.  An ETag stands for one body of its cloud                          *)
(* (scripts/eink-etabelone-bridge.py hashes it); another cloud may give    *)
(* the same ETag to another body.                                          *)
(***************************************************************************)
EXTENDS Naturals, Sequences

CONSTANTS Servers,     \* the clouds the credentials may name
          Contents,    \* configurations: schedule and image table
          None,        \* no ETag, no schedule
          Garbled,     \* a body that does not parse: truncated, or not JSON
          Tags,        \* ETags
          Etag,        \* Etag[s][b]: what cloud s sends with body b
          RingSize,    \* CONFIG_APP_EINK_DEBUG_LOG_RING_SIZE
          Builds,      \* the builds to consider, see Build
          MaxLogged,   \* bound: bytes logged after a boot
          MaxChanges   \* bound: what happens around the passes

\* cache: CONFIG_APP_EINK_HTTP_CONFIG_CACHE; v2: CONFIG_APP_EINK_HTTP_V2_SYNC; duty:
\* CONFIG_APP_EINK_BATTERY_DUTY_CYCLE; fast: CONFIG_APP_EINK_HTTP_FAST_PATH.
Build == [cache : BOOLEAN, v2 : BOOLEAN, duty : BOOLEAN, fast : BOOLEAN]

ASSUME ConfigSyncOK ==
    /\ None \notin Contents
    /\ Builds \subseteq Build
    /\ RingSize \in Nat \ {0}

\* The body of GET .../config: the configuration and request_debug_log.
Body == [sched : Contents, flag : BOOLEAN]

ASSUME BodyOK == None \notin Body /\ Garbled \notin Body

ASSUME EtagOK ==
    /\ None \notin Tags
    /\ Etag \in [Servers -> [Body -> Tags]]
    /\ \A s \in Servers : \A a, b \in Body : Etag[s][a] = Etag[s][b] => a = b

VARIABLES
    build,    \* the build; never changes
    config,   \* config[s]: cloud s's configuration for the device
    flag,     \* flag[s]: a debug log is requested
    base,     \* cfg.api_base
    changes,  \* how much has happened around the passes
    cache,    \* config_cache_valid, cached_config_crc, cached_sched, cached_config_etag
    named,    \* history: the cloud and the body that the cached ETag stands for
    request,  \* s_request_debug_log
    hint,     \* request_debug_log of sync_v2_once_inner
    pc,       \* where the pass is
    asked,    \* the cloud the open request went to
    ifnone,   \* its If-None-Match
    resp,     \* the answer
    served,   \* history: the configuration asked held when it answered
    sched,    \* the configuration of the pass
    ring, ring_head, ring_len,  \* eink_log_ring.c; the i-th byte logged is i
    logged,   \* history: bytes logged since the boot
    snap      \* debug_log_snap

cloud == <<config, flag>>
world == <<cloud, base, changes>>
exchange == <<asked, ifnone, resp, served>>
log == <<ring, ring_head, ring_len, logged>>
cached == <<cache, named>>
vars == <<build, world, cached, request, hint, pc, exchange, sched, log, snap>>

NoCache == [valid |-> FALSE, body |-> None, sched |-> None, etag |-> None]
NotModified == [status |-> 304, body |-> None, etag |-> None]

TypeOK ==
    /\ build \in Builds
    /\ config \in [Servers -> Contents] /\ flag \in [Servers -> BOOLEAN]
    /\ base \in Servers /\ asked \in Servers
    /\ cache \in [valid : BOOLEAN, body : Body \union {None}, sched : Contents \union {None},
                  etag : Tags \union {None}]
    /\ named \in (Servers \X Body) \union {None}
    /\ request \in BOOLEAN /\ hint \in BOOLEAN
    /\ pc \in {"idle", "config", "parse", "work", "log", "post"}
    /\ ifnone \in Tags \union {None}
    /\ resp \in [status : {200, 304}, body : Body \union {None, Garbled},
                 etag : Tags \union {None}]
    /\ served \in Contents \union {None} /\ sched \in Contents \union {None}
    /\ ring \in [0..(RingSize - 1) -> Nat]
    /\ ring_head \in 0..(RingSize - 1) /\ ring_len \in 0..RingSize
    /\ logged \in Nat /\ changes \in Nat
    /\ snap \in Seq(Nat) /\ Len(snap) < RingSize

Init ==
    /\ build \in Builds
    /\ config \in [Servers -> Contents] /\ flag = [s \in Servers |-> FALSE]
    /\ base \in Servers /\ changes = 0
    /\ cache = NoCache /\ named = None /\ request = FALSE /\ hint = FALSE
    /\ pc = "idle" /\ asked = base /\ ifnone = None /\ resp = NotModified
    /\ served = None /\ sched = None
    /\ ring = [i \in 0..(RingSize - 1) |-> 0] /\ ring_head = 0 /\ ring_len = 0
    /\ logged = 0 /\ snap = <<>>
-----------------------------------------------------------------------------
(* The log ring.                                                           *)

\* Mutant: the length keeps growing.
PutLenGrows ==
    /\ ring' = [ring EXCEPT ![ring_head] = logged + 1]
    /\ ring_head' = (ring_head + 1) % RingSize
    /\ ring_len' = ring_len + 1

\* ring_putc_locked, for the next byte of the log.
Put ==
    /\ ring' = [ring EXCEPT ![ring_head] = logged + 1]
    /\ ring_head' = (ring_head + 1) % RingSize
    /\ ring_len' = IF ring_len < RingSize THEN ring_len + 1 ELSE ring_len

\* Mutant: a full ring is read from its first cell.
OldestIsFirst == 0

\* Where the oldest byte is.
Oldest == IF ring_len < RingSize THEN 0 ELSE ring_head

\* eink_log_ring_snapshot into a buffer of RingSize, one byte of it for the NUL.
Snapshot ==
    LET n == IF ring_len < RingSize - 1 THEN ring_len ELSE RingSize - 1
    IN  [i \in 1..n |-> ring[(Oldest + i - 1) % RingSize]]

Log ==
    /\ logged < MaxLogged
    /\ Put
    /\ logged' = logged + 1
    /\ UNCHANGED <<build, world, cached, request, hint, pc, exchange, sched, snap>>

\* init_backend.
RingInit ==
    /\ ring' = [i \in 0..(RingSize - 1) |-> 0]
    /\ ring_head' = 0 /\ ring_len' = 0 /\ logged' = 0
-----------------------------------------------------------------------------
(* A pass.                                                                 *)

\* A sleep or a loss of power: what is in RAM.
Forget ==
    /\ cache' = NoCache /\ named' = None
    /\ request' = FALSE /\ sched' = None /\ snap' = <<>>
    /\ RingInit

\* The pass is over; a duty cycle build then sleeps with its memory off.
EndPass ==
    /\ pc' = "idle" /\ hint' = FALSE
    /\ asked' = base /\ ifnone' = None /\ resp' = NotModified /\ served' = None
    /\ UNCHANGED <<build, base, changes>>
    /\ IF build.duty THEN Forget ELSE UNCHANGED <<log, snap>>

Keep == ~build.duty => UNCHANGED <<cached, request, sched>>

Caching == build.cache /\ ~build.v2
Fast == build.fast /\ ~build.v2

\* The fast path: sync_is_fresh, nothing to download, and the telemetry is posted or
\* deferred (see SyncCycle).  It asks for no configuration and uploads no log.
FastPass == pc = "idle" /\ Fast /\ EndPass /\ Keep /\ UNCHANGED cloud

\* The request: GET .../config, with If-None-Match, or the v2 POST.
Ask ==
    /\ pc = "idle"
    /\ asked' = base
    /\ ifnone' = IF Caching /\ cache.valid THEN cache.etag ELSE None
    /\ pc' = "config"
    /\ UNCHANGED <<build, world, cached, request, hint, resp, served, sched, log, snap>>

\* The cloud's body for the device.
Now(s) == [sched |-> config[s], flag |-> flag[s]]

Answer ==
    /\ pc = "config"
    /\ served' = config[asked]
    /\ LET tag == Etag[asked][Now(asked)]
       IN  \/ ifnone = tag /\ resp' = NotModified
           \/ resp' \in [status : {200}, body : {Now(asked), Garbled},
                         etag : IF Caching THEN {None, tag} ELSE {None}]
    /\ pc' = "parse"
    /\ UNCHANGED <<build, world, cached, request, hint, asked, ifnone, sched, log, snap>>

\* No connection, a timeout, or an error status.
NoAnswer == pc = "config" /\ EndPass /\ Keep /\ UNCHANGED cloud

Continue(content) ==
    /\ sched' = content
    /\ pc' = "work"
    /\ UNCHANGED <<build, world, exchange, log, snap>>

\* 304, or a body with the same CRC.
Unchanged ==
    /\ pc = "parse" /\ Caching /\ cache.valid
    /\ resp.status = 304 \/ resp.body = cache.body
    /\ IF resp.etag # None
       THEN cache' = [cache EXCEPT !.etag = resp.etag] /\ named' = <<asked, cache.body>>
       ELSE UNCHANGED cached
    /\ Continue(cache.sched)
    /\ UNCHANGED <<request, hint>>

\* Mutant: the ETag is stored with the answer, before its body has been parsed.
CachedAtOnce == [cache EXCEPT !.etag = IF resp.etag # None THEN resp.etag ELSE @]

\* What a body that does not parse leaves of the cache.
CacheAfterFailure == cache

\* A new body.
Parsed ==
    /\ pc = "parse" /\ ~build.v2 /\ resp.body \in Body
    /\ Caching /\ cache.valid => resp.body # cache.body
    /\ request' = (request \/ resp.body.flag)
    /\ IF Caching
       THEN /\ cache' = [valid |-> TRUE, body |-> resp.body, sched |-> resp.body.sched,
                         etag |-> IF resp.etag # None THEN resp.etag ELSE cache.etag]
            /\ named' = IF resp.etag # None THEN <<asked, resp.body>> ELSE named
       ELSE UNCHANGED cached
    /\ Continue(resp.body.sched)
    /\ UNCHANGED hint

\* The v2 plan.
Planned ==
    /\ pc = "parse" /\ build.v2 /\ resp.body \in Body
    /\ hint' = resp.body.flag
    /\ Continue(resp.body.sched)
    /\ UNCHANGED <<cached, request>>

ParseFails ==
    /\ pc = "parse" /\ resp.body = Garbled
    /\ EndPass
    /\ ~build.duty => cache' = CacheAfterFailure /\ UNCHANGED <<named, request, sched>>
    /\ UNCHANGED cloud

\* set_schedule, the images, the panel and the telemetry ...
Work ==
    /\ pc = "work"
    /\ pc' = "log"
    /\ UNCHANGED <<build, world, cached, request, hint, exchange, sched, log, snap>>

\* ... or one of them ends the pass early.
WorkFails == pc = "work" /\ EndPass /\ Keep /\ UNCHANGED cloud

\* Mutant: the argument of eink_http_maybe_upload_debug_log is ignored.
WantedByFlag == request

Wanted == request \/ hint

NoUpload == pc = "log" /\ ~Wanted /\ EndPass /\ Keep /\ UNCHANGED cloud

\* eink_http_maybe_upload_debug_log: the request is cleared before the upload.
Upload ==
    /\ pc = "log" /\ Wanted
    /\ request' = FALSE
    /\ snap' = Snapshot
    /\ asked' = base
    /\ pc' = "post"
    /\ UNCHANGED <<build, world, cached, hint, ifnone, resp, served, sched, log>>

\* The cloud stores the log and clears its flag, whether or not its answer arrives.
Stored ==
    /\ pc = "post"
    /\ flag' = [flag EXCEPT ![asked] = FALSE]
    /\ EndPass /\ Keep /\ UNCHANGED config

UploadFails == pc = "post" /\ EndPass /\ Keep /\ UNCHANGED cloud

Pass == \/ FastPass \/ Ask \/ Answer \/ NoAnswer \/ Unchanged \/ Parsed \/ Planned \/ ParseFails
        \/ Work \/ WorkFails \/ NoUpload \/ Upload \/ Stored \/ UploadFails
-----------------------------------------------------------------------------
(* Around it.                                                              *)

Happens == changes < MaxChanges /\ changes' = changes + 1

\* The portal.
Publish(s, c) ==
    /\ Happens
    /\ config' = [config EXCEPT ![s] = c]
    /\ UNCHANGED <<build, flag, base, cached, request, hint, pc, exchange, sched, log, snap>>

RequestLog(s) ==
    /\ Happens
    /\ flag' = [flag EXCEPT ![s] = TRUE]
    /\ UNCHANGED <<build, config, base, cached, request, hint, pc, exchange, sched, log, snap>>

\* eink_http_set_credentials: the cache stays.
SetCredentials(s) ==
    /\ Happens
    /\ base' = s
    /\ UNCHANGED <<build, cloud, cached, request, hint, pc, exchange, sched, log, snap>>

PowerLoss ==
    /\ Happens
    /\ Forget
    /\ pc' = "idle" /\ hint' = FALSE
    /\ asked' = base /\ ifnone' = None /\ resp' = NotModified /\ served' = None
    /\ UNCHANGED <<build, cloud, base>>

Next == \/ Pass \/ Log \/ PowerLoss
        \/ \E s \in Servers : RequestLog(s) \/ SetCredentials(s) \/ \E c \in Contents : Publish(s, c)

\* Passes are repeated, and what may fail on the network does not fail for ever.  Nothing
\* makes a pass that may take the fast path ask.
Fairness ==
    /\ WF_vars(Pass /\ (Fast => pc # "idle"))
    /\ SF_vars(Answer /\ resp'.body # Garbled)
    /\ SF_vars(Work)
    /\ SF_vars(Stored)

Spec == Init /\ [][Next]_vars /\ Fairness
-----------------------------------------------------------------------------
(* Properties.                                                             *)

\* A pass works with the configuration its cloud held when it answered, whether the
\* body was parsed or had the CRC of the last one, after failed passes, bodies that did
\* not parse and moves from cloud to cloud.  If the body was not sent at all (304) it does
\* so if the cached ETag is this cloud's and came with the cached body.  It need not be:
\* an answer without an ETag leaves the one before it, and a move leaves the other
\* cloud's; what a 304 to such an ETag revives, the code cannot tell.
PassUsesServed ==
    pc \in {"work", "log"} =>
        sched = served \/ (resp.status = 304 /\ named # <<asked, cache.body>>)

\* The ring holds the latest bytes of the log, in order from the oldest.
RingHoldsLatest ==
    \A i \in 0..(ring_len - 1) :
        ring[(Oldest + i) % RingSize] = logged - ring_len + i + 1

\* What is uploaded is one stretch of the log that starts at the oldest byte kept and
\* lacks at most the newest.
UploadsOneStretch ==
    [][pc' = "post" /\ pc # "post" =>
        LET kept == IF logged < RingSize THEN logged ELSE RingSize
        IN  /\ Len(snap') \in {kept, kept - 1}
            /\ \A i \in 1..Len(snap') : snap'[i] = logged - kept + i]_vars

\* A debug log that a cloud requests arrives ("retry next wake"), as long as the
\* device reports to that cloud.
RequestAnswered == \A s \in Servers : flag[s] ~> ~flag[s] \/ base # s

\* It does where every pass asks and parses an answer: without the fast path, and with the
\* cache only if the cache is lost with each sleep.
RequestAnsweredUncached ==
    \A s \in Servers :
        flag[s] /\ ~Fast /\ ~(Caching /\ ~build.duty) ~> ~flag[s] \/ base # s
=============================================================================
