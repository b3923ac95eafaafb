------------------------------ MODULE EinkStore -----------------------------
(***************************************************************************)
(* eink_store.c and the downloads of eink_http.c, one file operation per   *)
(* step: the small files are saved through a temporary one, an image is    *)
(* downloaded, accepted and has its content hash recorded.  The power may  *)
(* go between any two steps.                                               *)
(*                                                                         *)
(* A file's content is what a restart would find: what has been synced, or *)
(* Torn.  File system operations are atomic and may fail (LittleFS).  Each *)
(* small file has one writer at a time (the scheduler's mutex, the HTTP    *)
(* queue); images are written by the HTTP queue alone.                     *)
(***************************************************************************)
EXTENDS Naturals

CONSTANTS Files,        \* state.json, schedule.json, sync_meta.json
          Values,       \* what may be saved in them
          Torn,         \* an incomplete content
          None,         \* no file, no hash, no value
          Ids,          \* image ids
          MaxVersion,   \* bound: the cloud publishes versions 1..MaxVersion of an image
          Builds        \* the values of CONFIG_APP_EINK_LZ4_EXPAND_ON_DOWNLOAD to consider

Versions == 1..MaxVersion
Content == [version : Versions, form : {"es6f", "lz4"}, whole : BOOLEAN]

ASSUME StoreOK == /\ {Torn, None} \cap Values = {} /\ Torn # None
                  /\ None \notin Content /\ None \notin Nat
                  /\ MaxVersion \in Nat \ {0}
                  /\ Builds \subseteq BOOLEAN

VARIABLES
    expand,  \* LZ4 frames are expanded on download; never changes
    file,    \* file[f]: the small file
    tmp,     \* tmp[f]: its temporary file
    spc,     \* spc[f]: where its writer is
    arg,     \* arg[f]: the value being saved, None when there is none
    cloud,   \* cloud[i]: the version the cloud serves
    es6f,    \* es6f[i]: images/<i>.es6f
    lz4,     \* lz4[i]: images/<i>.es6f.lz4
    sha,     \* sha[i]: the version whose hash is recorded for the image
    part,    \* images/<id>.es6f.download
    pc,      \* where the HTTP queue is
    id,      \* the image it downloads
    plan,    \* the hash the sync plan gave for it (v2), or None
    latest   \* history: latest[i]: the content that was last accepted for i

saves == <<file, tmp, spc, arg>>
images == <<es6f, lz4, sha>>
thread == <<part, pc, id, plan>>
vars == <<expand, saves, cloud, images, thread, latest>>

\* resolve_show_path prefers the raw file; has_valid_image checks its header.
Served(i) == IF es6f[i] # None THEN es6f[i] ELSE lz4[i]
HasValid(i) == Served(i) # None

TypeOK ==
    /\ expand \in BOOLEAN
    /\ file \in [Files -> Values \union {None}]
    /\ tmp \in [Files -> Values \union {Torn, None}]
    /\ spc \in [Files -> {"idle", "write", "sync", "rename"}]
    /\ arg \in [Files -> Values \union {None}]
    /\ cloud \in [Ids -> Versions]
    /\ es6f \in [Ids -> {c \in Content : c.form = "es6f" /\ c.whole} \union {None}]
    /\ lz4 \in [Ids -> {c \in Content : c.form = "lz4"} \union {None}]
    /\ sha \in [Ids -> Versions \union {None}]
    /\ part \in Content \union {None}
    /\ pc \in {"idle", "transfer", "expand", "accept", "unlink_es6f", "unlink_lz4", "rename",
               "hash_write", "hash_unlink", "hash_rename"}
    /\ id \in Ids /\ plan \in Versions \union {None}
    /\ latest \in [Ids -> Content \union {None}]

Init ==
    /\ expand \in Builds
    /\ file = [f \in Files |-> None] /\ tmp = [f \in Files |-> None]
    /\ spc = [f \in Files |-> "idle"] /\ arg = [f \in Files |-> None]
    /\ cloud = [i \in Ids |-> 1]
    /\ es6f = [i \in Ids |-> None] /\ lz4 = [i \in Ids |-> None] /\ sha = [i \in Ids |-> None]
    /\ part = None /\ pc = "idle" /\ id \in Ids /\ plan = None
    /\ latest = [i \in Ids |-> None]
-----------------------------------------------------------------------------
(* save_last_sync, save_state, save_schedule.                              *)

SaveStep(f, from, to, content) ==
    /\ spc[f] = from
    /\ spc' = [spc EXCEPT ![f] = to]
    /\ tmp' = [tmp EXCEPT ![f] = content]
    /\ UNCHANGED <<expand, cloud, images, thread, latest>>

\* Open with truncation; the open itself may fail.
SaveOpen(f, v) == /\ SaveStep(f, "idle", "write", Torn)
                  /\ arg' = [arg EXCEPT ![f] = v]
                  /\ UNCHANGED file

SaveWrite(f) == SaveStep(f, "write", "sync", Torn) /\ UNCHANGED <<file, arg>>

\* Mutant: the rename follows the write without a sync.
SaveNoSync(f) == SaveStep(f, "sync", "rename", Torn) /\ UNCHANGED <<file, arg>>
SaveSync(f) == SaveStep(f, "sync", "rename", arg[f]) /\ UNCHANGED <<file, arg>>

SaveRename(f) == /\ SaveStep(f, "rename", "idle", None)
                 /\ file' = [file EXCEPT ![f] = tmp[f]]
                 /\ arg' = [arg EXCEPT ![f] = None]

\* Any step may fail; the temporary file is removed.
SaveFails(f) == /\ spc[f] # "idle"
                /\ SaveStep(f, spc[f], "idle", None)
                /\ arg' = [arg EXCEPT ![f] = None]
                /\ UNCHANGED file

Save(f) == \/ \E v \in Values : SaveOpen(f, v)
           \/ SaveWrite(f) \/ SaveSync(f) \/ SaveRename(f) \/ SaveFails(f)
-----------------------------------------------------------------------------
(* Downloading an image.                                                   *)

CloudPublishes(i) ==
    /\ cloud[i] < MaxVersion
    /\ cloud' = [cloud EXCEPT ![i] = @ + 1]
    /\ UNCHANGED <<expand, saves, images, thread, latest>>

Goto(label) == pc' = label /\ UNCHANGED <<expand, id, plan, saves, cloud>>

\* v0 downloads an image the store lacks.  The v2 plan names the hash of what the
\* cloud serves when the hash reported for it differs; a gallery image that is in the
\* store with any hash is skipped.
Request(i, h, due) ==
    /\ pc = "idle"
    /\ IF h = None THEN ~HasValid(i)
       ELSE /\ h = cloud[i]
            /\ ~HasValid(i) \/ sha[i] # h
            /\ due \/ ~HasValid(i) \/ sha[i] = None
    /\ pc' = "transfer" /\ id' = i /\ plan' = h
    /\ UNCHANGED <<expand, saves, cloud, images, part, latest>>

\* Mutant: the planned hash is recorded once the transfer is done.
TransferRecordsHash ==
    /\ pc = "transfer"
    /\ \E c \in Content : c.version = cloud[id] /\ part' = c
    /\ sha' = [sha EXCEPT ![id] = plan]
    /\ Goto(IF part'.form = "lz4" /\ expand THEN "expand" ELSE "accept")
    /\ UNCHANGED <<es6f, lz4, latest>>

\* http_download_to_file.  The body ends where the connection does.
Transfer ==
    /\ pc = "transfer"
    /\ \E c \in Content : c.version = cloud[id] /\ part' = c
    /\ Goto(IF part'.form = "lz4" /\ expand THEN "expand" ELSE "accept")
    /\ UNCHANGED <<images, latest>>

\* eink_lz4_expand_if_framed.
Expand ==
    /\ pc = "expand" /\ part.whole
    /\ part' = [part EXCEPT !.form = "es6f"]
    /\ Goto("accept")
    /\ UNCHANGED <<images, latest>>

\* Mutant: a raw frame is not checked.
AcceptUnchecked ==
    /\ pc = "accept"
    /\ Goto("unlink_es6f")
    /\ UNCHANGED <<images, part, latest>>

\* accept_temp_image: a raw frame must pass its CRC, an LZ4 frame have a known size.
Accept ==
    /\ pc = "accept" /\ (part.form = "es6f" => part.whole)
    /\ Goto("unlink_es6f")
    /\ UNCHANGED <<images, part, latest>>

\* Mutant: only the file that will be replaced is removed.
UnlinkSameForm ==
    /\ pc = "unlink_es6f"
    /\ es6f' = [es6f EXCEPT ![id] = IF part.form = "es6f" THEN None ELSE @]
    /\ Goto("unlink_lz4")
    /\ UNCHANGED <<lz4, sha, part, latest>>

UnlinkEs6f ==
    /\ pc = "unlink_es6f"
    /\ es6f' = [es6f EXCEPT ![id] = None]
    /\ Goto("unlink_lz4")
    /\ UNCHANGED <<lz4, sha, part, latest>>

UnlinkLz4 ==
    /\ pc = "unlink_lz4"
    /\ lz4' = [lz4 EXCEPT ![id] = None]
    /\ Goto("rename")
    /\ UNCHANGED <<es6f, sha, part, latest>>

Rename ==
    /\ pc = "rename"
    /\ IF part.form = "es6f" THEN es6f' = [es6f EXCEPT ![id] = part] /\ UNCHANGED lz4
                             ELSE lz4' = [lz4 EXCEPT ![id] = part] /\ UNCHANGED es6f
    /\ part' = None
    /\ latest' = [latest EXCEPT ![id] = part]
    /\ Goto(IF plan = None THEN "idle" ELSE "hash_write")
    /\ UNCHANGED sha

\* The transfer, the expansion, the checks or the rename fail; the rest is removed.
DownloadFails ==
    /\ pc \in {"transfer", "expand", "accept", "rename"}
    /\ part' = None
    /\ Goto("idle")
    /\ UNCHANGED <<images, latest>>

\* save_content_hash.
HashWrite == pc = "hash_write" /\ Goto("hash_unlink") /\ UNCHANGED <<images, part, latest>>

HashUnlink ==
    /\ pc = "hash_unlink"
    /\ sha' = [sha EXCEPT ![id] = None]
    /\ Goto("hash_rename")
    /\ UNCHANGED <<es6f, lz4, part, latest>>

HashRename ==
    /\ pc = "hash_rename"
    /\ sha' = [sha EXCEPT ![id] = plan]
    /\ Goto("idle")
    /\ UNCHANGED <<es6f, lz4, part, latest>>

HashFails ==
    /\ pc \in {"hash_write", "hash_rename"}
    /\ Goto("idle")
    /\ UNCHANGED <<images, part, latest>>

Download == \/ Transfer \/ Expand \/ Accept \/ UnlinkEs6f \/ UnlinkLz4 \/ Rename
            \/ DownloadFails \/ HashWrite \/ HashUnlink \/ HashRename \/ HashFails
-----------------------------------------------------------------------------
\* The power goes; what is on flash stays.  A leftover temporary file is truncated by
\* the next use of its name.
Crash ==
    /\ spc' = [f \in Files |-> "idle"]
    /\ tmp' = [f \in Files |-> None] /\ arg' = [f \in Files |-> None] /\ part' = None
    /\ pc' = "idle"
    /\ UNCHANGED <<expand, file, cloud, images, id, plan, latest>>

Next == \/ \E f \in Files : Save(f)
        \/ \E i \in Ids : \/ CloudPublishes(i)
                          \/ \E h \in Versions \union {None}, due \in BOOLEAN : Request(i, h, due)
        \/ Download
        \/ Crash

Spec == Init /\ [][Next]_vars
-----------------------------------------------------------------------------
(* Properties.                                                             *)

\* The store serves for an image what it accepted last, or nothing: the raw file that
\* resolve_show_path prefers is never one that an accepted LZ4 frame has replaced, in
\* whichever step an accept was cut short.
ServesLatestAccepted == \A i \in Ids : Served(i) \in {None, latest[i]}

\* The hash the device reports to the cloud never names a newer content than the one it
\* serves, so that the cloud never takes a stale image for cached.
HashNeverAhead ==
    \A i \in Ids : HasValid(i) /\ sha[i] # None => sha[i] <= Served(i).version

\* An image that was accepted stays: outside an accept the store serves it or a later one.
ImageSurvives == \A i \in Ids : pc = "idle" /\ latest[i] # None => HasValid(i)

\* The small files are replaced whole or not at all.
Stable == INSTANCE StableFiles
            WITH value <- file, wanted <- arg
ImplementsStableFiles == Stable!Spec
=============================================================================
