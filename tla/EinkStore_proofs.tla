--------------------------- MODULE EinkStore_proofs ---------------------------
(***************************************************************************)
(* Proofs about EinkStore, for any files, values, images and versions and  *)
(* any number of power losses.                                             *)
(***************************************************************************)
EXTENDS EinkStore, TLAPS

Accepting == {"accept", "unlink_es6f", "unlink_lz4", "rename"}
Recording == {"hash_write", "hash_unlink", "hash_rename"}

\* A save in progress has a value; its temporary file holds it once it is synced.
SaveInv ==
    \A f \in Files : /\ spc[f] = "idle" <=> arg[f] = None
                     /\ spc[f] = "rename" => tmp[f] = arg[f]

\* Both forms of an image are what was accepted last or absent, and absent together
\* when the rename comes.
ImageInv ==
    /\ \A i \in Ids : es6f[i] \in {None, latest[i]} /\ lz4[i] \in {None, latest[i]}
    /\ pc \in Accepting \union {"expand"} => part # None
    /\ pc \in Accepting \ {"accept"} => (part.form = "es6f" => part.whole)
    /\ pc \in {"unlink_lz4", "rename"} => es6f[id] = None
    /\ pc = "rename" => lz4[id] = None

\* Versions only grow from what the plan named, through the transfer, to the cloud.
VersionInv ==
    /\ \A i \in Ids : sha[i] # None => sha[i] <= cloud[i]
    /\ pc # "idle" /\ plan # None => plan <= cloud[id]
    /\ pc \in Accepting \union {"expand"} =>
          /\ part.version <= cloud[id]
          /\ sha[id] # None => sha[id] <= part.version
          /\ plan # None => plan <= part.version
    /\ pc \in Recording => plan # None /\ HasValid(id) /\ plan <= Served(id).version

StoreInv == TypeOK /\ SaveInv /\ ImageInv /\ VersionInv /\ HashNeverAhead

LEMMA InitStoreInv == Init => StoreInv
<1> SUFFICES ASSUME Init PROVE StoreInv
  OBVIOUS
<1>1. TypeOK
  <2>1. expand \in BOOLEAN
    BY StoreOK, Zenon DEF Init
  <2>2. cloud \in [Ids -> Versions]
    BY StoreOK DEF Init, Versions
  <2> QED BY <2>1, <2>2 DEF Init, TypeOK
<1>2. SaveInv /\ ImageInv
  BY DEF Init, SaveInv, ImageInv, Accepting
<1>3. VersionInv /\ HashNeverAhead
  BY DEF Init, VersionInv, HashNeverAhead, Accepting, Recording
<1> QED BY <1>1, <1>2, <1>3 DEF StoreInv
-----------------------------------------------------------------------------
(* The small files.                                                        *)

LEMMA StepSave ==
  ASSUME TypeOK, SaveInv, NEW f \in Files, Save(f)
  PROVE  /\ file' \in [Files -> Values \union {None}]
         /\ tmp' \in [Files -> Values \union {Torn, None}]
         /\ spc' \in [Files -> {"idle", "write", "sync", "rename"}]
         /\ arg' \in [Files -> Values \union {None}]
         /\ SaveInv'
<1> USE DEF TypeOK, SaveInv
<1>1. CASE \E v \in Values : SaveOpen(f, v)
  BY <1>1, StoreOK DEF SaveOpen, SaveStep
<1>2. CASE SaveWrite(f)
  BY <1>2 DEF SaveWrite, SaveStep
<1>3. CASE SaveSync(f)
  BY <1>3 DEF SaveSync, SaveStep
<1>4. CASE SaveRename(f)
  BY <1>4, StoreOK DEF SaveRename, SaveStep
<1>5. CASE SaveFails(f)
  BY <1>5 DEF SaveFails, SaveStep
<1> QED BY <1>1, <1>2, <1>3, <1>4, <1>5 DEF Save

LEMMA StepSaveOnly ==
  ASSUME NEW f \in Files, Save(f)
  PROVE  UNCHANGED <<expand, cloud, images, thread, latest>>
BY DEF Save, SaveOpen, SaveWrite, SaveSync, SaveRename, SaveFails, SaveStep
-----------------------------------------------------------------------------
(* Images.                                                                 *)

Whole == {c \in Content : c.form = "es6f" /\ c.whole}
Frames == {c \in Content : c.form = "lz4"}

\* The part of TypeOK that is about images.
ImageTypes ==
    /\ cloud \in [Ids -> Versions]
    /\ es6f \in [Ids -> Whole \union {None}]
    /\ lz4 \in [Ids -> Frames \union {None}]
    /\ sha \in [Ids -> Versions \union {None}]
    /\ part \in Content \union {None}
    /\ pc \in {"idle", "transfer", "expand"} \union Accepting \union Recording
    /\ id \in Ids /\ plan \in Versions \union {None}
    /\ latest \in [Ids -> Content \union {None}]

\* A version of the image the queue downloads keeps being served with it.
LEMMA ServedTypes ==
  ASSUME ImageTypes
  PROVE  \A i \in Ids : Served(i) \in Content \union {None}
BY DEF ImageTypes, Served, Whole, Frames

LEMMA StepImageTypes == ImageTypes /\ ImageInv /\ Download => ImageTypes'
<1> SUFFICES ASSUME ImageTypes, ImageInv, Download PROVE ImageTypes'
  OBVIOUS
<1> USE DEF ImageTypes, Accepting, Recording
<1>1. CASE Transfer
  BY <1>1 DEF Transfer, Goto, images
<1>2. CASE Expand
  <2>1. part \in Content
    BY <1>2 DEF Expand, ImageInv
  <2>2. [part EXCEPT !.form = "es6f"] \in Content
    BY <2>1 DEF Content
  <2> QED BY <1>2, <2>2 DEF Expand, Goto, images
<1>3. CASE Accept \/ DownloadFails \/ HashWrite \/ HashFails
  BY <1>3 DEF Accept, DownloadFails, HashWrite, HashFails, Goto, images
<1>4. CASE UnlinkEs6f \/ UnlinkLz4
  BY <1>4 DEF UnlinkEs6f, UnlinkLz4, Goto
<1>5. CASE Rename
  <2>1. part \in Content /\ (part.form = "es6f" => part.whole)
    BY <1>5 DEF Rename, ImageInv
  <2>2. part.form = "es6f" \/ part \in Frames
    BY <2>1 DEF Frames, Content
  <2>3. part.form = "es6f" => part \in Whole
    BY <2>1 DEF Whole
  <2> QED BY <1>5, <2>1, <2>2, <2>3 DEF Rename, Goto
<1>6. CASE HashUnlink \/ HashRename
  BY <1>6 DEF HashUnlink, HashRename, Goto
<1> QED BY <1>1, <1>2, <1>3, <1>4, <1>5, <1>6 DEF Download

LEMMA StepImageInv == ImageTypes /\ ImageInv /\ Download => ImageInv'
<1> SUFFICES ASSUME ImageTypes, ImageInv, Download PROVE ImageInv'
  OBVIOUS
<1> USE StoreOK DEF ImageTypes, ImageInv, Accepting, Recording
<1>1. CASE Transfer
  BY <1>1 DEF Transfer, Goto, images
<1>2. CASE Expand
  <2>1. part \in Content
    BY <1>2 DEF Expand
  <2>2. [part EXCEPT !.form = "es6f"] \in Content
    BY <2>1 DEF Content
  <2> QED BY <1>2, <2>2 DEF Expand, Goto, images
<1>3. CASE Accept \/ DownloadFails \/ HashWrite \/ HashFails
  BY <1>3 DEF Accept, DownloadFails, HashWrite, HashFails, Goto, images
<1>4. CASE UnlinkEs6f \/ UnlinkLz4
  BY <1>4 DEF UnlinkEs6f, UnlinkLz4, Goto
<1>5. CASE Rename
  BY <1>5 DEF Rename, Goto
<1>6. CASE HashUnlink \/ HashRename
  BY <1>6 DEF HashUnlink, HashRename, Goto
<1> QED BY <1>1, <1>2, <1>3, <1>4, <1>5, <1>6 DEF Download

\* The versions: a transfer brings what the cloud serves, at least as new as the plan
\* and as every recorded hash.
LEMMA StepVersionInv ==
  ImageTypes /\ ImageInv /\ VersionInv /\ HashNeverAhead /\ Download
     => VersionInv' /\ HashNeverAhead'
<1> SUFFICES ASSUME ImageTypes, ImageInv, VersionInv, HashNeverAhead, Download
             PROVE  VersionInv' /\ HashNeverAhead'
  OBVIOUS
<1> USE StoreOK DEF ImageTypes, ImageInv, VersionInv, HashNeverAhead, HasValid, Served, Content,
                    Versions, Whole, Frames, Accepting, Recording
<1>1. CASE Transfer
  BY <1>1 DEF Transfer, Goto, images
<1>2. CASE Expand
  BY <1>2 DEF Expand, Goto, images
<1>3. CASE Accept \/ DownloadFails \/ HashWrite \/ HashFails
  BY <1>3 DEF Accept, DownloadFails, HashWrite, HashFails, Goto, images
<1>4. CASE UnlinkEs6f
  BY <1>4 DEF UnlinkEs6f, Goto
<1>5. CASE UnlinkLz4
  BY <1>5 DEF UnlinkLz4, Goto
<1>6. CASE Rename
  BY <1>6 DEF Rename, Goto
<1>7. CASE HashUnlink
  BY <1>7 DEF HashUnlink, Goto
<1>8. CASE HashRename
  BY <1>8 DEF HashRename, Goto
<1> QED BY <1>1, <1>2, <1>3, <1>4, <1>5, <1>6, <1>7, <1>8 DEF Download

\* The cloud, a request and a power loss leave the images alone.
LEMMA StepElsewhere ==
  ASSUME ImageTypes, ImageInv, VersionInv, HashNeverAhead,
         \/ \E i \in Ids : \/ CloudPublishes(i)
                          \/ \E h \in Versions \union {None}, due \in BOOLEAN : Request(i, h, due)
         \/ Crash
         \/ UNCHANGED <<cloud, images, thread, latest>>
  PROVE  ImageTypes' /\ ImageInv' /\ VersionInv' /\ HashNeverAhead'
<1> USE StoreOK DEF ImageTypes, ImageInv, VersionInv, HashNeverAhead, HasValid, Served, Content,
                    Versions, Whole, Frames, Accepting, Recording
<1>1. CASE \E i \in Ids : CloudPublishes(i)
  BY <1>1 DEF CloudPublishes, images, thread
<1>2. CASE \E i \in Ids, h \in Versions \union {None}, due \in BOOLEAN : Request(i, h, due)
  BY <1>2 DEF Request, images
<1>3. CASE Crash
  BY <1>3 DEF Crash, images
<1>4. CASE UNCHANGED <<cloud, images, thread, latest>>
  BY <1>4 DEF images, thread
<1> QED BY <1>1, <1>2, <1>3, <1>4
-----------------------------------------------------------------------------
\* The parts of TypeOK together.
LEMMA Split ==
  /\ TypeOK => ImageTypes /\ expand \in BOOLEAN
  /\ /\ ImageTypes' /\ expand' \in BOOLEAN
     /\ file' \in [Files -> Values \union {None}]
     /\ tmp' \in [Files -> Values \union {Torn, None}]
     /\ spc' \in [Files -> {"idle", "write", "sync", "rename"}]
     /\ arg' \in [Files -> Values \union {None}]
     => TypeOK'
BY DEF TypeOK, ImageTypes, Whole, Frames, Accepting, Recording

LEMMA AlwaysStoreInv == Spec => []StoreInv
<1>1. StoreInv /\ [Next]_vars => StoreInv'
  <2> SUFFICES ASSUME StoreInv, [Next]_vars PROVE StoreInv'
    OBVIOUS
  <2>0. /\ ImageTypes /\ TypeOK /\ SaveInv /\ ImageInv /\ VersionInv /\ HashNeverAhead
        /\ expand \in BOOLEAN
    BY Split DEF StoreInv
  <2>1. CASE \E f \in Files : Save(f)
    <3>1. PICK f \in Files : Save(f)
      BY <2>1
    <3>2. UNCHANGED <<expand, cloud, images, thread, latest>>
      BY <3>1, StepSaveOnly
    <3>3. ImageTypes' /\ ImageInv' /\ VersionInv' /\ HashNeverAhead'
      BY <2>0, <3>2, StepElsewhere
    <3>4. /\ file' \in [Files -> Values \union {None}]
          /\ tmp' \in [Files -> Values \union {Torn, None}]
          /\ spc' \in [Files -> {"idle", "write", "sync", "rename"}]
          /\ arg' \in [Files -> Values \union {None}]
          /\ SaveInv'
      BY <2>0, <3>1, StepSave
    <3> QED BY <2>0, <3>2, <3>3, <3>4, Split DEF StoreInv
  <2>2. CASE Download
    <3>1. UNCHANGED <<expand, saves>>
      BY <2>2, Zenon DEF Download, Transfer, Expand, Accept, UnlinkEs6f, UnlinkLz4, Rename,
         DownloadFails, HashWrite, HashUnlink, HashRename, HashFails, Goto
    <3>2. ImageTypes' /\ ImageInv' /\ VersionInv' /\ HashNeverAhead'
      BY <2>0, <2>2, StepImageTypes, StepImageInv, StepVersionInv
    <3> QED BY <2>0, <3>1, <3>2, Split DEF StoreInv, SaveInv, TypeOK, saves
  <2>3. CASE \E i \in Ids :
               \/ CloudPublishes(i)
               \/ \E h \in Versions \union {None}, due \in BOOLEAN : Request(i, h, due)
    <3>1. UNCHANGED <<expand, saves>>
      BY <2>3 DEF CloudPublishes, Request
    <3>2. ImageTypes' /\ ImageInv' /\ VersionInv' /\ HashNeverAhead'
      BY <2>0, <2>3, StepElsewhere
    <3> QED BY <2>0, <3>1, <3>2, Split DEF StoreInv, SaveInv, TypeOK, saves
  <2>4. CASE Crash
    <3>1. ImageTypes' /\ ImageInv' /\ VersionInv' /\ HashNeverAhead'
      BY <2>0, <2>4, StepElsewhere
    <3>2. /\ spc' \in [Files -> {"idle", "write", "sync", "rename"}]
          /\ tmp' \in [Files -> Values \union {Torn, None}]
          /\ arg' \in [Files -> Values \union {None}]
          /\ UNCHANGED <<file, expand>> /\ SaveInv'
      BY <2>4 DEF Crash, SaveInv
    <3> QED BY <2>0, <3>1, <3>2, Split DEF StoreInv, TypeOK
  <2>5. CASE UNCHANGED vars
    <3>1. UNCHANGED <<cloud, images, thread, latest>> /\ UNCHANGED <<expand, saves>>
      BY <2>5 DEF vars
    <3>2. ImageTypes' /\ ImageInv' /\ VersionInv' /\ HashNeverAhead'
      BY <2>0, <3>1, StepElsewhere
    <3> QED BY <2>0, <3>1, <3>2, Split DEF StoreInv, SaveInv, TypeOK, saves
  <2> QED BY <2>1, <2>2, <2>3, <2>4, <2>5 DEF Next
<1> QED BY InitStoreInv, <1>1, PTL DEF Spec

\* Whatever is saved, downloaded or lost, the state has its types: in particular no raw
\* frame that failed its CRC is ever stored.
THEOREM StoreTypeOK == Spec => []TypeOK
<1>1. StoreInv => TypeOK
  BY DEF StoreInv
<1> QED BY AlwaysStoreInv, <1>1, PTL

\* For any images, versions and power losses, the store serves what it accepted last or
\* nothing (eink_store_accept_temp_image, eink_store_resolve_show_path).
THEOREM ServesTheLatest == Spec => []ServesLatestAccepted
<1>1. StoreInv => ServesLatestAccepted
  BY DEF StoreInv, ImageInv, ServesLatestAccepted, Served
<1> QED BY AlwaysStoreInv, <1>1, PTL

\* For any images, versions and power losses, the recorded hash is not newer than the
\* content (eink_http_download_image_hashed, eink_store_save_content_hash).
THEOREM HashIsNeverAhead == Spec => []HashNeverAhead
<1>1. StoreInv => HashNeverAhead
  BY DEF StoreInv
<1> QED BY AlwaysStoreInv, <1>1, PTL

\* For any files and values, every save is atomic (eink_store_save_state and the like).
THEOREM RefinesStableFiles == Spec => ImplementsStableFiles
<1>1. Init => Stable!Init
  BY DEF Init, Stable!Init
<1>2. StoreInv /\ [Next]_vars => [Stable!Next]_(Stable!vars)
  <2> SUFFICES ASSUME StoreInv, [Next]_vars
               PROVE  Stable!Next \/ UNCHANGED <<file, arg>>
    BY DEF Stable!vars
  <2> USE DEF StoreInv, SaveInv, TypeOK
  <2>1. ASSUME NEW f \in Files, Save(f) PROVE Stable!Next \/ UNCHANGED <<file, arg>>
    <3>1. ASSUME NEW v \in Values, SaveOpen(f, v) PROVE Stable!Ask(f, v)
      BY <3>1 DEF SaveOpen, SaveStep, Stable!Ask
    <3>2. ASSUME SaveRename(f) PROVE Stable!Commit(f)
      BY <3>2 DEF SaveRename, SaveStep, Stable!Commit
    <3>3. ASSUME SaveFails(f) PROVE Stable!Abort(f)
      BY <3>3 DEF SaveFails, SaveStep, Stable!Abort
    <3>4. ASSUME SaveWrite(f) \/ SaveSync(f) PROVE UNCHANGED <<file, arg>>
      BY <3>4 DEF SaveWrite, SaveSync, SaveStep
    <3> QED BY <2>1, <3>1, <3>2, <3>3, <3>4 DEF Save, Stable!Next
  <2>2. ASSUME Crash PROVE Stable!Restart
    BY <2>2 DEF Crash, Stable!Restart
  <2>3. CASE Download
    BY <2>3, Zenon DEF Download, Transfer, Expand, Accept, UnlinkEs6f, UnlinkLz4, Rename,
       DownloadFails, HashWrite, HashUnlink, HashRename, HashFails, Goto, saves
  <2>4. CASE \E i \in Ids :
               \/ CloudPublishes(i)
               \/ \E h \in Versions \union {None}, due \in BOOLEAN : Request(i, h, due)
    BY <2>4 DEF CloudPublishes, Request, saves
  <2>5. CASE UNCHANGED vars
    BY <2>5 DEF vars, saves
  <2> QED BY <2>1, <2>2, <2>3, <2>4, <2>5 DEF Next, Stable!Next
<1> QED BY <1>1, <1>2, AlwaysStoreInv, PTL DEF Spec, ImplementsStableFiles, Stable!Spec
=============================================================================
