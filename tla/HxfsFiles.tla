----------------------------- MODULE HxfsFiles ------------------------------
(***************************************************************************)
(* The mounted object table, directory entries and blob index of HxFS      *)
(* (fixed_writer.rs), as operators on a file-system record                 *)
(*   [objs, entries, next, blobs]                                          *)
(* where objs[i] is a descriptor [kind, size, extents, count] (count is    *)
(* the stored record_count, extents the number of extents really in the    *)
(* table), entries is a set of [parent, name, obj], next is                *)
(* next_object_id and blobs[h] = [obj, refs] is the blob index.  Every     *)
(* operation returns [err, fs, obj]; a failing one returns the file system *)
(* as the early return leaves it, which is not always the one it was given.*)
(* Sizes are in blocks and the eight blob shards are one directory.        *)
(***************************************************************************)
EXTENDS Naturals, FiniteSets, Functions, TLC

CONSTANTS ObjectSlots,   \* MAX_OBJECTS
          EntrySlots,    \* MAX_DIR_ENTRIES
          BlobIndexSlots,\* MAX_HXBLOBS
          ObjectQuota    \* quota_objects of the volume, 0 for none

RootDir == 1
BlobsName == "blobs"

NsInit == [objs |-> (RootDir :> [kind |-> "dir", size |-> 0, extents |-> 0, count |-> 0]),
           entries |-> {}, next |-> RootDir + 1, blobs |-> <<>>]

NsOk(fs, o) == [err |-> "ok", fs |-> fs, obj |-> o]
NsErr(fs, e) == [err |-> e, fs |-> fs, obj |-> 0]

IsDir(fs, o) == o \in DOMAIN fs.objs /\ fs.objs[o].kind = "dir"
IsFile(fs, o) == o \in DOMAIN fs.objs /\ fs.objs[o].kind = "file"
Children(fs, d) == {e \in fs.entries : e.parent = d}
EntryOf(fs, d, n) == {e \in Children(fs, d) : e.name = n}

\* lookup_child: the object a name of directory d is bound to, 0 if none.
LookupChild(fs, d, n) ==
  IF IsDir(fs, d) /\ EntryOf(fs, d, n) # {} THEN (CHOOSE e \in EntryOf(fs, d, n) : TRUE).obj ELSE 0

\* open_child_file / open_child_dir.
OpenChild(fs, d, n, kind) ==
  LET o == LookupChild(fs, d, n)
  IN CASE o = 0 \/ o \notin DOMAIN fs.objs -> NsErr(fs, "NotFound")
       [] fs.objs[o].kind # kind -> NsErr(fs, "WrongType")
       [] OTHER -> NsOk(fs, o)

\* insert_dir_entry and the refresh of the parent's record count.
InsertDirEntry(fs, d, o, n) ==
  CASE EntryOf(fs, d, n) # {} -> NsErr(fs, "AlreadyExists")
    [] Cardinality(fs.entries) >= EntrySlots -> NsErr(fs, "NoSpace")
    [] OTHER ->
         LET added == fs.entries \cup {[parent |-> d, name |-> n, obj |-> o]}
         IN NsOk([fs EXCEPT !.entries = added,
                            !.objs[d].count = Cardinality({e \in added : e.parent = d})], o)

\* mkdir_child and create_file_child: the object is in the table before its
\* name is, and stays there when the name cannot be inserted.
CreateChild(fs, d, n, kind) ==
  CASE ~IsDir(fs, d) -> NsErr(fs, "WrongType")
    [] ObjectQuota # 0 /\ Cardinality(DOMAIN fs.objs) + 1 > ObjectQuota -> NsErr(fs, "NoSpace")
    [] LookupChild(fs, d, n) # 0 -> NsErr(fs, "AlreadyExists")
    [] Cardinality(DOMAIN fs.objs) >= ObjectSlots -> NsErr([fs EXCEPT !.next = @ + 1], "NoSpace")
    [] OTHER ->
         LET new == (fs.next :> [kind |-> kind, size |-> 0, extents |-> 0, count |-> 0])
         IN InsertDirEntry([fs EXCEPT !.objs = new @@ @, !.next = @ + 1], d, fs.next, n)

\* rename_child: the old name goes before the new one is inserted.
RenameChild(fs, d, n, d2, n2) ==
  CASE ~IsDir(fs, d) \/ ~IsDir(fs, d2) -> NsErr(fs, "WrongType")
    [] LookupChild(fs, d2, n2) # 0 -> NsErr(fs, "AlreadyExists")
    [] EntryOf(fs, d, n) = {} -> NsErr(fs, "NotFound")
    [] OTHER -> LET e == CHOOSE e \in EntryOf(fs, d, n) : TRUE
                IN InsertDirEntry([fs EXCEPT !.entries = @ \ {e}], d2, e.obj, n2)

\* Mutant of UnlinkChild: a directory goes with its children still named in it.
UnlinkAnyDirectory(fs, d, n) ==
  IF EntryOf(fs, d, n) = {} THEN NsErr(fs, "NotFound")
  ELSE LET e == CHOOSE e \in EntryOf(fs, d, n) : TRUE
       IN NsOk([fs EXCEPT !.entries = @ \ {e}, !.objs = Restrict(@, DOMAIN @ \ {e.obj})], e.obj)

\* unlink_child: a directory must be empty; the parent's record count is left.
UnlinkChild(fs, d, n) ==
  CASE ~IsDir(fs, d) -> NsErr(fs, "WrongType")
    [] EntryOf(fs, d, n) = {} -> NsErr(fs, "NotFound")
    [] OTHER ->
         LET e == CHOOSE e \in EntryOf(fs, d, n) : TRUE
         IN CASE e.obj \notin DOMAIN fs.objs -> NsErr(fs, "NotFound")
              [] IsDir(fs, e.obj) /\ Children(fs, e.obj) # {} -> NsErr(fs, "DirectoryNotEmpty")
              [] OTHER -> NsOk([fs EXCEPT !.entries = @ \ {e},
                                          !.objs = Restrict(@, DOMAIN @ \ {e.obj})], e.obj)

\* write_file_at, one block: at offset 0 every extent is dropped before the
\* quota and the device can refuse the write; elsewhere only an append is legal.
WriteFileAt(fs, o, offset, admitted) ==
  CASE o \notin DOMAIN fs.objs -> NsErr(fs, "NotFound")
    [] ~IsFile(fs, o) -> NsErr(fs, "WrongType")
    [] offset # 0 /\ offset # fs.objs[o].size -> NsErr(fs, "Unsupported")
    [] OTHER ->
         LET cleared == IF offset = 0 THEN [fs EXCEPT !.objs[o].extents = 0] ELSE fs
             grown == cleared.objs[o].extents + 1
         IN IF ~admitted THEN NsErr(cleared, "QuotaExceeded")
            ELSE NsOk([cleared EXCEPT !.objs[o] = [@ EXCEPT !.extents = grown, !.count = grown,
                                                            !.size = offset + 1]], o)

\* truncate_file: extents wholly past the new end go, a larger size leaves a hole.
TruncateAt(fs, o, size) ==
  CASE o \notin DOMAIN fs.objs -> NsErr(fs, "NotFound")
    [] ~IsFile(fs, o) -> NsErr(fs, "WrongType")
    [] OTHER -> LET kept == IF fs.objs[o].extents < size THEN fs.objs[o].extents ELSE size
                IN NsOk([fs EXCEPT !.objs[o] = [@ EXCEPT !.size = size, !.extents = kept,
                                                         !.count = kept]], o)

\* blobs_directory / blob_shard_directory: the directory is made on first use.
BlobsDirectory(fs) ==
  LET found == OpenChild(fs, RootDir, BlobsName, "dir")
  IN IF found.err = "ok" THEN found ELSE CreateChild(fs, RootDir, BlobsName, "dir")

\* put_blob: store the payload h as a file, then index it with one reference.
\* A failure after the file was created leaves the file behind.
PutBlob(fs, h, admitted) ==
  IF h \in DOMAIN fs.blobs THEN NsErr(fs, "AlreadyExists")
  ELSE IF Cardinality(DOMAIN fs.blobs) >= BlobIndexSlots THEN NsErr(fs, "NoSpace")
  ELSE LET dir == BlobsDirectory(fs)
           file == CreateChild(dir.fs, dir.obj, h, "file")
           written == WriteFileAt(file.fs, file.obj, 0, admitted)
       IN CASE dir.err # "ok" -> NsErr(dir.fs, dir.err)
            [] file.err # "ok" -> NsErr(file.fs, file.err)
            [] written.err # "ok" -> NsErr(written.fs, written.err)
            [] OTHER -> NsOk([written.fs EXCEPT !.blobs = (h :> [obj |-> file.obj, refs |-> 1]) @@ @],
                             file.obj)

\* acquire_blob_ref / release_blob_ref.
AcquireBlobRef(fs, h) ==
  IF h \notin DOMAIN fs.blobs THEN NsErr(fs, "NotFound")
  ELSE NsOk([fs EXCEPT !.blobs[h].refs = @ + 1], fs.blobs[h].obj)

ReleaseBlobRef(fs, h) ==
  CASE h \notin DOMAIN fs.blobs -> NsErr(fs, "NotFound")
    [] fs.blobs[h].refs = 0 -> NsErr(fs, "RefcountZero")
    [] OTHER -> NsOk([fs EXCEPT !.blobs[h].refs = @ - 1], fs.blobs[h].obj)

\* get_blob, read_blob_at, verify_blob: the file is found by name in the shard.
BlobReadable(fs, h) ==
  /\ h \in DOMAIN fs.blobs
  /\ LET dir == BlobsDirectory(fs) IN dir.err = "ok" /\ OpenChild(dir.fs, dir.obj, h, "file").err = "ok"

\* gc_blobs: every record at zero whose file is still in the shard directory
\* is unlinked and dropped from the index; the others are skipped.
GcBlobs(fs) ==
  LET dir == LookupChild(fs, RootDir, BlobsName)
      swept == {h \in DOMAIN fs.blobs : fs.blobs[h].refs = 0 /\ EntryOf(fs, dir, h) # {}}
      dead == {e \in Children(fs, dir) : e.name \in swept}
  IN IF ~IsDir(fs, dir) THEN fs
     ELSE [fs EXCEPT !.blobs = Restrict(@, DOMAIN @ \ swept), !.entries = @ \ dead,
                     !.objs = Restrict(@, DOMAIN @ \ {e.obj : e \in dead})]

\* The structural part of fsck: live root, entries naming live objects, no two
\* entries of a directory for one object, stored record counts that agree.
FsckEntriesClean(fs) ==
  /\ IsDir(fs, RootDir)
  /\ \A e \in fs.entries : e.obj \in DOMAIN fs.objs
  /\ \A e, f \in fs.entries : e # f /\ e.parent = f.parent => e.obj # f.obj
FsckCountsClean(fs) ==
  \A o \in DOMAIN fs.objs :
     fs.objs[o].count = IF IsDir(fs, o) THEN Cardinality(Children(fs, o)) ELSE fs.objs[o].extents

-----------------------------------------------------------------------------
(***************************************************************************)
(* The HxFS service process (hxfs-service/src/main.rs).  It waits for a    *)
(* block device and perhaps a key, mounts the volume, and then serves four *)
(* bounded tables of endpoints: clients, open files, open directories and  *)
(* blob views.  A connection is one channel: "served" says the service     *)
(* holds its end in a table, "user" that the other end is open.            *)
(*                                                                         *)
(* The service is one thread, so a request is read, executed and answered  *)
(* in one step.  What can happen during the step is that the requester     *)
(* goes away: the transfer of a new endpoint then fails ("gone").  A       *)
(* request still queued when its sender closed is never read: the channel  *)
(* reports the closed peer first.                                          *)
(***************************************************************************)

CONSTANTS Conns,        \* channel identities
          ClientSlots, FileSlots, DirSlots, BlobSlots,
          Workloads,    \* [names, payloads, encrypted]: the volume and what its users touch
          Payloads,     \* blob contents, named by their hash
          MaxNextObject, MaxBlobRefs, MaxFileBlocks   \* bounds of the instance

VARIABLE svc

svcVars == <<svc>>

FreeConn == [kind |-> "none", served |-> FALSE, user |-> FALSE, obj |-> 0, size |-> 0, hash |-> "none"]

TableSize(kind) ==
  CASE kind = "client" -> ClientSlots [] kind = "file" -> FileSlots
    [] kind = "dir" -> DirSlots [] kind = "blob" -> BlobSlots

\* The process before mount_from_bootstrap: an encrypted or a plain volume,
\* no key, no tables.  textRefs counts BLOB_OPEN references users still owe.
SvcInit ==
  \E load \in Workloads :
    svc = [phase |-> "mounting", load |-> load, key |-> "none", fs |-> NsInit,
           conn |-> [c \in Conns |-> FreeConn], textRefs |-> [h \in Payloads |-> 0]]

\* How handing out a new endpoint ends: Channel::pair fails, the requester is
\* gone by the time of the transfer, or the endpoint arrives.
Outcomes == {"noPair", "gone", "sent"}

Served(kind) == {c \in Conns : svc.conn[c].served /\ svc.conn[c].kind = kind}
HasSlot(kind) == Cardinality(Served(kind)) < TableSize(kind)
Unused == {c \in Conns : svc.conn[c] = FreeConn}

\* receive_key_grant: the reply must carry the generation that was asked for.
ReceiveKeyGrant ==
  /\ svc.phase = "mounting" /\ svc.key = "none"
  /\ \E sameGeneration \in BOOLEAN, status \in {"Granted", "NotFound", "Stale", "Denied"} :
        svc' = CASE ~sameGeneration \/ status \in {"Stale", "Denied"} -> [svc EXCEPT !.phase = "exited"]
                 [] status = "Granted" -> [svc EXCEPT !.key = "key"]
                 [] OTHER -> svc

\* mount_from_bootstrap on "hxfs:block-device": replay, then mount; a failing
\* replay or mount, and an encrypted volume without its key, end the process.
MountFromBootstrap ==
  /\ svc.phase = "mounting"
  /\ \E replayed, mounted \in BOOLEAN :
        svc' = IF replayed /\ mounted /\ (svc.load.encrypted => svc.key = "key")
               THEN [svc EXCEPT !.phase = "up", !.key = IF svc.load.encrypted THEN @ ELSE "none"]
               ELSE [svc EXCEPT !.phase = "exited"]

\* The 90 s hand-over deadline, or a broken bootstrap channel.
HandoffFails == svc.phase = "mounting" /\ svc' = [svc EXCEPT !.phase = "exited"]

\* attach_client: a full table drops the channel the client was given.
AttachClient ==
  /\ svc.phase = "up" /\ Unused # {}
  /\ LET c == CHOOSE c \in Unused : \A d \in Unused : c <= d
     IN svc' = IF HasSlot("client")
               THEN [svc EXCEPT !.conn[c] = [FreeConn EXCEPT !.kind = "client", !.user = TRUE, !.served = TRUE]]
               ELSE svc

\* The user closes its end.
UserCloses(c) == svc.conn[c].user /\ svc' = [svc EXCEPT !.conn[c].user = FALSE]

\* The slot is emptied; a user end still open has nobody behind it from now on.
Dropped(s, c) == [s EXCEPT !.conn[c] = FreeConn]

\* PeerClosed in poll_client, poll_file, poll_dir and poll_blob: the slot is
\* freed, and a blob view gives its reference back.
PollClosed(c) ==
  /\ svc.conn[c].served /\ ~svc.conn[c].user
  /\ svc' = [Dropped(svc, c) EXCEPT
               !.fs = IF svc.conn[c].kind = "blob" THEN ReleaseBlobRef(@, svc.conn[c].hash).fs ELSE @]

\* Any other read error drops the endpoint, except that a blob view stays.
PollError(c) ==
  /\ svc.conn[c].served /\ svc.conn[c].user
  /\ svc' = IF svc.conn[c].kind = "blob" THEN svc ELSE Dropped(svc, c)

\* return_{file,dir,blob}_to_{client,dir}: a free slot, a channel pair, the
\* transfer, and only then the slot is filled.  On any failure nothing of
\* what the request did before is undone.
ReturnEndpoint(s, c, kind, obj, size, hash, outcome) ==
  IF ~HasSlot(kind) \/ Unused = {} \/ outcome = "noPair" THEN s
  ELSE LET d == CHOOSE d \in Unused : \A e \in Unused : d <= e
       IN IF outcome = "gone" THEN [s EXCEPT !.conn[c].user = FALSE]
          ELSE [s EXCEPT !.conn[d] = [kind |-> kind, served |-> TRUE, user |-> TRUE,
                                      obj |-> obj, size |-> size, hash |-> hash]]

Answer(c, result, kind, outcome) ==
  LET s == [svc EXCEPT !.fs = result.fs]
  IN IF result.err # "ok" THEN s
     ELSE ReturnEndpoint(s, c, kind, result.obj, result.fs.objs[result.obj].size, "none", outcome)

\* The directory a request works in: the root for a client, its own for a dir.
Base(c) == IF svc.conn[c].kind = "client" THEN RootDir ELSE svc.conn[c].obj
Asks(c, kinds) == svc.phase = "up" /\ svc.conn[c].served /\ svc.conn[c].user /\ svc.conn[c].kind \in kinds

\* OpenRoot, OpenPath, OPEN_FILE, OPEN_DIR: clients and directories.
HandleOpen(c) ==
  /\ Asks(c, {"client", "dir"})
  /\ \E n \in svc.load.names, kind \in {"file", "dir"}, outcome \in Outcomes :
        svc' = Answer(c, OpenChild(svc.fs, Base(c), n, kind), kind, outcome)

HandleOpenRoot(c) ==
  /\ Asks(c, {"client"})
  /\ \E outcome \in Outcomes : svc' = Answer(c, NsOk(svc.fs, RootDir), "dir", outcome)

\* CreateFile and Mkdir: the object exists even when its endpoint is not delivered.
HandleCreate(c) ==
  /\ Asks(c, {"client", "dir"}) /\ svc.fs.next < MaxNextObject
  /\ \E n \in svc.load.names, kind \in {"file", "dir"}, outcome \in Outcomes :
        svc' = Answer(c, CreateChild(svc.fs, Base(c), n, kind), kind, outcome)

\* Rename: a client renames between paths, a directory within itself.
HandleRename(c) ==
  /\ Asks(c, {"client", "dir"})
  /\ \E n, n2 \in svc.load.names, into \in {Base(c)} \cup
           {LookupChild(svc.fs, RootDir, m) : m \in IF svc.conn[c].kind = "client" THEN svc.load.names ELSE {}} :
        svc' = [svc EXCEPT !.fs = RenameChild(@, Base(c), n, into, n2).fs]

HandleUnlink(c) ==
  /\ Asks(c, {"client", "dir"})
  /\ \E n \in svc.load.names : svc' = [svc EXCEPT !.fs = UnlinkChild(@, Base(c), n).fs]

\* WriteAt and Truncate: the endpoint's cached handle takes the new size.
HandleFile(c) ==
  /\ Asks(c, {"file"})
  /\ \E r \in {WriteFileAt(svc.fs, svc.conn[c].obj, off, adm) : off \in 0 .. MaxFileBlocks - 1, adm \in BOOLEAN}
             \cup {TruncateAt(svc.fs, svc.conn[c].obj, n) : n \in 0 .. MaxFileBlocks} :
        svc' = [svc EXCEPT !.fs = r.fs,
                           !.conn[c].size = IF r.err = "ok" THEN r.fs.objs[r.obj].size ELSE @]

\* client_open_blob_native: verify, take the view's reference, hand it out.
OpenBlob(c) ==
  /\ Asks(c, {"client"})
  /\ \E h \in svc.load.payloads, outcome \in Outcomes :
        /\ BlobReadable(svc.fs, h) /\ svc.fs.blobs[h].refs < MaxBlobRefs
        /\ svc' = ReturnEndpoint([svc EXCEPT !.fs = AcquireBlobRef(@, h).fs], c, "blob", 0, 1, h, outcome)

\* client_create_blob_native: store, or share what is stored, then hand it out.
CreateBlob(c) ==
  /\ Asks(c, {"client"}) /\ svc.fs.next + 1 < MaxNextObject
  /\ \E h \in svc.load.payloads, outcome \in Outcomes, admitted \in BOOLEAN :
       LET put == PutBlob(svc.fs, h, admitted)
           held == IF put.err = "AlreadyExists" THEN AcquireBlobRef(put.fs, h) ELSE put
       IN /\ h \in DOMAIN svc.fs.blobs => svc.fs.blobs[h].refs < MaxBlobRefs
          /\ svc' = IF held.err # "ok" THEN [svc EXCEPT !.fs = held.fs]
                    ELSE ReturnEndpoint([svc EXCEPT !.fs = held.fs], c, "blob", 0, 1, h, outcome)

\* BLOB_OPEN, BLOB_CLOSE, PUT_BLOB of the text protocol.  A user closes by
\* text only what it opened or stored by text.
TextBlob(c) ==
  /\ Asks(c, {"client"})
  /\ \E h \in svc.load.payloads :
       \/ /\ h \in DOMAIN svc.fs.blobs /\ svc.fs.blobs[h].refs < MaxBlobRefs
          /\ svc' = [svc EXCEPT !.fs = AcquireBlobRef(@, h).fs, !.textRefs[h] = @ + 1]
       \/ /\ svc.textRefs[h] > 0
          /\ svc' = [svc EXCEPT !.fs = ReleaseBlobRef(@, h).fs, !.textRefs[h] = @ - 1]
       \/ /\ svc.fs.next + 1 < MaxNextObject /\ svc.textRefs[h] < MaxBlobRefs
          /\ \E admitted \in BOOLEAN :
               LET put == PutBlob(svc.fs, h, admitted)
               IN svc' = [svc EXCEPT !.fs = put.fs, !.textRefs[h] = IF put.err = "ok" THEN @ + 1 ELSE @]

\* GcBlobs and BLOB_GC.
CollectBlobs(c) == Asks(c, {"client"}) /\ svc' = [svc EXCEPT !.fs = GcBlobs(@)]

SvcNext ==
  \/ ReceiveKeyGrant
  \/ MountFromBootstrap
  \/ HandoffFails
  \/ AttachClient
  \/ \E c \in Conns : \/ UserCloses(c)
                      \/ PollClosed(c)
                      \/ PollError(c)
                      \/ HandleOpen(c)
                      \/ HandleOpenRoot(c)
                      \/ HandleCreate(c)
                      \/ HandleRename(c)
                      \/ HandleUnlink(c)
                      \/ HandleFile(c)
                      \/ OpenBlob(c)
                      \/ CreateBlob(c)
                      \/ TextBlob(c)
                      \/ CollectBlobs(c)

Views(h) == {c \in Conns : svc.conn[c].served /\ svc.conn[c].kind = "blob" /\ svc.conn[c].hash = h}

\* A blob some view is open on is in the index and every view, native or by
\* text, has its own reference, so no garbage collection takes a blob away
\* under a reader, whichever clients came, failed and left meanwhile; and an
\* encrypted volume is never served without a key granted for the generation
\* that was asked for.
OpenViewsKeepBlobs ==
  /\ \A h \in Payloads :
       Cardinality(Views(h)) + svc.textRefs[h] > 0 =>
          h \in DOMAIN svc.fs.blobs /\ svc.fs.blobs[h].refs >= Cardinality(Views(h)) + svc.textRefs[h]
  /\ svc.phase = "up" /\ svc.load.encrypted => svc.key = "key"

\* Names, objects and endpoints agree: an entry names a live object from a
\* live directory, no object has two names and no directory two entries of
\* one name, whichever request failed half-way; and an endpoint whose object
\* is still there has the kind it was opened with.
NamesAndEndpointsAgree ==
  LET fs == svc.fs
  IN /\ FsckEntriesClean(fs)
     /\ \A e \in fs.entries : IsDir(fs, e.parent)
     /\ \A e, f \in fs.entries : e # f => e.obj # f.obj /\ <<e.parent, e.name>> # <<f.parent, f.name>>
     /\ \A o \in DOMAIN fs.objs : o < fs.next
     /\ \A c \in Conns : svc.conn[c].kind \in {"file", "dir"} /\ svc.conn[c].obj \in DOMAIN fs.objs =>
                           fs.objs[svc.conn[c].obj].kind = svc.conn[c].kind
     /\ \A kind \in {"client", "file", "dir", "blob"} : Cardinality(Served(kind)) <= TableSize(kind)
=============================================================================
