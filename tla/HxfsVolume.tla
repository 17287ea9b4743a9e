----------------------------- MODULE HxfsVolume -----------------------------
(***************************************************************************)
(* huesos-hxfs FixedHxfsWriter: a mounted volume on a block device with a  *)
(* volatile write cache.  File data is written copy-on-write; a checkpoint *)
(* writes fresh metadata and a journal of it, then publishes it through    *)
(* the superblock in block 0 (RECOVERING, then CLEAN).  The power may fail *)
(* at any moment and keep any subset of the writes not yet flushed; the    *)
(* journal is then replayed and the volume mounted again.                  *)
(*                                                                         *)
(* A transaction writes one tree block per object and one block for the    *)
(* tables and the checkpoint; its journal is held by its first block.      *)
(* Blocks of file data carry the number of the write that made them.       *)
(***************************************************************************)
EXTENDS Integers, Sequences, FiniteSets, FiniteSetsExt, SequencesExt

CONSTANTS HxFiles,        \* objects that may be created, as a sequence
          HxLast,         \* last block of the device
          SlotsPerWrite,  \* blocks of one data write (2: encrypted, incompressible)
          QuotaBlocks,    \* quota_physical_bytes, in blocks
          MaxRanges,      \* MAX_EXTENTS
          FailingStages,  \* publication stages at which the device may report an error
          MaxHxWrites, MaxPublishes, MaxHxCrashes   \* bounds

Root == "root"
Junk == [k |-> "junk"]
DataBlock(v) == [k |-> "data", v |-> v]
TreeBlock(o, at, ext) == [k |-> "tree", owner |-> o, at |-> at, ext |-> ext]
CheckpointBlock(seq, at, trees) == [k |-> "checkpoint", seq |-> seq, at |-> at, trees |-> trees]
Superblock(st, seq, cp, js) == [k |-> "super", st |-> st, seq |-> seq, cp |-> cp, js |-> js]
NoTxn == [stage |-> "none"]
NoMem == [seq |-> 0]

VARIABLES hxDisk,     \* block -> what the medium holds, where it was ever written
          hxPending,  \* block -> content of the writes not yet flushed
          hxPhase,    \* "down", "replayed", "mounted", "lost"
          hxMem,      \* FixedHxfsWriter
          hxTxn,      \* publish_checkpoint in progress
          hxShadow,   \* what the user of the mounted volume has written, per file
          hxGood,     \* the file contents a recovery may come up with
          hxIntact,   \* every mount so far came up with one of those
          hxCount     \* writes, publications and crashes so far

hxVars == <<hxDisk, hxPending, hxPhase, hxMem, hxTxn, hxShadow, hxGood, hxIntact, hxCount>>

HxInit ==
    /\ hxDisk = 0 :> Superblock("clean", 1, 2, 0) @@ 1 :> TreeBlock(Root, 1, <<>>)
                @@ 2 :> CheckpointBlock(1, 2, (Root :> 1))
    /\ hxPending = <<>>
    /\ hxPhase = "down" /\ hxMem = NoMem /\ hxTxn = NoTxn
    /\ hxShadow = <<>> /\ hxGood = {<<>>} /\ hxIntact = TRUE
    /\ hxCount = [writes |-> 0, publishes |-> 0, crashes |-> 0]

\* What the device answers: its cache over the medium.
Seen == hxPending @@ hxDisk
At(d, b) == IF b \in DOMAIN d THEN d[b] ELSE Junk

-----------------------------------------------------------------------------
(* Free space *)

Blocks(r) == r.start .. r.start + r.count - 1
Span(ranges) == UNION {Blocks(r) : r \in ToSet(ranges)}

\* The maximal runs of a set of blocks, lowest first.
RunsOf(S) ==
    LET starts == {b \in S : b - 1 \notin S}
        run(b) == [start |-> b, count |-> Min({e \in b .. HxLast + 1 : e \notin S}) - b]
    IN SetToSortSeq({run(b) : b \in starts}, LAMBDA a, b : a.start < b.start)

\* coalesce_free_space: sorts, and merges ranges that touch.
Coalesce(ranges) ==
    LET merge(acc, r) ==
            IF acc # <<>> /\ Last(acc).start + Last(acc).count = r.start
            THEN Append(Front(acc), [start |-> Last(acc).start, count |-> Last(acc).count + r.count])
            ELSE Append(acc, r)
    IN FoldLeft(merge, <<>>, SortSeq(ranges, LAMBDA a, b : a.start < b.start))

\* take_free_blocks: first fit; start 0 when nothing fits.
TakeFree(free, n) ==
    LET i == SelectInSeq(free, LAMBDA r : r.count >= n)
    IN IF i = 0 THEN [start |-> 0, free |-> free]
       ELSE [start |-> free[i].start,
             free |-> IF free[i].count = n THEN RemoveAt(free, i)
                      ELSE [free EXCEPT ![i] = [start |-> @.start + n, count |-> @.count - n]]]

\* The blocks of an extent as free space and quota count them: a two-slot
\* extent counts as one.
Counted(e) == IF e.multi THEN 1 ELSE e.count
LiveExtents(m) == UNION {ToSet(m.extents[f]) : f \in DOMAIN m.extents}
LiveBlocks(m) == UNION {e.start .. e.start + Counted(e) - 1 : e \in LiveExtents(m)}

\* metadata_region_start
MetaStart(m) == Min({m.next, m.cp} \cup {m.trees[o] : o \in {p \in DOMAIN m.trees : m.trees[p] # 0}})

\* Mutant: the blocks of a deleted file may be written again at once.
FreeExtentRangeNow(m, r) ==
    [m EXCEPT !.free = IF r.start + r.count > MetaStart(m) THEN @ ELSE Coalesce(Append(@, r)),
              !.cache = [b \in DOMAIN @ \ Blocks(r) |-> @[b]]]

\* free_extent_range: the blocks leave the page cache and wait for a checkpoint,
\* unless they are not below the metadata.
FreeExtentRange(m, r) ==
    [m EXCEPT !.pend = IF r.start + r.count <= MetaStart(m) /\ Len(@) < MaxRanges
                       THEN Append(@, r) ELSE @,
              !.cache = [b \in DOMAIN @ \ Blocks(r) |-> @[b]]]

\* clear_extents
ClearExtents(m, f) ==
    LET free(acc, e) == FreeExtentRange(acc, [start |-> e.start, count |-> Counted(e)])
    IN [FoldLeft(free, m, m.extents[f]) EXCEPT !.extents[f] = <<>>]

\* promote_pending_free
PromotePending(m) == [m EXCEPT !.free = Coalesce(@ \o m.pend), !.pend = <<>>]

\* free_retired_metadata: what is not live file data between first and last.
FreeRetired(m, first, end) ==
    FoldLeft(FreeExtentRange, m, RunsOf((first .. end - 1) \ LiveBlocks(m)))

-----------------------------------------------------------------------------
(* Mounting *)

\* compute_next_lba
NextLba(cp, trees, extents) ==
    1 + Max({cp} \cup {trees[o] : o \in DOMAIN trees}
            \cup {e.start + e.count - 1 : e \in UNION {ToSet(extents[f]) : f \in DOMAIN extents}})

\* rebuild_free_space
RebuildFree(m) == [m EXCEPT !.free = RunsOf((1 .. MetaStart(m) - 1) \ LiveBlocks(m))]

\* read_superblock, read_checkpoint, load_object_tree, load_directory, load_extents:
\* every block has the type, place, owner and sequence number it is expected to have.
Loadable(d) ==
    LET cp == At(d, d[0].cp)
    IN /\ cp.k = "checkpoint" /\ cp.at = d[0].cp /\ cp.seq = d[0].seq
       /\ \A o \in DOMAIN cp.trees :
              LET t == At(d, cp.trees[o])
              IN t.k = "tree" /\ t.at = cp.trees[o] /\ t.owner = o

\* What reading every file gives.
Contents(d, extents) == [f \in DOMAIN extents |-> [i \in DOMAIN extents[f] |-> At(d, extents[f][i].start)]]

\* FixedHxfsWriter::mount_with_keys on a clean root.
Mount ==
    /\ hxPhase = "down" /\ hxDisk[0].st = "clean"
    /\ IF Loadable(hxDisk)
       THEN LET trees == hxDisk[hxDisk[0].cp].trees
                files == DOMAIN trees \ {Root}
                extents == [f \in files |-> hxDisk[trees[f]].ext]
                found == Contents(hxDisk, extents)
            IN /\ hxMem' = RebuildFree([seq |-> hxDisk[0].seq, cp |-> hxDisk[0].cp, trees |-> trees,
                                        extents |-> extents,
                                        next |-> NextLba(hxDisk[0].cp, trees, extents),
                                        free |-> <<>>, pend |-> <<>>, cache |-> <<>>,
                                        dirty |-> FALSE])
               /\ hxPhase' = "mounted"
               /\ hxIntact' = (hxIntact /\ found \in hxGood)
               /\ hxShadow' = found
               /\ hxGood' = {found}
       ELSE hxPhase' = "lost" /\ UNCHANGED <<hxMem, hxIntact, hxShadow, hxGood>>
    /\ UNCHANGED <<hxDisk, hxPending, hxTxn, hxCount>>

\* replay_journal: the copies go to their targets and the final superblock to
\* block 0, with no flush between them; a journal that does not check out is an error.
ReplayJournal ==
    /\ hxPhase = "down" /\ hxDisk[0].st = "recovering"
    /\ LET j == At(hxDisk, hxDisk[0].js)
       IN IF j.k = "journal" /\ j.seq = hxDisk[0].seq
          THEN /\ hxPending' = (0 :> j.final) @@ j.copies
               /\ hxPhase' = "replayed"
          ELSE hxPhase' = "lost" /\ UNCHANGED hxPending
    /\ UNCHANGED <<hxDisk, hxMem, hxTxn, hxShadow, hxGood, hxIntact, hxCount>>

ReplayFlush ==
    /\ hxPhase = "replayed"
    /\ hxDisk' = Seen /\ hxPending' = <<>>
    /\ hxPhase' = "down"
    /\ UNCHANGED <<hxMem, hxTxn, hxShadow, hxGood, hxIntact, hxCount>>

\* The power fails: any of the unflushed writes may have reached the medium.
PowerFails ==
    /\ hxPhase \in {"mounted", "replayed"} /\ hxCount.crashes < MaxHxCrashes
    /\ \E kept \in SUBSET DOMAIN hxPending :
           hxDisk' = [b \in kept |-> hxPending[b]] @@ hxDisk
    /\ hxPending' = <<>> /\ hxPhase' = "down"
    /\ hxMem' = NoMem /\ hxTxn' = NoTxn /\ hxShadow' = <<>>
    /\ hxCount' = [hxCount EXCEPT !.crashes = @ + 1]
    /\ UNCHANGED <<hxGood, hxIntact>>

-----------------------------------------------------------------------------
(* Files *)

Mounted == hxPhase = "mounted" /\ hxTxn = NoTxn
Live(f) == f \in DOMAIN hxMem.extents

\* create_file_child
CreateFile(f) ==
    /\ Mounted /\ ~Live(f) /\ hxCount.writes < MaxHxWrites
    /\ hxMem' = [hxMem EXCEPT !.extents = (f :> <<>>) @@ @, !.trees = (f :> 0) @@ @, !.dirty = TRUE]
    /\ hxShadow' = (f :> <<>>) @@ hxShadow
    /\ hxCount' = [hxCount EXCEPT !.writes = @ + 1]
    /\ UNCHANGED <<hxDisk, hxPending, hxPhase, hxTxn, hxGood, hxIntact>>

\* reserve_data_blocks: recycled space first, the end of the volume otherwise.
Reserve(m, n) ==
    LET t == TakeFree(m.free, n)
    IN IF t.start # 0 THEN [m |-> [m EXCEPT !.free = t.free], at |-> t.start]
       ELSE [m |-> [m EXCEPT !.next = @ + n], at |-> m.next]

\* quota_admits on physical bytes
QuotaAdmits(m) == Cardinality(LiveBlocks(m)) + SlotsPerWrite <= QuotaBlocks

\* write_file_at with one block of data: at offset 0 the old extents go first,
\* whether or not the quota then admits the write; at the end it appends.
WriteFile(f, rewrite) ==
    /\ Mounted /\ Live(f) /\ hxCount.writes < MaxHxWrites
    /\ LET old == IF rewrite THEN ClearExtents(hxMem, f) ELSE hxMem
           r == Reserve(old, SlotsPerWrite)
           extent == [start |-> r.at, count |-> SlotsPerWrite, multi |-> SlotsPerWrite = 2]
           data == DataBlock(hxCount.writes + 1)
           kept == IF rewrite THEN <<>> ELSE hxShadow[f]
       IN IF QuotaAdmits(old)
          THEN /\ r.at + SlotsPerWrite - 1 <= HxLast
               /\ hxPending' = [b \in r.at .. r.at + SlotsPerWrite - 1 |-> data] @@ hxPending
               /\ hxMem' = [r.m EXCEPT !.extents[f] = Append(@, extent), !.dirty = TRUE,
                                       !.cache = [b \in DOMAIN @ \ Blocks(extent) |-> @[b]]]
               /\ hxShadow' = [hxShadow EXCEPT ![f] = Append(kept, data)]
          ELSE /\ hxMem' = old /\ hxShadow' = [hxShadow EXCEPT ![f] = kept]
               /\ UNCHANGED hxPending
    /\ hxCount' = [hxCount EXCEPT !.writes = @ + 1]
    /\ UNCHANGED <<hxDisk, hxPhase, hxTxn, hxGood, hxIntact>>

\* truncate_file: extents past the new size are forgotten, their blocks are not freed.
TruncateFile(f, n) ==
    /\ Mounted /\ Live(f) /\ n < Len(hxMem.extents[f])
    /\ hxMem' = [hxMem EXCEPT !.extents[f] = SubSeq(@, 1, n), !.dirty = TRUE]
    /\ hxShadow' = [hxShadow EXCEPT ![f] = SubSeq(@, 1, n)]
    /\ UNCHANGED <<hxDisk, hxPending, hxPhase, hxTxn, hxGood, hxIntact, hxCount>>

\* unlink_child
UnlinkFile(f) ==
    /\ Mounted /\ Live(f)
    /\ LET m == ClearExtents([hxMem EXCEPT !.trees = [o \in DOMAIN @ \ {f} |-> @[o]]], f)
       IN hxMem' = [m EXCEPT !.extents = [g \in DOMAIN @ \ {f} |-> @[g]], !.dirty = TRUE]
    /\ hxShadow' = [g \in DOMAIN hxShadow \ {f} |-> hxShadow[g]]
    /\ UNCHANGED <<hxDisk, hxPending, hxPhase, hxTxn, hxGood, hxIntact, hxCount>>

\* read_extent_block: through the page cache.
ReadBlock(m, b) == IF b \in DOMAIN m.cache THEN m.cache[b] ELSE At(Seen, b)

ReadFile(f, i) ==
    /\ Mounted /\ Live(f) /\ i \in DOMAIN hxMem.extents[f]
    /\ LET b == hxMem.extents[f][i].start
       IN hxMem' = [hxMem EXCEPT !.cache = (b :> ReadBlock(hxMem, b))]
    /\ UNCHANGED <<hxDisk, hxPending, hxPhase, hxTxn, hxShadow, hxGood, hxIntact, hxCount>>

-----------------------------------------------------------------------------
(* publish_checkpoint *)

\* TransactionShape::plan and the layout from block t on: trees, checkpoint, and a
\* journal of two blocks for each of those and for the final root.
MetadataSpan(m) == 3 * (Cardinality(DOMAIN m.trees) + 1) + 2

Layout(m, t) ==
    LET objects == SelectSeq(<<Root>> \o HxFiles, LAMBDA o : o \in DOMAIN m.trees)
        trees == [o \in DOMAIN m.trees |-> t + SelectInSeq(objects, LAMBDA p : p = o) - 1]
        cp == t + Len(objects)
        records == Len(objects) + 2
        copies == [b \in t .. cp |->
                      IF b = cp THEN CheckpointBlock(m.seq + 1, cp, trees)
                      ELSE LET o == objects[b - t + 1]
                           IN TreeBlock(o, b, IF o = Root THEN <<>> ELSE m.extents[o])]
    IN [trees |-> trees, cp |-> cp, journal |-> cp + 1, end |-> cp + 1 + 2 * records, copies |-> copies]

\* Up to the first flush: every target and the journal are written.
BeginPublish ==
    /\ Mounted /\ hxMem.dirty /\ hxCount.publishes < MaxPublishes
    /\ LET t == TakeFree(hxMem.free, MetadataSpan(hxMem))
           first == IF t.start # 0 THEN t.start ELSE hxMem.next
           l == Layout(hxMem, first)
           final == Superblock("clean", hxMem.seq + 1, l.cp, 0)
           journal == [k |-> "journal", seq |-> hxMem.seq + 1, copies |-> l.copies, final |-> final]
       IN /\ l.end - 1 <= HxLast
          /\ hxMem' = [hxMem EXCEPT !.free = t.free]
          /\ hxPending' = (l.journal :> journal) @@ l.copies @@ hxPending
          /\ hxTxn' = [stage |-> "written", trees |-> l.trees, start |-> first, cp |-> l.cp,
                       end |-> l.end, final |-> final,
                       retired |-> [first |-> MetaStart(hxMem), end |-> hxMem.next]]
    /\ hxCount' = [hxCount EXCEPT !.publishes = @ + 1]
    /\ UNCHANGED <<hxDisk, hxPhase, hxShadow, hxGood, hxIntact>>

PublishFlush(from, to) ==
    /\ hxTxn.stage = from
    /\ hxDisk' = Seen /\ hxPending' = <<>>
    /\ hxTxn' = [hxTxn EXCEPT !.stage = to]
    /\ UNCHANGED <<hxPhase, hxMem, hxShadow, hxGood, hxIntact, hxCount>>

\* The RECOVERING root, which points at the journal.
WriteRecovering ==
    /\ hxTxn.stage = "journaled"
    /\ hxPending' = (0 :> Superblock("recovering", hxMem.seq + 1, hxTxn.cp, hxTxn.cp + 1)) @@ hxPending
    /\ hxTxn' = [hxTxn EXCEPT !.stage = "recovering"]
    /\ hxGood' = hxGood \cup {hxShadow}
    /\ UNCHANGED <<hxDisk, hxPhase, hxMem, hxShadow, hxIntact, hxCount>>

WriteClean ==
    /\ hxTxn.stage = "recoverable"
    /\ hxPending' = (0 :> hxTxn.final) @@ hxPending
    /\ hxTxn' = [hxTxn EXCEPT !.stage = "clean"]
    /\ UNCHANGED <<hxDisk, hxPhase, hxMem, hxShadow, hxGood, hxIntact, hxCount>>

\* The last flush, then the new root in memory; only now may what the old root
\* used be written again.
FinishPublish ==
    /\ hxTxn.stage = "clean"
    /\ hxDisk' = Seen /\ hxPending' = <<>>
    /\ LET rooted == [hxMem EXCEPT !.seq = @ + 1, !.cp = hxTxn.cp, !.trees = hxTxn.trees,
                                   !.next = hxTxn.end, !.dirty = FALSE]
       IN hxMem' = FreeRetired(PromotePending(rooted), hxTxn.retired.first, hxTxn.retired.end)
    /\ hxTxn' = NoTxn /\ hxGood' = {hxShadow}
    /\ UNCHANGED <<hxPhase, hxShadow, hxIntact, hxCount>>

\* A write or flush fails: publish_checkpoint returns the error and the writer
\* stays on its old root.
PublishFails ==
    /\ hxTxn # NoTxn /\ hxTxn.stage \in FailingStages
    /\ hxTxn' = NoTxn
    /\ UNCHANGED <<hxDisk, hxPending, hxPhase, hxMem, hxShadow, hxGood, hxIntact, hxCount>>

HxNext ==
    \/ Mount
    \/ ReplayJournal
    \/ ReplayFlush
    \/ PowerFails
    \/ \E f \in ToSet(HxFiles) : CreateFile(f)
    \/ \E f \in ToSet(HxFiles), rewrite \in BOOLEAN : WriteFile(f, rewrite)
    \/ \E f \in ToSet(HxFiles), n \in 0 .. 1 : TruncateFile(f, n)
    \/ \E f \in ToSet(HxFiles) : UnlinkFile(f)
    \/ \E f \in ToSet(HxFiles), i \in 1 .. 2 : ReadFile(f, i)
    \/ BeginPublish
    \/ PublishFlush("written", "journaled")
    \/ WriteRecovering
    \/ PublishFlush("recovering", "recoverable")
    \/ WriteClean
    \/ FinishPublish
    \/ PublishFails

-----------------------------------------------------------------------------
(* Properties *)

\* Whatever the power failures and device errors, the volume mounts again with
\* exactly the files of the last checkpoint, or of the one being published, and
\* while it is mounted every block reads as it was last written (publish_checkpoint,
\* replay_journal, read_extent_block).
VolumeRecovers ==
    /\ hxPhase # "lost" /\ hxIntact
    /\ hxPhase = "mounted" =>
           \A f \in DOMAIN hxMem.extents :
               hxShadow[f] = [i \in DOMAIN hxMem.extents[f] |-> ReadBlock(hxMem, hxMem.extents[f][i].start)]

\* Of a mounted volume, no block is at once live data, reusable, waiting to be
\* reusable, the current metadata or the target of a checkpoint, and none but the last of them lies at or past next_lba,
\* where new writes go (reserve_data_blocks, free_extent_range, publish_checkpoint).
BlocksClaimedOnce ==
    hxPhase = "mounted" =>
        LET data == UNION {Blocks(e) : e \in LiveExtents(hxMem)}
            meta == ({hxMem.cp} \cup {hxMem.trees[o] : o \in DOMAIN hxMem.trees}) \ {0}
            free == Span(hxMem.free)
            pend == Span(hxMem.pend)
            target == IF hxTxn = NoTxn THEN {} ELSE hxTxn.start .. hxTxn.end - 1
        IN /\ data \cap (meta \cup free \cup pend) = {}
           /\ meta \cap (free \cup pend) = {}
           /\ free \cap pend = {}
           /\ target \cap (data \cup meta \cup free \cup pend) = {}
           /\ \A b \in data \cup meta \cup free \cup pend : b < hxMem.next
=============================================================================
