------------------------------ MODULE MemAlloc ------------------------------
(***************************************************************************)
(* The three memory allocators: the physical frame bitmap (huesos-pmm),    *)
(* the kernel heap of buddy blocks and slabs (huesos-alloc, used through   *)
(* kernel/mem/alloc.rs), and the hardened user heap (huesos-scudo, used by *)
(* libcanvas heap.rs).  Each runs under one lock, or in one thread, so an  *)
(* operation is one step.  Memory is counted in pages; a user-heap chunk   *)
(* is named by its block offset and sizes are in units of one block.       *)
(***************************************************************************)
EXTENDS Integers, Sequences, FiniteSets, FiniteSetsExt, SequencesExt

CONSTANTS Frames,        \* number of frames of the machine
          UsableFrames,  \* frames of usable regions
          BitmapFrames,  \* frames holding the bitmap
          HeapPages, Orders,   \* BuddyAllocator: total_pages, ORDER
          SlotsPerPage, MaxSlabs,
          RegionChunks, RefillBatch,   \* Primary: chunks per region, batch_count
          QuarantineCap,               \* Quarantine::CAPACITY
          SecondaryPages, CacheEntries, BigSizes

VARIABLES used, cursor, freeCount, frameBlocks,   \* huesos-pmm; blocks handed out
          buddyFree, heapBlocks, slabs, slotBlocks,  \* huesos-alloc
          carved, primaryFree, quarantine, bump, cache, chunks  \* huesos-scudo

maPmm == <<used, cursor, freeCount, frameBlocks>>
maHeap == <<buddyFree, heapBlocks, slabs, slotBlocks>>
maScudo == <<carved, primaryFree, quarantine, bump, cache, chunks>>
maVars == <<maPmm, maHeap, maScudo>>

FrameIds == 0 .. Frames - 1
FrameBlock(f, n) == f .. f + n - 1
NoSlab == [page |-> -1, free |-> <<>>]
Pow2(o) == <<1, 2, 4, 8, 16>>[o + 1]

-----------------------------------------------------------------------------
(* Buddy free lists are LIFO sequences, one per order. *)

BlockPages(p, o) == p .. p + Pow2(o) - 1

\* BuddyAllocator::new: the largest aligned block that still fits, again and again.
RECURSIVE Carve(_, _)
Carve(p, lists) ==
    IF p = HeapPages THEN lists
    ELSE LET o == Max({k \in 0 .. Orders - 1 : p + Pow2(k) <= HeapPages /\ p % Pow2(k) = 0})
         IN Carve(p + Pow2(o), [lists EXCEPT ![o] = <<p>> \o @])

\* The split of a block of order i down to order o keeps the upper half.
RECURSIVE SplitTo(_, _, _, _)
SplitTo(lists, p, i, o) ==
    IF i = o THEN [lists |-> lists, page |-> p]
    ELSE SplitTo([lists EXCEPT ![i - 1] = <<p>> \o @], p + Pow2(i - 1), i - 1, o)

\* Mutant: the merged block is taken to start at the freed half.
CoalesceAtSelf(lists, p, o) ==
    LET size == Pow2(o)
        buddy == IF (p \div size) % 2 = 0 THEN p + size ELSE p - size
    IN IF o < Orders - 1 /\ buddy \in Range(lists[o])
       THEN [lists EXCEPT ![o] = Remove(@, buddy), ![o + 1] = <<p>> \o @]
       ELSE [lists EXCEPT ![o] = <<p>> \o @]

\* deallocate's loop: merge with a free buddy (the lower half names the block).
RECURSIVE Coalesce(_, _, _)
Coalesce(lists, p, o) ==
    LET size == Pow2(o)
        buddy == IF (p \div size) % 2 = 0 THEN p + size ELSE p - size
    IN IF o < Orders - 1 /\ buddy \in Range(lists[o])
       THEN Coalesce([lists EXCEPT ![o] = Remove(@, buddy)], Min({p, buddy}), o + 1)
       ELSE [lists EXCEPT ![o] = <<p>> \o @]

MemInit ==
    /\ used = FrameIds \ (UsableFrames \ BitmapFrames)
    /\ cursor = 0
    /\ freeCount = Cardinality(UsableFrames \ BitmapFrames)
    /\ frameBlocks = {}
    /\ buddyFree = Carve(0, [o \in 0 .. Orders - 1 |-> <<>>])
    /\ heapBlocks = {} /\ slabs = [k \in 1 .. MaxSlabs |-> NoSlab] /\ slotBlocks = {}
    /\ carved = 0 /\ primaryFree = <<>> /\ quarantine = <<>>
    /\ bump = 0 /\ cache = {} /\ chunks = {}

-----------------------------------------------------------------------------
(* huesos-pmm *)

\* alloc_frame: the first free frame at or after the cursor, round the end.
AllocFrame ==
    /\ used # FrameIds
    /\ LET d == Min({k \in FrameIds : (cursor + k) % Frames \notin used})
           f == (cursor + d) % Frames
       IN /\ used' = used \cup {f}
          /\ cursor' = (f + 1) % Frames
          /\ frameBlocks' = frameBlocks \cup {FrameBlock(f, 1)}
    /\ freeCount' = freeCount - 1
    /\ UNCHANGED <<maHeap, maScudo>>

\* alloc_contiguous_aligned: the lowest aligned free run below the limit.
AllocContiguous(n, align, limit) ==
    LET fits == {f \in FrameIds : /\ f % align = 0 /\ f + n <= Min({limit, Frames})
                                  /\ FrameBlock(f, n) \cap used = {}}
    IN /\ fits # {}
       /\ used' = used \cup FrameBlock(Min(fits), n)
       /\ cursor' = (Min(fits) + n) % Frames
       /\ frameBlocks' = frameBlocks \cup {FrameBlock(Min(fits), n)}
       /\ freeCount' = freeCount - n
       /\ UNCHANGED <<maHeap, maScudo>>

\* free_frame of every frame of a block; an already free frame is left alone.
FreeFrames(b) ==
    /\ b \in frameBlocks
    /\ freeCount' = freeCount + Cardinality(b \cap used)
    /\ used' = used \ b
    /\ frameBlocks' = frameBlocks \ {b}
    /\ UNCHANGED <<cursor, maHeap, maScudo>>

\* reserve_range, for memory the firmware handed over late.
ReserveFrame(f) ==
    /\ f \notin used
    /\ used' = used \cup {f}
    /\ freeCount' = freeCount - 1
    /\ frameBlocks' = frameBlocks \cup {FrameBlock(f, 1)}
    /\ UNCHANGED <<cursor, maHeap, maScudo>>

-----------------------------------------------------------------------------
(* huesos-alloc *)

\* The smallest order with a free block, from the requested one up.
SourceOrder(o) == {i \in o .. Orders - 1 : buddyFree[i] # <<>>}
TakeBlock(o) ==
    LET i == Min(SourceOrder(o))
        p == Head(buddyFree[i])
    IN SplitTo([buddyFree EXCEPT ![i] = Tail(@)], p, i, o)

\* kmalloc above 2048 bytes.
AllocPages(o) ==
    /\ SourceOrder(o) # {}
    /\ buddyFree' = TakeBlock(o).lists
    /\ heapBlocks' = heapBlocks \cup {[page |-> TakeBlock(o).page, order |-> o]}
    /\ UNCHANGED <<slabs, slotBlocks, maPmm, maScudo>>

FreePages(b) ==
    /\ b \in heapBlocks
    /\ buddyFree' = Coalesce(buddyFree, b.page, b.order)
    /\ heapBlocks' = heapBlocks \ {b}
    /\ UNCHANGED <<slabs, slotBlocks, maPmm, maScudo>>

\* SlabCache::allocate: the first slab with a free slot, else a page from the
\* buddy allocator, all of whose slots are pushed in order (the last is on top).
AllocSlot ==
    LET open == {k \in DOMAIN slabs : slabs[k].free # <<>>}
        empty == {k \in DOMAIN slabs : slabs[k] = NoSlab}
    IN
    /\ IF open # {}
       THEN LET k == Min(open) IN
            /\ slotBlocks' = slotBlocks \cup {<<slabs[k].page, Head(slabs[k].free)>>}
            /\ slabs' = [slabs EXCEPT ![k].free = Tail(@)]
            /\ UNCHANGED buddyFree
       ELSE /\ empty # {} /\ SourceOrder(0) # {}
            /\ buddyFree' = TakeBlock(0).lists
            /\ slotBlocks' = slotBlocks \cup {<<TakeBlock(0).page, SlotsPerPage>>}
            /\ slabs' = [slabs EXCEPT ![Min(empty)] =
                            [page |-> TakeBlock(0).page,
                             free |-> Reverse([s \in 1 .. SlotsPerPage - 1 |-> s])]]
    /\ UNCHANGED <<heapBlocks, maPmm, maScudo>>

\* SlabCache::deallocate: the last slot of a page gives the page back.
FreeSlot(s) ==
    /\ s \in slotBlocks
    /\ slotBlocks' = slotBlocks \ {s}
    /\ LET k == CHOOSE i \in DOMAIN slabs : slabs[i].page = s[1] IN
       IF Len(slabs[k].free) = SlotsPerPage - 1
       THEN slabs' = [slabs EXCEPT ![k] = NoSlab] /\ buddyFree' = Coalesce(buddyFree, s[1], 0)
       ELSE slabs' = [slabs EXCEPT ![k].free = <<s[2]>> \o @] /\ UNCHANGED buddyFree
    /\ UNCHANGED <<heapBlocks, maPmm, maScudo>>

-----------------------------------------------------------------------------
(* huesos-scudo: one size class of the primary allocator, and the secondary.   *)
(* A chunk is [from, at, size]; `chunks` are those the application holds.      *)

SmallChunk(i) == [from |-> "primary", at |-> i, size |-> 1]
BigChunk(at, n) == [from |-> "secondary", at |-> at, size |-> n]

\* recycle: an evicted chunk goes back to its allocator.  The secondary caches
\* it when an entry is free and forgets its address range otherwise.
Recycled(s, c) ==
    IF c.from = "primary" THEN [s EXCEPT !.free = <<c.at>> \o @]
    ELSE IF Cardinality(s.cache) < CacheEntries THEN [s EXCEPT !.cache = @ \cup {c}]
    ELSE s

Heap == [free |-> primaryFree, cache |-> cache]
SetHeap(s) == primaryFree' = s.free /\ cache' = s.cache

\* Primary::refill carves the next batch of the region; its first chunk is on top.
Refilled ==
    LET n == Min({RefillBatch, RegionChunks - carved})
    IN [i \in 1 .. n |-> carved + i]

\* When nothing fits, allocate flushes the quarantine and tries again.
FlushedIf(outOfMemory) ==
    IF outOfMemory THEN FoldLeft(Recycled, Heap, quarantine) ELSE Heap

\* allocate of a small size: the free list, else a refill.
AllocSmall ==
    LET flush == primaryFree = <<>> /\ carved = RegionChunks
        h == FlushedIf(flush)
        list == IF h.free # <<>> THEN h.free ELSE Refilled
    IN /\ quarantine' = IF flush THEN <<>> ELSE quarantine
       /\ cache' = h.cache
       /\ IF list = <<>> THEN primaryFree' = <<>> /\ UNCHANGED <<chunks, carved>>
          ELSE /\ chunks' = chunks \cup {SmallChunk(Head(list))}
               /\ primaryFree' = Tail(list)
               /\ carved' = IF h.free # <<>> THEN carved ELSE carved + Len(Refilled)
       /\ UNCHANGED <<bump, maPmm, maHeap>>

\* Secondary::allocate: a cached range of the same size, else bump past a guard
\* page on each side.
AllocBig(n) ==
    LET fits == bump + n + 2 <= SecondaryPages
        Hits(s) == {c \in s.cache : c.size = n}
        flush == Hits(Heap) = {} /\ ~fits
        h == FlushedIf(flush)
    IN /\ quarantine' = IF flush THEN <<>> ELSE quarantine
       /\ primaryFree' = h.free
       /\ IF Hits(h) # {}
          THEN /\ \E c \in Hits(h) : cache' = h.cache \ {c} /\ chunks' = chunks \cup {c}
               /\ UNCHANGED bump
          ELSE /\ cache' = h.cache
               /\ chunks' = IF fits THEN chunks \cup {BigChunk(bump + 1, n)} ELSE chunks
               /\ bump' = IF fits THEN bump + n + 2 ELSE bump
       /\ UNCHANGED <<carved, maPmm, maHeap>>

\* deallocate: the chunk waits in quarantine; the oldest makes room when it is full.
FreeChunk(c) ==
    /\ c \in chunks
    /\ chunks' = chunks \ {c}
    /\ IF Len(quarantine) = QuarantineCap
       THEN /\ quarantine' = Append(Tail(quarantine), c)
            /\ SetHeap(Recycled(Heap, Head(quarantine)))
       ELSE /\ quarantine' = Append(quarantine, c)
            /\ UNCHANGED <<primaryFree, cache>>
    /\ UNCHANGED <<carved, bump, maPmm, maHeap>>

-----------------------------------------------------------------------------
PmmNext ==
    \/ AllocFrame
    \/ \E n \in 1 .. 2, a \in 1 .. 2, l \in {Frames - 1, Frames} : AllocContiguous(n, a, l)
    \/ \E b \in frameBlocks : FreeFrames(b)
    \/ \E f \in UsableFrames : ReserveFrame(f)

HeapNext ==
    \/ \E o \in 0 .. Orders - 1 : AllocPages(o)
    \/ \E b \in heapBlocks : FreePages(b)
    \/ AllocSlot
    \/ \E s \in slotBlocks : FreeSlot(s)

ScudoNext ==
    \/ AllocSmall
    \/ \E n \in BigSizes : AllocBig(n)
    \/ \E c \in chunks : FreeChunk(c)

-----------------------------------------------------------------------------
Disjoint(blocks) == \A a, b \in blocks : a # b => a \cap b = {}

FreeHeapBlocks == UNION {{BlockPages(p, o) : p \in Range(buddyFree[o])} : o \in 0 .. Orders - 1}
LiveHeapBlocks == {BlockPages(b.page, b.order) : b \in heapBlocks} \cup 
                  {{slabs[k].page} : k \in {i \in DOMAIN slabs : slabs[i] # NoSlab}}
IdleChunks == Range(quarantine) \cup cache \cup {SmallChunk(i) : i \in Range(primaryFree)}

\* No allocator ever has a piece of memory in two places: blocks handed out are
\* disjoint from each other and from everything that can still be handed out,
\* nothing disappears on the way (buddy blocks, slab slots, carved chunks),
\* the free-frame counter is exact, and no two free buddies are left unmerged.
MemoryAccountedOnce ==
    /\ Disjoint(frameBlocks)
    /\ freeCount = Cardinality(FrameIds \ used)
    /\ UNION frameBlocks = used \cap (UsableFrames \ BitmapFrames)
    /\ Disjoint(FreeHeapBlocks \cup LiveHeapBlocks)
    /\ FreeHeapBlocks \cap LiveHeapBlocks = {}
    /\ UNION (FreeHeapBlocks \cup LiveHeapBlocks) = 0 .. HeapPages - 1
    /\ \A o \in 0 .. Orders - 2 : \A p, q \in Range(buddyFree[o]) :
           p < q => p \div Pow2(o + 1) # q \div Pow2(o + 1)
    /\ \A k \in DOMAIN slabs : slabs[k] # NoSlab => \A s \in 1 .. SlotsPerPage :
           (<<slabs[k].page, s>> \in slotBlocks) # (s \in Range(slabs[k].free))
    /\ chunks \cap IdleChunks = {}
    /\ \A a, b \in chunks \cup IdleChunks :
           a # b /\ a.from = b.from => (a.at .. a.at + a.size - 1) \cap (b.at .. b.at + b.size - 1) = {}
    /\ {c.at : c \in {d \in chunks \cup IdleChunks : d.from = "primary"}} = 1 .. carved
    /\ Cardinality({SmallChunk(i) : i \in Range(primaryFree)}) = Len(primaryFree)
=============================================================================
