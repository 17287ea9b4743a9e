--------------------------------- MODULE Vmar ---------------------------------
(***************************************************************************)
(* Virtual memory address regions of one process: the mapping records and  *)
(* child reservations of a VMAR (huesos-object/src/vmar.rs), the page      *)
(* tables they stand for, and the kernel references that keep the backing  *)
(* VMOs alive (huesos-kernel/src/process.rs).                              *)
(*                                                                         *)
(* Addresses, sizes and VMO offsets are counted in pages.  A section under *)
(* one lock is one step.  Mapping, unmapping and protecting hold the lock  *)
(* of the address space while they change page tables, so the pages of one *)
(* vmarCall change in one step; running out of page-table frames may make any  *)
(* installation fail.                                                      *)
(***************************************************************************)
EXTENDS Integers, FiniteSets

CONSTANTS VmarThreads,       \* callers; a process has one once it runs, its launcher another
          NumPages,      \* pages of the root VMAR
          MapVmos, VmoSize, \* VMOs and their size in pages
          Kids,          \* child VMARs
          Prots,         \* page protections
          MaxRecords,    \* bound: mapping records
          MayClose,      \* may handles of child VMARs be closed
          RootVmar, NoVmar

ASSUME VmarAssumption ==
    /\ NumPages \in Nat /\ VmoSize \in Nat /\ MaxRecords \in Nat
    /\ MayClose \in BOOLEAN
    /\ RootVmar \notin Kids /\ NoVmar \notin VmarThreads /\ NoVmar \notin Prots
    /\ NoVmar \notin MapVmos \X (0 .. VmoSize - 1) \X Prots

VARIABLES
    maps,       \* per VMAR: mapping records
    children,   \* reservations of child VMARs in the root
    kidState,      \* per child VMAR: life of the object
    orphans,    \* history: pages that a dropped child VMAR left mapped
    pte,        \* per page: what the page tables map there
    handles,    \* VMOs that have a handle
    refs,       \* per VMO: kernel references
    asLock,     \* process.address_space: who holds it across steps
    mutLock,    \* VMAR_MUTATION_LOCK
    vmarPc, vmarCall  \* per thread: program point and arguments

vmas == <<maps, children, kidState, orphans>>
vmos == <<handles, refs>>
vmarVars == <<vmas, pte, vmos, asLock, mutLock, vmarPc, vmarCall>>

Pages == 0 .. NumPages - 1
Vmars == {RootVmar} \cup Kids
Mapping == [base : Pages, size : 1 .. NumPages, vmo : MapVmos, off : 0 .. VmoSize - 1, prot : Prots]
Child == [koid : Kids, base : Pages, size : 1 .. NumPages]

RangeOf(r) == r.base .. (r.base + r.size - 1)
Overlap(r, s) == RangeOf(r) \cap RangeOf(s) # {}
Records == UNION {maps[v] : v \in Vmars}

VmarTypeOK ==
    /\ maps \in [Vmars -> SUBSET Mapping]
    /\ children \subseteq Child
    /\ kidState \in [Kids -> {"none", "making", "live", "closing", "dead"}]
    /\ orphans \subseteq Pages
    /\ pte \in [Pages -> (MapVmos \X (0 .. VmoSize - 1) \X Prots) \cup {NoVmar}]
    /\ handles \subseteq MapVmos /\ refs \in [MapVmos -> Nat]
    /\ asLock \in VmarThreads \cup {NoVmar} /\ mutLock \in VmarThreads \cup {NoVmar}
    /\ vmarPc \in [VmarThreads -> {"idle", "record", "install", "apply", "child"}]

VmarInit ==
    /\ maps = [v \in Vmars |-> {}] /\ children = {}
    /\ kidState = [k \in Kids |-> "none"] /\ orphans = {}
    /\ pte = [p \in Pages |-> NoVmar]
    /\ handles = MapVmos /\ refs = [v \in MapVmos |-> 0]
    /\ asLock = NoVmar /\ mutLock = NoVmar
    /\ vmarPc = [t \in VmarThreads |-> "idle"] /\ vmarCall = [t \in VmarThreads |-> NoVmar]

-----------------------------------------------------------------------------
(* Helpers *)

VmoAlive(v) == v \in handles \/ refs[v] > 0
Usable(v) == v \in Kids => kidState[v] = "live"
\* The VMAR's own range; a child keeps the one it was made with.
Extent(v) == IF v = RootVmar THEN Pages ELSE UNION {RangeOf(c) : c \in {d \in children : d.koid = v}}
ContainsRange(v, r) == RangeOf(r) \subseteq Extent(v)
Reserved(v) == IF v = RootVmar THEN children ELSE {}

Return(t) == vmarPc' = [vmarPc EXCEPT ![t] = "idle"] /\ vmarCall' = [vmarCall EXCEPT ![t] = NoVmar]

\* What the page tables hold for page p of mapping m.
EntryAt(m, p) == <<m.vmo, m.off + (p - m.base), m.prot>>

-----------------------------------------------------------------------------
(* map_vmo_into_vmar *)

\* Arguments are validated and the VMO is referenced, under the address space lock.
MapBegin(t) ==
    /\ vmarPc[t] = "idle" /\ asLock = NoVmar
    /\ Cardinality(Records) < MaxRecords
    /\ \E v \in Vmars, m \in Mapping :
         /\ Usable(v) /\ ContainsRange(v, m)
         /\ m.off + m.size <= VmoSize
         /\ m.vmo \in handles
         /\ refs' = [refs EXCEPT ![m.vmo] = @ + 1]
         /\ vmarCall' = [vmarCall EXCEPT ![t] = [vmar |-> v, map |-> m]]
    /\ asLock' = t
    /\ vmarPc' = [vmarPc EXCEPT ![t] = "record"]
    /\ UNCHANGED <<vmas, pte, handles, mutLock>>

\* record_mapping, under the VMAR's two locks.
MapRecord(t) ==
    LET v == vmarCall[t].vmar
        m == vmarCall[t].map
    IN  /\ vmarPc[t] = "record"
        /\ IF \E r \in maps[v] \cup Reserved(v) : Overlap(m, r)
           THEN /\ refs' = [refs EXCEPT ![m.vmo] = @ - 1]
                /\ asLock' = NoVmar
                /\ Return(t)
                /\ UNCHANGED maps
           ELSE /\ maps' = [maps EXCEPT ![v] = @ \cup {m}]
                /\ vmarPc' = [vmarPc EXCEPT ![t] = "install"]
                /\ UNCHANGED <<refs, asLock, vmarCall>>
        /\ UNCHANGED <<children, kidState, orphans, pte, handles, mutLock>>

\* The pages are installed, or the record and the reference are taken back.
InstallHalf(t) ==
    LET m == vmarCall[t].map
    IN  /\ vmarPc[t] = "install"
        /\ pte' = [pte EXCEPT ![m.base] = IF @ = NoVmar THEN EntryAt(m, m.base) ELSE @]
        /\ maps' = [maps EXCEPT ![vmarCall[t].vmar] = @ \ {m}]
        /\ refs' = [refs EXCEPT ![m.vmo] = @ - 1]
        /\ asLock' = NoVmar
        /\ Return(t)
        /\ UNCHANGED <<children, kidState, orphans, handles, mutLock>>
MapInstall(t) ==
    LET v == vmarCall[t].vmar
        m == vmarCall[t].map
    IN  /\ vmarPc[t] = "install"
        /\ \/ /\ \A p \in RangeOf(m) : pte[p] = NoVmar
              /\ pte' = [p \in Pages |-> IF p \in RangeOf(m) THEN EntryAt(m, p) ELSE pte[p]]
              /\ UNCHANGED <<maps, refs>>
           \/ /\ maps' = [maps EXCEPT ![v] = @ \ {m}]
              /\ refs' = [refs EXCEPT ![m.vmo] = @ - 1]
              /\ UNCHANGED pte
        /\ asLock' = NoVmar
        /\ Return(t)
        /\ UNCHANGED <<children, kidState, orphans, handles, mutLock>>

-----------------------------------------------------------------------------
(* unmap_vmar_mapping and protect_vmar_mapping *)

SplitForUnmap(m, a, b) ==
    LET end == m.base + m.size
    IN  (IF a > m.base THEN {[m EXCEPT !.size = a - m.base]} ELSE {})
          \cup (IF b < end
                THEN {[m EXCEPT !.base = b, !.size = end - b, !.off = @ + (b - m.base)]}
                ELSE {})
SplitForProtect(m, a, b, prot) ==
    SplitForUnmap(m, a, b)
      \cup {[m EXCEPT !.base = a, !.size = b - a, !.off = @ + (a - m.base), !.prot = prot]}

\* The record that covers the range is found before the address space is locked.
OpBegin(t) ==
    /\ vmarPc[t] = "idle" /\ mutLock = NoVmar
    /\ \E v \in Vmars, m \in Mapping, a \in Pages, b \in 1 .. NumPages, prot \in Prots \cup {NoVmar} :
         /\ Usable(v) /\ m \in maps[v]
         /\ m.base <= a /\ a < b /\ b <= m.base + m.size
         /\ VmoAlive(m.vmo)
         /\ vmarCall' = [vmarCall EXCEPT ![t] = [vmar |-> v, map |-> m, from |-> a, to |-> b, prot |-> prot]]
    /\ mutLock' = t
    /\ vmarPc' = [vmarPc EXCEPT ![t] = "apply"]
    /\ UNCHANGED <<vmas, pte, vmos, asLock>>

AdjustRefs(v, n) == [refs EXCEPT ![v] = @ + n - 1]

\* The pages are changed and the record is replaced, or nothing is: a page that is not
\* mapped, a record that is gone and a remnant that meets a child undo the call.
OpApply(t) ==
    LET v == vmarCall[t].vmar
        m == vmarCall[t].map
        range == vmarCall[t].from .. (vmarCall[t].to - 1)
        new == IF vmarCall[t].prot = NoVmar
               THEN SplitForUnmap(m, vmarCall[t].from, vmarCall[t].to)
               ELSE SplitForProtect(m, vmarCall[t].from, vmarCall[t].to, vmarCall[t].prot)
        done == /\ \A p \in range : pte[p] # NoVmar
                /\ m \in maps[v]
                /\ \A r \in new, c \in Reserved(v) : ~Overlap(r, c)
    IN  /\ vmarPc[t] = "apply" /\ asLock = NoVmar
        /\ IF done
           THEN /\ pte' = [p \in Pages |->
                             IF p \notin range THEN pte[p]
                             ELSE IF vmarCall[t].prot = NoVmar THEN NoVmar
                             ELSE <<pte[p][1], pte[p][2], vmarCall[t].prot>>]
                /\ maps' = [maps EXCEPT ![v] = (@ \ {m}) \cup new]
                /\ refs' = AdjustRefs(m.vmo, Cardinality(new))
           ELSE UNCHANGED <<pte, maps, refs>>
        /\ mutLock' = NoVmar
        /\ Return(t)
        /\ UNCHANGED <<children, kidState, orphans, handles, asLock>>

-----------------------------------------------------------------------------
(* sys_vmar_create_child and the end of a child VMAR *)

\* record_child checks the mappings under their lock, and drops it.
ChildCheck(t) ==
    /\ vmarPc[t] = "idle"
    /\ \E c \in Child :
         /\ kidState[c.koid] = "none"
         /\ ContainsRange(RootVmar, c)
         /\ \A m \in maps[RootVmar] : ~Overlap(c, m)
         /\ vmarCall' = [vmarCall EXCEPT ![t] = c]
         /\ kidState' = [kidState EXCEPT ![c.koid] = "making"]
    /\ vmarPc' = [vmarPc EXCEPT ![t] = "child"]
    /\ UNCHANGED <<maps, children, orphans, pte, vmos, asLock, mutLock>>

\* It then checks the children under theirs.
ChildReserve(t) ==
    LET c == vmarCall[t]
    IN  /\ vmarPc[t] = "child"
        /\ IF \E d \in children : Overlap(c, d)
           THEN kidState' = [kidState EXCEPT ![c.koid] = "dead"] /\ UNCHANGED children
           ELSE children' = children \cup {c} /\ kidState' = [kidState EXCEPT ![c.koid] = "live"]
        /\ Return(t)
        /\ UNCHANGED <<maps, orphans, pte, vmos, asLock, mutLock>>

CloseChild(k) ==
    /\ MayClose /\ kidState[k] = "live"
    /\ kidState' = [kidState EXCEPT ![k] = "closing"]
    /\ UNCHANGED <<maps, children, orphans, pte, vmos, asLock, mutLock, vmarPc, vmarCall>>

\* Drop for Vmar, when the last caller that uses it has returned: every record gives
\* back its reference and the parent forgets the reservation.
DropChild(k) ==
    /\ kidState[k] = "closing"
    /\ \A t \in VmarThreads : vmarPc[t] \in {"record", "install", "apply"} => vmarCall[t].vmar # k
    /\ kidState' = [kidState EXCEPT ![k] = "dead"]
    /\ maps' = [maps EXCEPT ![k] = {}]
    /\ orphans' = orphans \cup UNION {RangeOf(m) : m \in maps[k]}
    /\ children' = {c \in children : c.koid # k}
    /\ refs' = [v \in MapVmos |-> refs[v] - Cardinality({m \in maps[k] : m.vmo = v})]
    /\ UNCHANGED <<pte, handles, asLock, mutLock, vmarPc, vmarCall>>

\* The last handle of a VMO is closed.
CloseVmo(v) ==
    /\ v \in handles
    /\ handles' = handles \ {v}
    /\ UNCHANGED <<vmas, pte, refs, asLock, mutLock, vmarPc, vmarCall>>

VmarNext ==
    \/ \E t \in VmarThreads : \/ MapBegin(t) \/ MapRecord(t) \/ MapInstall(t)
                          \/ OpBegin(t) \/ OpApply(t)
                          \/ ChildCheck(t) \/ ChildReserve(t)
    \/ \E k \in Kids : CloseChild(k) \/ DropChild(k)
    \/ \E v \in MapVmos : CloseVmo(v)

VmarSpec == VmarInit /\ [][VmarNext]_vmarVars

-----------------------------------------------------------------------------
(* Properties *)

\* Records that are not being installed describe the page tables: splitting a record
\* keeps the VMO page and the protection of every page (process.rs:697-757).
RecordsDescribePages ==
    \A m \in Records :
        (\A t \in VmarThreads : vmarPc[t] = "install" => vmarCall[t].map # m)
           => \A p \in RangeOf(m) : pte[p] = EntryAt(m, p)

\* No page is mapped that no record describes, but for those a dropped child VMAR
\* left behind: every failure path of map_vmo_into_vmar takes its pages back.
EveryPageRecorded ==
    \A p \in Pages \ orphans : pte[p] # NoVmar => \E m \in Records : p \in RangeOf(m)

\* The frames of a mapped page belong to a VMO that is alive: closing its handles does
\* not free them while a record of the mapping exists.
MappedFramesAlive ==
    \A p \in Pages \ orphans : pte[p] # NoVmar => VmoAlive(pte[p][1])

\* The records of the VMARs, the page tables and the VMOs agree, whatever calls
\* overlap and wherever one of them fails (map_vmo_into_vmar, vmar_unmap,
\* vmar_protect, the drop of a child VMAR).
AddressSpaceSound == RecordsDescribePages /\ EveryPageRecorded /\ MappedFramesAlive
=============================================================================
