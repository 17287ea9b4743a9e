-------------------------------- MODULE Pci ---------------------------------
(***************************************************************************)
(* From what firmware and the bus scan report to addresses for every PCI   *)
(* register: the topology snapshot (huesos-pci/src/topology.rs), the       *)
(* validation of the firmware's assignments (resource_validation.rs) and   *)
(* the plan that keeps the valid ones and fills the gaps                   *)
(* (resource_planner.rs).                                                  *)
(*                                                                         *)
(* An address is <<segment, bus, device>> (functions are devices here); a  *)
(* function's `bridge` is <<>> or <<secondary, subordinate>>; a register   *)
(* is <<"bar", n>> or <<"window", n>>.  Memory is counted in units.        *)
(***************************************************************************)
EXTENDS Checks, Integers, FiniteSets

CONSTANTS PciScans,        \* [roots, functions] the firmware and the scan report
          PciApertures,    \* sequences of root apertures
          PciResources(_), \* sets of registers, for the functions of a snapshot
          PciTop,          \* 2^64: an address stays below it
          FourGiB,         \* where 32-bit memory ends
          GranularityOf,   \* class -> granularity of a bridge window
          MaxPciDepth      \* MAX_TOPOLOGY_DEPTH

VARIABLE pci
pciVars == <<pci>>

\* Nothing scanned yet.
NoPci == [phase |-> "scan", error |-> "ok", roots |-> <<>>, nodes |-> <<>>,
          apertures |-> <<>>, report |-> <<>>, plan |-> <<>>]

AddressKey(a) == (a[1] * 16 + a[2]) * 16 + a[3]
RegisterKey(r) == (IF r[1] = "bar" THEN 0 ELSE 8) + r[2]
RootKey(r) == ((r.segment * 16 + r.start) * 16 + r.end) * 16 + r.id
ResourceKey(r) == AddressKey(r.owner) * 16 + RegisterKey(r.register)

Overlap(base, len, b, l) == base < b + l /\ b < base + len
Within(base, len, b, l) == b >= base /\ b + l <= base + len

-----------------------------------------------------------------------------
(* The topology snapshot *)

\* validate_roots
RootsFault(roots) ==
    FirstFault([i \in 1..Len(roots) |-> LET r == roots[i] IN
        FirstFault(<<Fault(r.id = 0, "InvalidRootId"), Fault(r.start > r.end, "InvalidRootRange")>>
                   \o [j \in 1..(i - 1) |-> LET p == roots[j] IN
                         FirstFault(<<Fault(p.id = r.id, "InvalidRootId"),
                                      Fault(/\ p.segment = r.segment
                                            /\ p.start <= r.end /\ r.start <= p.end, "RootOverlap")>>)])])

\* root_for: the roots whose bus range routes the address.
RootFor(roots, a) ==
    SelectSeq(roots, LAMBDA r : r.segment = a[1] /\ a[2] >= r.start /\ a[2] <= r.end)

\* validate_functions
FunctionsFault(roots, fns) ==
    FirstFault([i \in 1..Len(fns) |-> LET f == fns[i]
                                          found == RootFor(roots, f.address) IN
        FirstFault(<<Fault(~f.present, "AbsentFunction"),
                     Fault(i > 1 /\ fns[i - 1].address = f.address, "DuplicateAddress"),
                     Fault(found = <<>>, "MissingRoot"),
                     Fault(/\ found # <<>> /\ f.bridge # <<>>
                           /\ \/ f.bridge[1] <= f.address[2]
                              \/ f.bridge[1] > f.bridge[2]
                              \/ f.bridge[1] < found[1].start
                              \/ f.bridge[2] > found[1].end, "InvalidBridgeRange")>>)])

\* validate_bridge_intervals: bus ranges of one segment nest or are apart.
BridgesFault(fns) ==
    FirstFault(FlattenSeq([i \in 1..Len(fns) |-> [k \in 1..(Len(fns) - i) |->
        LET f == fns[i]
            g == fns[i + k]
        IN IF f.bridge = <<>> \/ g.bridge = <<>> \/ f.address[1] # g.address[1] THEN "ok"
           ELSE LET a == f.bridge
                    b == g.bridge
                IN FirstFault(<<Fault(/\ a[1] <= b[2] /\ b[1] <= a[2]
                                      /\ ~(a[1] <= b[1] /\ a[2] >= b[2])
                                      /\ ~(b[1] <= a[1] /\ b[2] >= a[2]), "CrossingBridgeRanges"),
                                Fault(a = b, "AmbiguousParent")>>)]]))

\* resolve_parent: the root on its own bus, else the deepest bridge that
\* routes the bus (equal ranges were refused above), else nothing.
ParentOf(root, a, fns) ==
    LET routing == {f \in Range(fns) : /\ f.bridge # <<>>
                                       /\ f.address[1] = a[1] /\ f.address[2] < a[2]
                                       /\ a[2] >= f.bridge[1] /\ a[2] <= f.bridge[2]}
        deepest == CHOOSE f \in routing : \A g \in routing :
                      \/ g.bridge[1] < f.bridge[1]
                      \/ g.bridge[1] = f.bridge[1] /\ g.bridge[2] >= f.bridge[2]
    IN IF a[2] = root.start THEN <<"root", root.id>>
       ELSE IF routing = {} THEN <<"missing">> ELSE <<"bridge", deepest.address>>

NodeAt(nodes, a) == SelectSeq(nodes, LAMBDA n : n.address = a)

\* The bridges above a node, nearest first (assign_depths, is_descendant and
\* root_id_of all walk this chain).
RECURSIVE Above(_, _)
Above(nodes, n) ==
    IF n.parent[1] = "root" THEN <<>>
    ELSE <<n.parent[2]>> \o Above(nodes, NodeAt(nodes, n.parent[2])[1])

RootIdOf(nodes, a) ==
    LET n == NodeAt(nodes, a)[1]
        chain == Above(nodes, n)
        top == IF chain = <<>> THEN n ELSE NodeAt(nodes, Last(chain))[1]
    IN top.parent[2]

\* build_snapshot
BuildSnapshot ==
    /\ pci.phase = "scan"
    /\ \E scan \in PciScans :
         LET roots == Sorted(scan.roots, RootKey)
             fns == Sorted(scan.functions, LAMBDA f : AddressKey(f.address) * 256
                                             + (IF f.bridge = <<>> THEN 0 ELSE f.bridge[1] * 16 + f.bridge[2]))
             early == FirstFault(<<RootsFault(roots), FunctionsFault(roots, fns), BridgesFault(fns)>>)
             bare == Each(1..Len(fns), LAMBDA i :
                        [address |-> fns[i].address, bridge |-> fns[i].bridge,
                         parent |-> ParentOf(RootFor(roots, fns[i].address)[1], fns[i].address, fns)])
             orphan == \E i \in 1..Len(fns) : bare[i].parent[1] = "missing"
             nodes == [i \in 1..Len(bare) |->
                        [address |-> bare[i].address, bridge |-> bare[i].bridge, parent |-> bare[i].parent,
                         depth |-> Len(Above(bare, bare[i]))]]
             deep == \E i \in 1..Len(fns) : nodes[i].depth > MaxPciDepth
         IN pci' = IF early # "ok" THEN [pci EXCEPT !.phase = "refused", !.error = early]
                   ELSE IF orphan THEN [pci EXCEPT !.phase = "refused", !.error = "MissingParent"]
                   ELSE IF deep THEN [pci EXCEPT !.phase = "refused", !.error = "DepthExceeded"]
                   ELSE [pci EXCEPT !.phase = "snapshot", !.roots = roots, !.nodes = nodes]

-----------------------------------------------------------------------------
(* Validation of what the firmware assigned *)

\* validate_apertures
AperturesFault(roots, aps) ==
    FirstFault([i \in 1..Len(aps) |-> LET a == aps[i] IN
        Fault(\/ a.len = 0 \/ a.base + a.len >= PciTop \/ a.cpu + a.len >= PciTop
              \/ \A r \in Range(roots) : r.id # a.root
              \/ a.class = "mem32" /\ a.base + a.len > FourGiB
              \/ \E j \in 1..(i - 1) : /\ aps[j].root = a.root /\ aps[j].class = a.class
                                       /\ Overlap(aps[j].base, aps[j].len, a.base, a.len),
              "InvalidAperture")])

Powers == {2^k : k \in 0..10}

WindowClass == <<"io", "mem32", "prefetch">>

\* resource_shape_valid
ShapeValid(nodes, r) ==
    /\ r.len # 0 /\ r.base + r.len < PciTop
    /\ IF r.register[1] = "bar"
       THEN r.register[2] < 6 /\ r.len \in Powers /\ (r.assigned => r.base % r.len = 0)
       ELSE /\ r.register[2] < 3 /\ WindowClass[r.register[2] + 1] = r.class
            /\ NodeAt(nodes, r.owner)[1].bridge # <<>>
    /\ r.class = "mem32" => r.base + r.len <= FourGiB

Matching(aps, root, class, base, len) ==
    SelectSeq(aps, LAMBDA a : a.root = root /\ a.class = class /\ Within(a.base, a.len, base, len))

\* validate_one
ValidateOne(nodes, aps, r) ==
    LET fits == Matching(aps, RootIdOf(nodes, r.owner), r.class, r.base, r.len)
        result(status, cpu) == [r |-> r, status |-> status, cpu |-> cpu]
    IN IF ~ShapeValid(nodes, r) THEN result("Unsupported", <<>>)
       ELSE IF ~r.assigned THEN result("Unassigned", <<>>)
       ELSE IF fits = <<>> THEN result("Unrouteable", <<>>)
       ELSE IF Len(fits) > 1 THEN result("Conflicting", <<>>)
       ELSE result(IF r.fixed THEN "Fixed" ELSE "Valid", <<fits[1].cpu + r.base - fits[1].base>>)

IsUsable(e) == e.status \in {"Valid", "Fixed"}

IsWindow(r) == r.register[1] = "window"

\* legal_window_containment: a window of a bridge above holds the other.
LegalWindow(nodes, w, c) ==
    /\ IsWindow(w) /\ w.owner \in Range(Above(nodes, NodeAt(nodes, c.owner)[1]))
    /\ Within(w.base, w.len, c.base, c.len)

Clash(nodes, e, f) ==
    LET r == e.r
        s == f.r
    IN /\ r.class = s.class /\ Overlap(r.base, r.len, s.base, s.len)
       /\ RootIdOf(nodes, r.owner) = RootIdOf(nodes, s.owner)
       /\ ~LegalWindow(nodes, r, s) /\ ~LegalWindow(nodes, s, r)

\* mark_conflicts: left to right; an entry found conflicting earlier starts no
\* comparison of its own, and is no longer usable to the entries before it.
MarkConflicts(nodes, es) ==
    LET mark(bad, i) ==
            LET hit == {k \in (i + 1)..Len(es) : IsUsable(es[k]) /\ k \notin bad /\ Clash(nodes, es[i], es[k])}
            IN IF ~IsUsable(es[i]) \/ i \in bad \/ hit = {} THEN bad ELSE bad \cup hit \cup {i}
        conflicting == FoldLeft(mark, {}, [i \in 1..Len(es) |-> i])
    IN Each(1..Len(es), LAMBDA i : IF i \in conflicting THEN [es[i] EXCEPT !.status = "Conflicting"] ELSE es[i])

\* validate_forwarding: every bridge above must forward the range through a
\* window that is usable when its turn comes.
ValidateForwarding(nodes, es) ==
    LET forwards(lost, b, r) == \E k \in 1..Len(es) :
            /\ IsUsable(es[k]) /\ k \notin lost /\ es[k].r.owner = b /\ IsWindow(es[k].r)
            /\ es[k].r.class = r.class /\ Within(es[k].r.base, es[k].r.len, r.base, r.len)
        follow(lost, i) ==
            IF /\ IsUsable(es[i])
               /\ \E b \in Range(Above(nodes, NodeAt(nodes, es[i].r.owner)[1])) : ~forwards(lost, b, es[i].r)
            THEN lost \cup {i} ELSE lost
        unrouteable == FoldLeft(follow, {}, [i \in 1..Len(es) |-> i])
    IN Each(1..Len(es), LAMBDA i : IF i \in unrouteable THEN [es[i] EXCEPT !.status = "Unrouteable"] ELSE es[i])

\* validate_firmware_resources
ValidateFirmware ==
    /\ pci.phase = "snapshot"
    /\ \E aps \in PciApertures, resources \in PciResources(pci.nodes) :
         LET order == Sorted(resources, LAMBDA r : ResourceKey(r) * 64 + r.base * 2 + (IF r.assigned THEN 1 ELSE 0))
             early == FirstFault(
                 <<AperturesFault(pci.roots, aps)>> \o
                 [i \in 1..Len(order) |->
                    FirstFault(<<Fault(NodeAt(pci.nodes, order[i].owner) = <<>>, "UnknownOwner"),
                                 Fault(i > 1 /\ ResourceKey(order[i - 1]) = ResourceKey(order[i]),
                                       "DuplicateResource")>>)])
             one == Each(1..Len(order), LAMBDA i : ValidateOne(pci.nodes, aps, order[i]))
             es == ValidateForwarding(pci.nodes, MarkConflicts(pci.nodes, one))
             report == Each(1..Len(es), LAMBDA i : IF IsUsable(es[i]) THEN es[i] ELSE [es[i] EXCEPT !.cpu = <<>>])
         IN pci' = IF early # "ok" THEN [pci EXCEPT !.phase = "refused", !.error = early]
                   ELSE [pci EXCEPT !.phase = "report", !.apertures = aps, !.report = report]

-----------------------------------------------------------------------------
(* The plan *)

\* A plan being made: what is planned, what each container holds, and the
\* first error.
NoPlan == [planned |-> <<>>, occupied |-> <<>>, error |-> "ok"]

\* direct_container: the aperture or class of the root, or the parent's window.
DirectContainer(p, r) ==
    LET parent == NodeAt(pci.nodes, r.owner)[1].parent
        fits == {i \in 1..Len(pci.apertures) :
                   /\ pci.apertures[i].root = parent[2] /\ pci.apertures[i].class = r.class
                   /\ Within(pci.apertures[i].base, pci.apertures[i].len, r.base, r.len)}
        windows == {w \in Range(p.planned) : /\ w.owner = parent[2] /\ IsWindow(w) /\ w.class = r.class
                                             /\ r.assigned => Within(w.base, w.len, r.base, r.len)}
    IN IF parent[1] = "root"
       THEN IF ~r.assigned THEN <<"class", parent[2], r.class>>
            ELSE IF fits = {} THEN <<"error", "NoSpace">>
            ELSE IF Cardinality(fits) > 1 THEN <<"error", "InvalidValidationReport">>
            ELSE <<"aperture", CHOOSE i \in fits : TRUE>>
       ELSE IF windows = {} THEN <<"error", "MissingParentWindow">>
       ELSE <<"window", parent[2], r.class>>

Keep(p, e) ==
    LET c == DirectContainer(p, e.r) IN
    IF p.error # "ok" \/ ~IsUsable(e) THEN p
    ELSE IF c[1] = "error" THEN [p EXCEPT !.error = c[2]]
    ELSE [p EXCEPT !.planned = Append(@, [owner |-> e.r.owner, register |-> e.r.register, class |-> e.r.class,
                                          old |-> <<e.r.base>>, base |-> e.r.base, cpu |-> e.cpu[1], len |-> e.r.len]),
                   !.occupied = Append(@, [container |-> c, base |-> e.r.base, len |-> e.r.len])]

\* validate_requirement
RequirementValid(r) ==
    /\ ~r.assigned /\ r.len # 0
    /\ IF IsWindow(r)
       THEN r.register[2] < 3 /\ NodeAt(pci.nodes, r.owner)[1].bridge # <<>> /\ r.len % GranularityOf[r.class] = 0
       ELSE r.register[2] < 6 /\ r.len \in Powers

Alignment(r) == IF IsWindow(r) THEN GranularityOf[r.class] ELSE r.len

AlignUp(v, a) == ((v + a - 1) \div a) * a

\* container_ranges: <<container, base, len>>, apertures in address order.
ContainerRanges(p, c) ==
    IF c[1] = "class"
    THEN LET fits == {i \in 1..Len(pci.apertures) : pci.apertures[i].root = c[2] /\ pci.apertures[i].class = c[3]}
             order == Sorted(fits, LAMBDA i : pci.apertures[i].base)
         IN [k \in 1..Len(order) |-> <<<<"aperture", order[k]>>, pci.apertures[order[k]].base, pci.apertures[order[k]].len>>]
    ELSE LET w == SelectSeq(p.planned, LAMBDA q : q.owner = c[2] /\ IsWindow(q) /\ q.class = c[3])[1]
         IN <<<<c, w.base, w.len>>>>

\* A bug: the cursor is not aligned again after a blocker.
FirstFitUnaligned(range, occupied, len, align) ==
    LET blockers == SortSeq(SelectSeq(occupied, LAMBDA o : o.container = range[1]),
                            LAMBDA x, y : x.base < y.base)
        past(c, b) == IF c.found \/ c.at + len <= b.base THEN [c EXCEPT !.found = TRUE]
                      ELSE IF c.at < b.base + b.len THEN [c EXCEPT !.at = b.base + b.len] ELSE c
        end == FoldLeft(past, [at |-> AlignUp(range[2], align), found |-> FALSE], blockers)
    IN IF end.found \/ end.at + len <= range[2] + range[3] THEN <<end.at>> ELSE <<>>

\* first_fit_in_range: past each blocker in address order.
FirstFitInRange(range, occupied, len, align) ==
    LET blockers == SortSeq(SelectSeq(occupied, LAMBDA o : o.container = range[1]),
                            LAMBDA x, y : x.base < y.base)
        past(c, b) == IF c.found \/ c.at + len <= b.base THEN [c EXCEPT !.found = TRUE]
                      ELSE IF c.at < b.base + b.len THEN [c EXCEPT !.at = AlignUp(b.base + b.len, align)] ELSE c
        end == FoldLeft(past, [at |-> AlignUp(range[2], align), found |-> FALSE], blockers)
    IN IF end.found \/ end.at + len <= range[2] + range[3] THEN <<end.at>> ELSE <<>>

\* One unassigned register gets the first address that fits.
Allocate(p, r) ==
    LET c == DirectContainer(p, r)
        ranges == ContainerRanges(p, c)
        fitting == SelectSeq(ranges, LAMBDA g : FirstFitInRange(g, p.occupied, r.len, Alignment(r)) # <<>>)
        base == FirstFitInRange(fitting[1], p.occupied, r.len, Alignment(r))[1]
        cpu == Matching(pci.apertures, RootIdOf(pci.nodes, r.owner), r.class, base, r.len)
    IN IF p.error # "ok" THEN p
       ELSE IF ~RequirementValid(r) THEN [p EXCEPT !.error = "InvalidRequirement"]
       ELSE IF c[1] = "error" THEN [p EXCEPT !.error = c[2]]
       ELSE IF fitting = <<>> \/ cpu = <<>> THEN [p EXCEPT !.error = "NoSpace"]
       ELSE [p EXCEPT !.planned = Append(@, [owner |-> r.owner, register |-> r.register, class |-> r.class,
                                             old |-> <<>>, base |-> base, len |-> r.len,
                                             cpu |-> cpu[1].cpu + base - cpu[1].base]),
                      !.occupied = Append(@, [container |-> fitting[1][1], base |-> base, len |-> r.len])]

\* allocation_order: by depth, windows before BARs.
AllocationKey(r) ==
    ((NodeAt(pci.nodes, r.owner)[1].depth * 2 + (IF IsWindow(r) THEN 0 ELSE 1)) * 4096 + AddressKey(r.owner)) * 16
    + RegisterKey(r.register)

\* plan_firmware_preserving
PlanPreserving ==
    /\ pci.phase = "report"
    /\ LET clean == \A e \in Range(pci.report) : e.status \in {"Valid", "Fixed", "Unassigned"}
           pending == Sorted({e.r : e \in {x \in Range(pci.report) : x.status = "Unassigned"}}, AllocationKey)
           plan == FoldLeft(Allocate, FoldLeft(Keep, NoPlan, pci.report), pending)
       IN pci' = IF ~clean THEN [pci EXCEPT !.phase = "refused", !.error = "InvalidValidationReport"]
                 ELSE IF plan.error # "ok" THEN [pci EXCEPT !.phase = "refused", !.error = plan.error]
                 ELSE [pci EXCEPT !.phase = "planned",
                                  !.plan = SortSeq(plan.planned, LAMBDA x, y : ResourceKey(x) < ResourceKey(y))]

PciInit == pci = NoPci
PciNext == BuildSnapshot \/ ValidateFirmware \/ PlanPreserving

-----------------------------------------------------------------------------

PlanDisjoint ==
    \A r, s \in Range(pci.plan) :
        r # s /\ r.class = s.class /\ Overlap(r.base, r.len, s.base, s.len)
        /\ RootIdOf(pci.nodes, r.owner) = RootIdOf(pci.nodes, s.owner)
        => LegalWindow(pci.nodes, r, s) \/ LegalWindow(pci.nodes, s, r)

PlanRouted ==
    \A r \in Range(pci.plan) :
        /\ \A b \in Range(Above(pci.nodes, NodeAt(pci.nodes, r.owner)[1])) :
              \E w \in Range(pci.plan) : w.owner = b /\ IsWindow(w) /\ w.class = r.class
                                         /\ Within(w.base, w.len, r.base, r.len)
        /\ \E a \in Range(pci.apertures) : /\ a.root = RootIdOf(pci.nodes, r.owner) /\ a.class = r.class
                                           /\ Within(a.base, a.len, r.base, r.len)
                                           /\ r.cpu - a.cpu = r.base - a.base

\* A plan gives every register the firmware reported an address that decodes
\* and that nothing else decodes: it lies in a window of every bridge above and
\* in an aperture of its root, its CPU address is the translated one, two
\* ranges overlap only when one is a window above the other, a BAR is aligned
\* to its length, and what the firmware had assigned has not moved.
PlanSound ==
    pci.phase = "planned" =>
        /\ PlanDisjoint /\ PlanRouted
        /\ \A r \in Range(pci.plan) : /\ ~IsWindow(r) => r.base % r.len = 0
                                      /\ r.old # <<>> => r.old[1] = r.base
        /\ {ResourceKey(r) : r \in Range(pci.plan)} = {ResourceKey(e.r) : e \in Range(pci.report)}

-----------------------------------------------------------------------------
(***************************************************************************)
(* Where a configuration access goes (huesos-pci/src/lib.rs, mcfg.rs): the *)
(* ECAM regions of the firmware's MCFG table, the address of a register in *)
(* a region, the legacy CF8/CFC cycle with its byte lanes, and what a BAR  *)
(* register says.                                                          *)
(*                                                                         *)
(* Sizes are scaled down: a function has FunctionBytes of configuration    *)
(* space, a device FunctionsPerDevice functions, a bus DevicesPerBus devices.             *)
(***************************************************************************)

CONSTANTS FunctionsPerDevice, DevicesPerBus,       \* 8 and 32
          FunctionBytes,            \* ENHANCED_CONFIG_BYTES
          LegacyBytes,              \* CONVENTIONAL_CONFIG_BYTES
          PhysicalTop,              \* 2^64
          McfgTables,               \* sequences of allocation records
          McfgMax,                  \* MAX_MCFG_ALLOCATIONS
          AccessAddresses, AccessOffsets, AccessWidths

VARIABLE pcf
pcfVars == <<pcf>>

DeviceBytes == FunctionBytes * FunctionsPerDevice
BusBytes == DeviceBytes * DevicesPerBus

\* PciAddress::try_new
AddressFault(a) ==
    FirstFault(<<Fault(a.device >= DevicesPerBus, "DeviceOutOfRange"), Fault(a.function >= FunctionsPerDevice, "FunctionOutOfRange")>>)

\* ConfigOffset::try_new: naturally aligned and wholly inside.
OffsetFault(o, w, space) ==
    FirstFault(<<Fault(o % w # 0, "MisalignedAccess"), Fault(o + w > space, "OffsetOutOfRange")>>)

\* EcamRegion::try_new
RegionFault(r) ==
    FirstFault(<<Fault(r.start > r.end, "InvalidBusRange"), Fault(r.base % BusBytes # 0, "MisalignedBase"),
                 Fault(r.base + (r.end - r.start + 1) * BusBytes >= PhysicalTop, "AddressOverflow")>>)
RegionEnd(r) == r.base + (r.end - r.start + 1) * BusBytes

\* EcamRegion::plan
EcamFault(r, a, o, w) ==
    FirstFault(<<Fault(a.segment # r.segment, "UnsupportedSegment"),
                 Fault(a.bus < r.start \/ a.bus > r.end, "BusOutOfRange"),
                 Fault(o + w > FunctionBytes, "OffsetOutOfRange")>>)
EcamAddress(r, a, o) ==
    r.base + (a.bus - r.start) * BusBytes + a.device * DeviceBytes + a.function * FunctionBytes + o

\* LegacyConfigPlan: the aligned dword and the lanes of the access in it.
LegacyFault(a, o, w) ==
    FirstFault(<<Fault(a.segment # 0, "UnsupportedSegment"), Fault(o + w > LegacyBytes, "UnsupportedAccess")>>)
LegacyDword(a, o) == ((a.bus * 32 + a.device) * 8 + a.function) * 256 + (o \div 4) * 4
Lanes(o, w) == ((o % 4) + 1)..((o % 4) + w)
Extract(o, w, dword) == SubSeq(dword, (o % 4) + 1, (o % 4) + w)
Merge(o, w, dword, value) == [i \in 1..4 |-> IF i \in Lanes(o, w) THEN value[i - (o % 4)] ELSE dword[i]]

\* regions_overlap: in memory, or in the buses of a segment.
RegionsOverlap(r, s) ==
    \/ r.base < RegionEnd(s) /\ s.base < RegionEnd(r)
    \/ r.segment = s.segment /\ r.start <= s.end /\ s.start <= r.end

\* mcfg::parse: the table's header, then its records one by one.
ParseMcfg(t) ==
    LET early == FirstFault(<<Fault(t.short, "BadLength"), Fault(~t.signature, "BadSignature"),
                              Fault(t.odd, "BadLength"), Fault(~t.checksum, "BadChecksum"),
                              Fault(t.reserved, "ReservedNonZero"), Fault(Len(t.records) > McfgMax, "TooManyAllocations")>>)
        add(acc, r) == IF acc.error # "ok" THEN acc
                       ELSE LET bad == FirstFault(<<Fault(r.reserved, "ReservedNonZero"), RegionFault(r),
                                                    Fault(\E s \in Range(acc.regions) : RegionsOverlap(s, r), "Overlap")>>)
                            IN IF bad # "ok" THEN [acc EXCEPT !.error = bad] ELSE [acc EXCEPT !.regions = Append(@, r)]
    IN IF early # "ok" THEN [error |-> early, regions |-> <<>>]
       ELSE FoldLeft(add, [error |-> "ok", regions |-> <<>>], t.records)

-----------------------------------------------------------------------------

PcfInit == pcf = [phase |-> "boot", regions |-> <<>>, error |-> "ok", space |-> <<"a", "b", "c", "d">>, done |-> {}]

ReadMcfg ==
    /\ pcf.phase = "boot"
    /\ \E t \in McfgTables :
         LET p == ParseMcfg(t)
         IN pcf' = [pcf EXCEPT !.phase = IF p.error = "ok" THEN "ecam" ELSE "legacy", !.error = p.error,
                               !.regions = IF p.error = "ok" THEN p.regions ELSE <<>>]

\* An access through whichever region takes it: where its bytes are.
EcamAccess ==
    /\ pcf.phase = "ecam" /\ Cardinality(pcf.done) < 2
    /\ \E a \in AccessAddresses, o \in AccessOffsets, w \in AccessWidths, k \in 1..Len(pcf.regions) :
         /\ AddressFault(a) = "ok" /\ OffsetFault(o, w, FunctionBytes) = "ok"
         /\ EcamFault(pcf.regions[k], a, o, w) = "ok"
         /\ pcf' = [pcf EXCEPT !.done = @ \cup {[address |-> a, offset |-> o, width |-> w, region |-> k,
                                                 at |-> EcamAddress(pcf.regions[k], a, o)]}]

\* write_config: the dword is read, the lanes merged in, the dword written.
LegacyWrite ==
    /\ pcf.phase = "legacy" /\ pcf.done = {}
    /\ \E a \in AccessAddresses, o \in AccessOffsets, w \in AccessWidths :
         /\ AddressFault(a) = "ok" /\ OffsetFault(o, w, LegacyBytes) = "ok" /\ LegacyFault(a, o, w) = "ok"
         /\ LET value == SubSeq(<<"w", "x", "y", "z">>, 1, w)
            IN pcf' = [pcf EXCEPT !.space = Merge(o, w, @, value),
                                  !.done = {[offset |-> o, width |-> w, value |-> value, at |-> LegacyDword(a, o)]}]

PcfNext == ReadMcfg \/ EcamAccess \/ LegacyWrite

\* An access stays inside its region, and two accesses touch a common byte
\* exactly when they name the same function and overlapping registers; a
\* legacy write reads back as written and leaves the other lanes alone.
AccessesExact ==
    /\ pcf.phase = "ecam" => \A x, y \in pcf.done :
          /\ x.at >= pcf.regions[x.region].base /\ x.at + x.width <= RegionEnd(pcf.regions[x.region])
          /\ (x.at < y.at + y.width /\ y.at < x.at + x.width)
             <=> (x.address = y.address /\ x.offset < y.offset + y.width /\ y.offset < x.offset + x.width)
    /\ pcf.phase = "legacy" => \A x \in pcf.done :
          /\ Extract(x.offset, x.width, pcf.space) = x.value
          /\ \A i \in (1..4) \ Lanes(x.offset, x.width) : pcf.space[i] = <<"a", "b", "c", "d">>[i]

-----------------------------------------------------------------------------
(***************************************************************************)
(* The kernel's search for NVMe functions at boot                          *)
(* (huesos-kernel/src/boot/storage.rs): every function's class and BAR0    *)
(* are read, BAR0 is sized by writing all ones to it, the capability list  *)
(* is walked, and MSI-X, MSI or INTx is set up, one configuration write at *)
(* a time, on a device that decodes memory and sends messages meanwhile.   *)
(*                                                                         *)
(* A capability list is a function from pointers to <<id, next>>; pointer  *)
(* 0 ends it.  BAR0 is "home" (the firmware's address) or "ones".          *)
(***************************************************************************)

CONSTANTS Boards,          \* sequences of functions found on the bus
          MaxNvme,         \* MAX_NVME_FUNCTIONS
          MinBarLen,       \* MIN_NVME_BAR0_LEN, in table entries
          MaxVectors,      \* MAX_NVME_MSIX_VECTORS
          MaxCaps          \* MAX_CONVENTIONAL_CAPABILITIES

VARIABLE pb
pbVars == <<pb>>

\* A device as the firmware left it: `bar` [io, is64, zero, len], `caps` and
\* what its command register `was`.
Working(d) ==
    [present |-> d.present, nvme |-> d.nvme, bar |-> d.bar, caps |-> d.caps, first |-> d.first,
     intx |-> d.intx, sixtable |-> d.sixtable, command |-> d.command, was |-> d.command, bar0 |-> "home", bar1 |-> "home",
     control |-> {}, entries |-> [i \in 1..MaxVectors |-> "reset"], msi |-> "off", msiData |-> FALSE]

PbInit ==
    \E b \in Boards, off \in BOOLEAN :
        pb = [at |-> 1, pc |-> IF off THEN "done" ELSE "probe", off |-> off,
              devices |-> [i \in 1..Len(b) |-> Working(b[i])],
              found |-> <<>>, index |-> 0]

Dev == pb.devices[pb.at]
Update(d, pc) == pb' = [pb EXCEPT !.devices[pb.at] = d, !.pc = pc]
Goto(pc) == pb' = [pb EXCEPT !.pc = pc]

\* Whether a pointer of the conventional list is aligned and in range.
PointerFault(p) ==
    FirstFault(<<Fault(p % 4 # 0, "MisalignedPointer"), Fault(p < 64 \/ p > 252, "PointerOutOfRange")>>)

\* parse_conventional: the pointers in list order, or an error.
ParseConventional(d) ==
    LET step(w, n) ==
            IF w.error # "ok" \/ w.p = 0 THEN w
            ELSE LET fault == FirstFault(<<PointerFault(w.p), Fault(w.p \in Range(w.list), "Cycle"),
                                           Fault(Len(w.list) >= MaxCaps, "TooManyCapabilities")>>)
                     next == d.caps[w.p][2]
                 IN IF fault # "ok" THEN [w EXCEPT !.error = fault]
                    ELSE [p |-> next, list |-> Append(w.list, w.p),
                          error |-> IF next = 0 THEN "ok" ELSE PointerFault(next)]
    IN FoldLeft(step, [p |-> d.first, list |-> <<>>, error |-> "ok"], [n \in 1..(MaxCaps + 2) |-> n])

\* parse_interrupt_capabilities: each of MSI and MSI-X once.
InterruptCaps(d) ==
    LET parsed == ParseConventional(d)
        of(id) == SelectSeq(parsed.list, LAMBDA p : d.caps[p][1] = id)
    IN [error |-> FirstFault(<<parsed.error, Fault(Len(of("msi")) > 1 \/ Len(of("msix")) > 1, "DuplicateCapability"),
                               Fault(\E p \in Range(of("msix")) : p + 12 > 256, "Truncated")>>),
        msi |-> of("msi"), msix |-> of("msix")]

-----------------------------------------------------------------------------
(* Discovery *)

\* discover_nvme_functions: the next function, or the end of the bus or of the table.
NextFunction(found) ==
    pb' = [pb EXCEPT !.at = IF @ = Len(pb.devices) \/ Len(found) = MaxNvme THEN @ ELSE @ + 1,
                     !.found = found, !.index = 0,
                     !.pc = IF pb.at = Len(pb.devices) \/ Len(found) = MaxNvme THEN "done" ELSE "probe"]

\* inspect_function up to the sizing: only an NVMe function with a memory BAR0
\* that the firmware placed is touched.
Probe ==
    /\ pb.pc = "probe"
    /\ IF ~Dev.present \/ ~Dev.nvme \/ Dev.bar.io \/ Dev.bar.zero THEN NextFunction(pb.found) ELSE Goto("quiet")

\* size_bar0, one configuration write per step.
SizeQuiet == pb.pc = "quiet" /\ Update([Dev EXCEPT !.command = @ \ {"memory", "master"}], "ones")
SizeOnes == pb.pc = "ones" /\ Update([Dev EXCEPT !.bar0 = "ones"], IF Dev.bar.is64 THEN "ones1" ELSE "restore")
SizeOnesHigh == pb.pc = "ones1" /\ Update([Dev EXCEPT !.bar1 = "ones"], "restore")
SizeRestore == pb.pc = "restore" /\ Update([Dev EXCEPT !.bar0 = "home"], IF Dev.bar.is64 THEN "restore1" ELSE "command")
SizeRestoreHigh == pb.pc = "restore1" /\ Update([Dev EXCEPT !.bar1 = "home"], "command")
SizeCommand == pb.pc = "command" /\ Update([Dev EXCEPT !.command = Dev.was], "caps")

\* The rest of inspect_function: sizes and capability lists that make no sense
\* are left alone; MSI-X when its table is in BAR0, else MSI, else INTx.
InspectCapabilities ==
    /\ pb.pc = "caps"
    /\ LET caps == InterruptCaps(Dev)
           count == IF Dev.sixtable.size < MaxVectors THEN Dev.sixtable.size ELSE MaxVectors
           usable == Dev.sixtable.bir = 0 /\ Dev.sixtable.offset + count <= Dev.bar.len
       IN IF Dev.bar.len < MinBarLen \/ caps.error # "ok" THEN NextFunction(pb.found)
          ELSE IF caps.msix # <<>> /\ usable THEN Update([Dev EXCEPT !.control = @ \cup {"mask"}], "entry")
          ELSE IF caps.msi # <<>> THEN Goto("msi")
          ELSE NextFunction(Append(pb.found, [at |-> pb.at, irqs |-> IF Dev.intx THEN 1 ELSE 0, by |-> "intx"]))

\* try_configure_msix: program_msix_entry for each vector, field by field.
VectorCount == IF Dev.sixtable.size < MaxVectors THEN Dev.sixtable.size ELSE MaxVectors
EntryStages == <<"masked", "addressed", "high", "data", "ready">>
MsixEntry ==
    /\ pb.pc = "entry"
    /\ LET i == (pb.index \div 5) + 1
           stage == EntryStages[(pb.index % 5) + 1]
       IN IF pb.index = 5 * VectorCount
          THEN Update([Dev EXCEPT !.control = (@ \cup {"enable"}) \ {"mask"}], "master")
          ELSE pb' = [pb EXCEPT !.devices[pb.at].entries[i] = stage, !.index = @ + 1]

\* try_configure_msi: address and data, then enable.
MsiMessage == pb.pc = "msi" /\ Update([Dev EXCEPT !.msiData = TRUE], "msienable")
MsiEnable == pb.pc = "msienable" /\ Update([Dev EXCEPT !.msi = "on"], "master")

\* enable_device_bus_master, and the entry for init.
EnableMaster ==
    /\ pb.pc = "master"
    /\ LET d == [Dev EXCEPT !.command = @ \cup {"memory", "master", "nointx"}]
           entry == [at |-> pb.at, irqs |-> IF "enable" \in Dev.control THEN VectorCount ELSE 1,
                     by |-> IF "enable" \in Dev.control THEN "msix" ELSE "msi"]
           full == pb.at = Len(pb.devices) \/ Len(pb.found) + 1 = MaxNvme
       IN pb' = [pb EXCEPT !.devices[pb.at] = d, !.found = Append(@, entry), !.index = 0,
                           !.at = IF full THEN @ ELSE @ + 1, !.pc = IF full THEN "done" ELSE "probe"]

PbNext ==
    \/ Probe \/ SizeQuiet \/ SizeOnes \/ SizeOnesHigh \/ SizeRestore \/ SizeRestoreHigh \/ SizeCommand
    \/ InspectCapabilities \/ MsixEntry \/ MsiMessage \/ MsiEnable \/ EnableMaster

-----------------------------------------------------------------------------

\* Devices are never left in between: memory is decoded, and DMA or messages
\* sent, only with BAR0 at its address; an entry of the MSI-X table the device
\* may use is complete; what init is told of has its interrupts set up as told,
\* and every other function is as the firmware left it.
DevicesSafe ==
    \A i \in 1..Len(pb.devices) :
        LET d == pb.devices[i]
            told == {e \in Range(pb.found) : e.at = i}
        IN /\ d.command \cap {"memory", "master"} # {} => d.bar0 = "home" /\ d.bar1 = "home"
           /\ "enable" \in d.control /\ "mask" \notin d.control =>
                 \A v \in 1..MaxVectors : d.entries[v] \in {"ready", "reset"}
           /\ d.msi = "on" => d.msiData
           /\ \A e \in told : /\ e.by = "msix" => /\ Cardinality({v \in 1..MaxVectors : d.entries[v] = "ready"}) = e.irqs
                                                  /\ {"memory", "master"} \subseteq d.command
                              /\ e.by = "msi" => d.msi = "on" /\ "master" \in d.command
           /\ told = {} /\ (i < pb.at \/ pb.pc = "done") =>
                 d.command = d.was /\ d.control = {} /\ d.msi = "off"

-----------------------------------------------------------------------------
(***************************************************************************)
(* The lease of one PCI device (huesos-pci/src/lease.rs): the manager      *)
(* applies events that name the generation they were issued under, driver  *)
(* processes mint resources from a generation, and a generation is revoked *)
(* when the device is moved, removed or fails.                             *)
(***************************************************************************)

CONSTANTS Koids,           \* driver processes (0 is the invalid one)
          LeaseAddresses,  \* where the device may be routed
          MaxGeneration,   \* where the generation counter ends
          MaxMessages      \* bound: events on their way

VARIABLE lease
leaseVars == <<lease>>

NoDriver == -1

\* LeaseState, and the relocation classes of a driver.
LeaseStates == {"Discovered", "Configured", "DriverStarting", "Online", "Quiescing",
                "Rebalancing", "Removing", "Removed", "Failed"}
Relocations == {"Fixed", "Restart", "QuiesceRemap"}

\* LeaseEvent
LeaseEvents ==
    [kind : {"Configure", "DriverReady", "BeginRelocation", "BeginRemoval", "DriverQuiesced",
             "CompleteRemoval", "SurpriseRemove", "Fail"}]
    \cup [kind : {"StartDriver"}, koid : Koids]
    \cup [kind : {"CommitRelocation"}, to : LeaseAddresses]

\* try_new; `messages` are events on their way with the generation their sender
\* saw, `minted` the resources handed out and to whom.
LeaseInit ==
    \E class \in Relocations, a \in LeaseAddresses :
        lease = [gen |-> 1, address |-> a, state |-> "Discovered", class |-> class,
                 driver |-> NoDriver, intent |-> "none", messages |-> {}, minted |-> {}]

\* can_mint_resources
CanMint(l, g) == g = l.gen /\ l.state \in {"Configured", "DriverStarting", "Online"}

\* accepts_io
AcceptsIo(l, g) == g = l.gen /\ l.state = "Online"

\* revoke_generation: not past the last generation.
CanRevoke(l) == l.gen < MaxGeneration
Revoke(l) == [l EXCEPT !.gen = @ + 1, !.driver = NoDriver]

\* apply: the lease after an accepted event; a refused one changes nothing.
Apply(l, e) ==
    CASE e.kind = "Configure" /\ l.state = "Discovered" -> [l EXCEPT !.state = "Configured"]
      [] e.kind = "StartDriver" /\ l.state = "Configured" ->
           IF e.koid = 0 THEN l ELSE [l EXCEPT !.driver = e.koid, !.state = "DriverStarting"]
      [] e.kind = "DriverReady" /\ l.state = "DriverStarting" -> [l EXCEPT !.state = "Online"]
      [] e.kind = "BeginRelocation" /\ l.state = "Online" ->
           IF l.class = "Fixed" THEN l ELSE [l EXCEPT !.intent = "relocate", !.state = "Quiescing"]
      [] e.kind = "BeginRemoval" /\ l.state \in {"DriverStarting", "Online"} ->
           [l EXCEPT !.intent = "remove", !.state = "Quiescing"]
      [] e.kind = "BeginRemoval" /\ l.state \in {"Discovered", "Configured"} /\ CanRevoke(l) ->
           [Revoke(l) EXCEPT !.state = "Removing"]
      [] e.kind = "DriverQuiesced" /\ l.state = "Quiescing" /\ l.intent # "none" /\ CanRevoke(l) ->
           [Revoke(l) EXCEPT !.state = IF l.intent = "relocate" THEN "Rebalancing" ELSE "Removing",
                             !.intent = "none"]
      [] e.kind = "CommitRelocation" /\ l.state = "Rebalancing" ->
           [l EXCEPT !.address = e.to, !.state = "Configured"]
      [] e.kind = "CompleteRemoval" /\ l.state = "Removing" -> [l EXCEPT !.state = "Removed"]
      [] e.kind \in {"SurpriseRemove", "Fail"} /\ l.state \notin {"Removed", "Failed"} /\ CanRevoke(l) ->
           [Revoke(l) EXCEPT !.state = IF e.kind = "Fail" THEN "Failed" ELSE "Removed", !.intent = "none"]
      [] OTHER -> l

\* A supervisor, a driver or the hotplug path sends an event under the
\* generation it sees.
Issue ==
    /\ Cardinality(lease.messages) < MaxMessages
    /\ \E e \in LeaseEvents :
         /\ <<e, lease.gen>> \notin lease.messages
         /\ lease' = [lease EXCEPT !.messages = @ \cup {<<e, lease.gen>>}]

\* An event arrives, in any order; a stale generation is refused.
ApplyEvent ==
    \E m \in lease.messages :
        LET rest == [lease EXCEPT !.messages = @ \ {m}]
        IN lease' = IF m[2] # lease.gen THEN rest ELSE Apply(rest, m[1])

\* A driver (or the supervisor, before there is one) mints a resource.
Mint ==
    \E g \in 1..lease.gen :
        /\ CanMint(lease, g)
        /\ lease' = [lease EXCEPT !.minted = @ \cup {<<lease.driver, g>>}]

LeaseNext == Issue \/ ApplyEvent \/ Mint

\* While a device is moved or torn down, and after, no resource minted earlier
\* is of the lease's generation; while it works, whoever holds a resource of
\* the generation is the attached driver or the supervisor that prepared it;
\* a driver is attached exactly while one runs.
LeaseSound ==
    /\ lease.state \in {"Rebalancing", "Removing", "Removed", "Failed"} =>
          \A m \in lease.minted : m[2] < lease.gen
    /\ \A m \in lease.minted : m[2] = lease.gen => m[1] \in {lease.driver, NoDriver}
    /\ lease.driver # NoDriver <=> lease.state \in {"DriverStarting", "Online", "Quiescing"}
    /\ lease.intent # "none" <=> lease.state = "Quiescing"
    /\ \A g \in 1..MaxGeneration : AcceptsIo(lease, g) => lease.driver # NoDriver /\ CanMint(lease, g)
=============================================================================
