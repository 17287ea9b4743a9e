---------------------------- MODULE AcpiPlatform ----------------------------
(***************************************************************************)
(* The firmware's ACPI tables on their way to Ring 3.  The kernel copies   *)
(* the installed tables, the RSDP and the FACS into one sealed archive     *)
(* (kernel boot/acpi_archive.rs, huesos-uacpi), the ACPI runtime validates *)
(* it twice, once through the VMO and once through the mapping, and from   *)
(* then on answers uACPI's physical mappings out of the archive            *)
(* (uacpi-runtime/archive.rs).  The validators are in huesos-abi, which    *)
(* also still reads version-1 archives.                                    *)
(*                                                                         *)
(* A byte of a copied object is a cell <<object, index>>; what a reader    *)
(* finds in an object's header is the record `content` of the object, and  *)
(* the sum of anything but one whole object is not zero.  Sizes are scaled *)
(* down.                                                                   *)
(***************************************************************************)
EXTENDS Checks

CONSTANTS Firmwares,                          \* what the machine's tables may be
          HeadBytes, EntryBytes, MapBytes,    \* HEADER_BYTES, TABLE_ENTRY_BYTES, MAPPING_ENTRY_BYTES
          MinSdt, MinFacs, MaxTable,          \* 36, 64, MAX_TABLE_BYTES
          MaxArchive, MaxTableCount, MaxMapCount,
          RsdpShort, RsdpLong,                \* 20 and 36
          ArchiveTop,                         \* 2^64
          OldArchives, IndexRanges,           \* version-1 archives, MAX_PHYSICAL_RANGES
          Asked                               \* ranges <<address, length>> uACPI maps

VARIABLE arc
arcVars == <<arc>>

NoMapping == -1
TotalOf(seq) == FoldLeft(LAMBDA acc, n : acc + n, 0, seq)

----------------------------------------------------------------------------
(* What the kernel takes from uACPI.                                       *)

RsdpLength(revision) == IF revision = 0 THEN RsdpShort ELSE IF revision >= 2 THEN RsdpLong ELSE NoMapping

\* rsdp_snapshot
RsdpFault(r) ==
    Fault(r.address = 0 \/ ~r.sum \/ RsdpLength(r.revision) = NoMapping \/ (r.revision >= 2 /\ ~r.longSum), "InvalidRsdp")

\* facs_snapshot: the legacy address unless it is zero; no FACS at neither.
FacsAddress(f) == IF f.legacy # 0 THEN f.legacy ELSE f.extended
FacsFault(f) ==
    Fault(FacsAddress(f) # 0
            /\ (f.signature # "FACS" \/ f.length \notin MinFacs..MaxTable \/ FacsAddress(f) + f.length >= ArchiveTop),
          "InvalidFacs")

\* table_metadata, Table::get, Table::bytes and the agreement build asks of them.
TableFault(t) ==
    Fault(t.size \notin MinSdt..MaxTable \/ t.bad \/ t.length \notin MinSdt..MaxTable \/ t.size # t.length
            \/ t.listed # t.signature \/ t.signature = "FACS", "InvalidTable")

\* next_instance: tables of one signature are numbered in order.
Instance(tables, i) == Cardinality({j \in 1..(i - 1) : tables[j].signature = tables[i].signature})

\* build: the entries, those of the installed tables and then the FACS.
Entries(fw) ==
    Each(1..Len(fw.tables), LAMBDA i : [signature |-> fw.tables[i].signature, revision |-> fw.tables[i].revision,
                                        facs |-> FALSE, address |-> fw.tables[i].address, length |-> fw.tables[i].length,
                                        instance |-> Instance(fw.tables, i)])
    \o IF FacsAddress(fw.facs) = 0 THEN <<>>
       ELSE <<[signature |-> "FACS", revision |-> fw.facs.revision, facs |-> TRUE, address |-> FacsAddress(fw.facs),
               length |-> fw.facs.length, instance |-> 0]>>

\* The bytes of object k of the firmware: 0 the RSDP, then the entries.
Content(fw) ==
    [k \in 0..Len(Entries(fw)) |->
        IF k = 0 THEN [signature |-> "RSDP", revision |-> fw.rsdp.revision, length |-> RsdpLength(fw.rsdp.revision), sum |-> TRUE]
        ELSE [signature |-> Entries(fw)[k].signature, revision |-> Entries(fw)[k].revision,
              length |-> Entries(fw)[k].length, sum |-> k > Len(fw.tables) \/ fw.tables[k].sum]]

----------------------------------------------------------------------------
(* encode_snapshot                                                         *)

\* Offsets follow each other from the end of the RSDP.
Placed(entries, from) ==
    Each(1..Len(entries), LAMBDA i : [offset |-> from + TotalOf([j \in 1..(i - 1) |-> entries[j].length])] @@ entries[i])

\* The RSDP and every table with an address, by physical address.
Directory(rsdp, entries) ==
    Sorted({[owner |-> 0, kind |-> "rsdp", address |-> rsdp.address, offset |-> rsdp.offset, length |-> rsdp.length]}
           \cup {[owner |-> i, kind |-> "table", address |-> entries[i].address, offset |-> entries[i].offset,
                  length |-> entries[i].length] : i \in {j \in 1..Len(entries) : entries[j].address # 0}},
           LAMBDA m : m.address)

DirectoryFault(dir) ==
    FirstFault(Each(1..Len(dir), LAMBDA i :
        Fault(dir[i].address = 0 \/ dir[i].length = 0
                \/ (i > 1 /\ dir[i].address < dir[i - 1].address + dir[i - 1].length), "InvalidSnapshot")))

IndexOf(dir, owner) ==
    IF \E i \in 1..Len(dir) : dir[i].owner = owner THEN (CHOOSE i \in 1..Len(dir) : dir[i].owner = owner) - 1 ELSE NoMapping

PayloadCells(content, from) ==
    LET start(k) == from + TotalOf([j \in 1..k |-> content[j - 1].length])
        end == start(Cardinality(DOMAIN content))
    IN  [o \in from..(end - 1) |->
            LET k == CHOOSE n \in DOMAIN content : start(n) <= o /\ o < start(n) + content[n].length IN <<k, o - start(k)>>]

\* encode_snapshot's layout: header, table directory, mappings, payload.
Snapshot(fw, id) ==
    LET entries == Entries(fw)
        count == 1 + Cardinality({i \in 1..Len(entries) : entries[i].address # 0})
        maps == HeadBytes + Len(entries) * EntryBytes
        payload == maps + count * MapBytes
        length == RsdpLength(fw.rsdp.revision)
        placed == Placed(entries, payload + length)
        dir == Directory([address |-> fw.rsdp.address, offset |-> payload, length |-> length], placed)
        cells == PayloadCells(Content(fw), payload)
    IN  [version |-> 2, total |-> payload + Cardinality(DOMAIN cells), snapshot |-> id, tablesAt |-> HeadBytes,
         mapsAt |-> maps, payloadAt |-> payload,
         rsdp |-> [address |-> fw.rsdp.address, offset |-> payload, length |-> length, mapping |-> IndexOf(dir, 0),
                   revision |-> fw.rsdp.revision],
         tables |-> Each(1..Len(placed), LAMBDA i : [mapping |-> IndexOf(dir, i)] @@ placed[i]),
         maps |-> Each(1..Len(dir), LAMBDA i : [kind |-> dir[i].kind, address |-> dir[i].address,
                                                offset |-> dir[i].offset, length |-> dir[i].length]),
         directory |-> dir, content |-> Content(fw), cells |-> cells]

----------------------------------------------------------------------------
(* validate                                                                *)

ReadCell(a, o) == IF o \in DOMAIN a.cells THEN a.cells[o] ELSE <<NoMapping, 0>>

\* The object whose first byte is at offset o, if one is.
Header(a, o) ==
    LET c == ReadCell(a, o)
    IN  IF c[1] # NoMapping /\ c[2] = 0 THEN a.content[c[1]] ELSE [signature |-> "garbage", revision |-> 0, length |-> 0, sum |-> FALSE]

\* checksum, byte_sum: zero for one whole, undamaged object.
SumsToZero(a, o, n) == Header(a, o).sum /\ Header(a, o).length = n

MappingAt(a, i) == IF i \in 0..(Len(a.maps) - 1) THEN a.maps[i + 1] ELSE [kind |-> "none", address |-> 0, offset |-> 0, length |-> 0]

\* validate_v2_geometry
GeometryFault(a, available) ==
    FirstFault(<<
        Fault(a.snapshot = 0 \/ Len(a.tables) > MaxTableCount \/ Len(a.maps) \notin 1..MaxMapCount
                \/ a.total > MaxArchive \/ a.total > available \/ a.tablesAt # HeadBytes, "Metadata"),
        Fault(a.mapsAt # a.tablesAt + Len(a.tables) * EntryBytes \/ a.payloadAt # a.mapsAt + Len(a.maps) * MapBytes
                \/ a.rsdp.offset # a.payloadAt \/ a.rsdp.address = 0 \/ a.rsdp.mapping \notin 0..(Len(a.maps) - 1)
                \/ a.rsdp.length # RsdpLength(a.rsdp.revision), "Metadata"),
        Fault(a.rsdp.offset + a.rsdp.length > a.total, "Range")>>)

\* A directory record and the mapping it names describe the same bytes.
Matches(m, kind, e) == m = [kind |-> kind, address |-> e.address, offset |-> e.offset, length |-> e.length]

\* validate_rsdp
ValidateRsdp(a) ==
    LET h == Header(a, a.rsdp.offset)
    IN  FirstFault(<<Fault(~Matches(MappingAt(a, a.rsdp.mapping), "rsdp", a.rsdp), "Translation"),
                     Fault(h.signature # "RSDP" \/ h.revision # a.rsdp.revision
                             \/ ~SumsToZero(a, a.rsdp.offset, a.rsdp.length), "Checksum")>>)

\* validate_v2_table
ValidateTable(a, e, previousEnd) ==
    LET h == Header(a, e.offset)
    IN  FirstFault(<<
        Fault(e.offset # previousEnd, "Metadata"),
        Fault(e.facs /\ (e.signature # "FACS" \/ e.length < MinFacs), "Format"),
        Fault(~e.facs /\ (e.signature = "FACS" \/ e.length < MinSdt), "Range"),
        Fault(e.length > MaxTable \/ e.offset < a.payloadAt \/ e.offset + e.length > a.total
                \/ e.address + e.length >= ArchiveTop, "Range"),
        Fault(h.signature # e.signature \/ h.length # e.length, "Format"),
        Fault(e.facs /\ h.revision # e.revision, "Format"),
        Fault(~e.facs /\ (h.revision # e.revision \/ ~SumsToZero(a, e.offset, e.length)), "Checksum")>>)

\* The table's mapping: none for a virtual table, else its own.
ValidateMapping(a, e) ==
    IF e.address = 0 THEN Fault(e.mapping # NoMapping, "Translation")
    ELSE Fault(e.mapping \notin 0..(Len(a.maps) - 1) \/ ~Matches(MappingAt(a, e.mapping), "table", e), "Translation")

\* mark_mapping: no mapping serves two records.
Users(a, i) == (IF a.rsdp.mapping = i THEN 1 ELSE 0) + Cardinality({j \in 1..Len(a.tables) : a.tables[j].mapping = i})

\* validate_mapping_directory: all used, in order, disjoint and inside.
ValidateDirectory(a) ==
    FirstFault(Each(1..Len(a.maps), LAMBDA i : LET m == a.maps[i] IN FirstFault(<<
        Fault(Users(a, i - 1) # 1, "Translation"),
        Fault(m.address = 0 \/ m.length = 0 \/ m.offset < a.payloadAt \/ m.offset + m.length > a.total
                \/ m.address + m.length >= ArchiveTop, "Range"),
        Fault(i > 1 /\ m.address < a.maps[i - 1].address + a.maps[i - 1].length, "Overlap")>>)))

\* validate_v2
ValidateV2(a, available) ==
    LET end(i) == IF i = 0 THEN a.rsdp.offset + a.rsdp.length ELSE a.tables[i].offset + a.tables[i].length
        tables == FirstFault(Each(1..Len(a.tables), LAMBDA i :
                      FirstFault(<<ValidateTable(a, a.tables[i], end(i - 1)), ValidateMapping(a, a.tables[i])>>)))
        first == FirstFault(<<GeometryFault(a, available), ValidateRsdp(a), tables,
                              Fault(end(Len(a.tables)) # a.total, "Metadata")>>)
    IN  IF first # "ok" THEN first ELSE ValidateDirectory(a)

\* validate_v1_entry, validate_v1
EntryFaultV1(e, metadataEnd, previousEnd, total) ==
    FirstFault(<<Fault(e.reserved # 0, "Reserved"), Fault(e.length \notin MinSdt..MaxTable \/ e.offset < metadataEnd, "Range"),
                 Fault(e.address # 0 /\ e.address + e.length >= ArchiveTop, "Range"), Fault(e.offset < previousEnd, "Overlap"),
                 Fault(e.offset + e.length > total, "Range")>>)

MetadataEnd(a) == a.header + a.count * EntryBytes
EntriesFaultV1(a) ==
    FirstFault(Each(1..a.count, LAMBDA i :
        EntryFaultV1(a.tables[i], MetadataEnd(a), IF i = 1 THEN MetadataEnd(a) ELSE a.tables[i - 1].offset + a.tables[i - 1].length,
                     a.total)))

ValidateV1(a, available) ==
    LET head == Fault(a.header # HeadBytes \/ a.count > MaxTableCount \/ a.total > MaxArchive \/ a.total > available
                        \/ MetadataEnd(a) > a.total, "Metadata")
    IN  IF head # "ok" THEN head ELSE IF a.count > Len(a.tables) THEN "Read" ELSE EntriesFaultV1(a)

\* decode: version 1 only, with the index of physical ranges.
PhysicalIndex(a) ==
    LET at == SelectSeq(SubSeq(a.tables, 1, a.count), LAMBDA e : e.address # 0)
    IN  Each(1..Len(at), LAMBDA i : [address |-> at[i].address, length |-> at[i].length])
DecodeV1(a, bytes) ==
    LET head == Fault(a.header # HeadBytes \/ a.count > MaxTableCount \/ a.total > MaxArchive \/ bytes < a.total
                        \/ MetadataEnd(a) > a.total, "Metadata")
    IN  IF a.version # 1 THEN "Format" ELSE IF head # "ok" THEN head ELSE IF a.count > Len(a.tables) THEN "Metadata"
        ELSE IF EntriesFaultV1(a) # "ok" THEN EntriesFaultV1(a)
        ELSE Fault(Len(PhysicalIndex(a)) > IndexRanges, "Capacity")
ContainsPhysical(index, address, n) ==
    /\ n # 0 /\ address + n < ArchiveTop
    /\ \E i \in 1..Len(index) : index[i].address <= address /\ address + n <= index[i].address + index[i].length

\* validate_archive_layout: the same rules over a header and its entries.
LayoutV1(a) ==
    LET head == Fault(a.header # HeadBytes \/ a.count > MaxTableCount \/ a.count # Len(a.tables)
                        \/ MetadataEnd(a) > a.total \/ a.total > MaxArchive, "Metadata")
    IN  IF a.version # 1 THEN "Format" ELSE IF head # "ok" THEN head ELSE EntriesFaultV1(a)

\* validate
Validate(a, available) ==
    IF a.version = 2 THEN ValidateV2(a, available) ELSE IF a.version = 1 THEN ValidateV1(a, available) ELSE "UnsupportedVersion"

----------------------------------------------------------------------------
(* Kernel, VMO and runtime.                                                *)

NoArchive == <<>>
ArcInit == \E fw \in Firmwares :
    arc = [at |-> "boot", fw |-> fw, vmo |-> NoArchive, held |-> NoArchive, built |-> "", status |-> "", answers |-> {}]

\* build
BuildFault(fw) ==
    FirstFault(<<RsdpFault(fw.rsdp), FacsFault(fw.facs), Fault(Len(Entries(fw)) > MaxTableCount, "TooManyTables"),
                 FirstFault(Each(1..Len(fw.tables), LAMBDA i : TableFault(fw.tables[i])))>>)
Build(id) ==
    /\ arc.at = "boot"
    /\ LET a == Snapshot(arc.fw, id)
           fault == IF BuildFault(arc.fw) # "ok" THEN BuildFault(arc.fw)
                    ELSE FirstFault(<<Fault(id = 0, "TooLarge"), Fault(Len(a.maps) > MaxMapCount, "TooManyTables"),
                                      Fault(a.total > MaxArchive, "TooLarge"), DirectoryFault(a.directory),
                                      Fault(Validate(a, a.total) # "ok", "InvalidSnapshot")>>)
       IN  arc' = [arc EXCEPT !.at = IF fault = "ok" THEN "sealed" ELSE "none", !.built = fault,
                              !.vmo = IF fault = "ok" THEN <<a>> ELSE NoArchive]

\* Another producer's archive: one number of a record is off by one, or a
\* mapping repeats another.
AlterArchive ==
    /\ arc.at = "sealed" /\ arc.built = "ok"
    /\ LET a == arc.vmo[1]
       IN  \E d \in {-1, 1} :
           \/ \E f \in {"total", "snapshot", "mapsAt", "payloadAt"} :
                arc' = [arc EXCEPT !.vmo = <<[a EXCEPT ![f] = @ + d]>>, !.built = "other"]
           \/ arc' = [arc EXCEPT !.vmo = <<[a EXCEPT !.version = 3]>>, !.built = "other"]
           \/ \E f \in {"address", "offset", "length", "mapping", "revision"} :
                arc' = [arc EXCEPT !.vmo = <<[a EXCEPT !.rsdp[f] = @ + d]>>, !.built = "other"]
           \/ \E i \in 1..Len(a.tables), f \in {"address", "offset", "length", "mapping", "revision"} :
                arc' = [arc EXCEPT !.vmo = <<[a EXCEPT !.tables[i][f] = @ + d]>>, !.built = "other"]
           \/ \E i \in 1..Len(a.maps), f \in {"address", "offset", "length"} :
                arc' = [arc EXCEPT !.vmo = <<[a EXCEPT !.maps[i][f] = @ + d]>>, !.built = "other"]
           \/ \E i \in 1..Len(a.tables), j \in 1..Len(a.maps) :       \* a table and its mapping moved together
                /\ a.tables[i].mapping = j - 1
                /\ arc' = [arc EXCEPT !.vmo = <<[a EXCEPT !.tables[i].address = @ + d, !.maps[j].address = @ + d]>>,
                                      !.built = "other"]
OfferOld ==
    /\ arc.at \in {"none", "sealed"} /\ arc.built # "other"
    /\ \E a \in OldArchives : arc' = [arc EXCEPT !.at = "sealed", !.vmo = <<a>>, !.built = "other"]

\* install_archive, with the same validation of the VMO and of the mapping
InstallArchive ==
    /\ arc.at \in {"sealed", "installed"} /\ arc.vmo # NoArchive
    /\ LET a == arc.vmo[1]
           status == FirstFault(<<Fault(arc.held # NoArchive, "AlreadyInstalled"), Validate(a, MaxArchive),
                                  Fault(a.version # 2, "UnsupportedVersion"), Fault(a.total > MaxArchive, "InvalidGeometry"),
                                  Validate(a, a.total)>>)
       IN  arc' = [arc EXCEPT !.status = status, !.at = IF status = "ok" THEN "installed" ELSE @,
                              !.held = IF status = "ok" THEN <<a>> ELSE @]

\* uacpi_kernel_map, translate_archive: the first mapping that contains the range
Translate(a, address, n) ==
    LET fits == {i \in 1..Len(a.maps) : a.maps[i].address <= address /\ address + n <= a.maps[i].address + a.maps[i].length}
    IN  IF n = 0 \/ fits = {} THEN NoMapping
        ELSE LET m == a.maps[Min(fits)]
             IN  IF m.offset + (address - m.address) + n > a.total THEN NoMapping ELSE m.offset + (address - m.address)
Map(ask) ==
    /\ arc.at = "installed"
    /\ arc' = [arc EXCEPT !.answers = {<<ask, Translate(arc.held[1], ask[1], ask[2])>>}]

\* uacpi_kernel_get_rsdp
GetRsdp ==
    /\ arc.at = "installed"
    /\ arc' = [arc EXCEPT !.answers = {<<<<arc.held[1].rsdp.address, 1>>, arc.held[1].rsdp.offset>>}]

ArcNext == \/ \E id \in 0..1 : Build(id)
           \/ AlterArchive \/ OfferOld \/ InstallArchive \/ GetRsdp
           \/ \E ask \in Asked : Map(ask)

----------------------------------------------------------------------------
\* The object of the firmware that holds a whole physical range.
Objects(fw) == [k \in 0..Len(Entries(fw)) |-> IF k = 0 THEN [address |-> fw.rsdp.address, length |-> RsdpLength(fw.rsdp.revision)]
                                              ELSE [address |-> Entries(fw)[k].address, length |-> Entries(fw)[k].length]]
Holder(fw, ask) ==
    {k \in DOMAIN Objects(fw) : /\ Objects(fw)[k].address # 0
                                /\ Objects(fw)[k].address <= ask[1] /\ ask[1] + ask[2] <= Objects(fw)[k].address + Objects(fw)[k].length}

\* What the runtime answers is what the firmware holds there.  The archive the
\* kernel builds is accepted by the runtime, and a physical range maps to the
\* copy of exactly those bytes when one table holds it and to nothing
\* otherwise.  Whoever produced an accepted archive, its mappings are disjoint
\* and stay inside it and one answer never runs into another object; and the
\* three readers of version 1 agree on what is well formed.
TranslationTrue ==
    /\ arc.at = "installed" /\ arc.built = "ok" => \A x \in arc.answers :
          IF Holder(arc.fw, x[1]) = {} THEN x[2] = NoMapping
          ELSE \A i \in 0..(x[1][2] - 1) :
                  \E k \in Holder(arc.fw, x[1]) : ReadCell(arc.held[1], x[2] + i) = <<k, x[1][1] + i - Objects(arc.fw)[k].address>>
    /\ arc.built = "ok" => arc.status \in {"", "ok", "AlreadyInstalled"}
    /\ arc.held # NoArchive =>
          LET a == arc.held[1] IN
          /\ \A i, j \in 1..Len(a.maps) : i < j => a.maps[i].address + a.maps[i].length <= a.maps[j].address
          /\ \A x \in arc.answers : x[2] # NoMapping =>
                \A i \in 0..(x[1][2] - 1) : ReadCell(a, x[2] + i)[1] = ReadCell(a, x[2])[1] /\ ReadCell(a, x[2])[1] # NoMapping
    /\ arc.vmo # NoArchive /\ arc.vmo[1].version = 1 =>
          LET a == arc.vmo[1] IN
          /\ ValidateV1(a, MaxArchive) = "ok" /\ a.count = Len(a.tables) => LayoutV1(a) = "ok"
          /\ LayoutV1(a) = "ok" => DecodeV1(a, a.total) \in {"ok", "Capacity"} /\ ValidateV1(a, a.total) = "ok"
          /\ DecodeV1(a, a.total) = "ok" =>
                \A i \in 1..a.count : a.tables[i].address # 0 => ContainsPhysical(PhysicalIndex(a), a.tables[i].address, a.tables[i].length)

-----------------------------------------------------------------------------
(***************************************************************************)
(* What the Ring-3 ACPI runtime may do and what it stands on: the broker   *)
(* call that performs a port access for it (huesos-syscalls and            *)
(* huesos-object acpi_broker.rs, huesos-abi acpi_broker.rs), the audit     *)
(* ring and the rate limiter of a broker (huesos-abi broker_policy.rs),    *)
(* and the runtime's registries of mutexes, events and spinlocks with its  *)
(* nested suppression of dispatch (uacpi-runtime/primitives.rs).           *)
(*                                                                         *)
(* The runtime is one thread.  uACPI, the caller of the registries, frees, *)
(* unlocks and restores what it made, the last first.                      *)
(***************************************************************************)

CONSTANTS PortTop,             \* 2^16
          MemoryTop,           \* 2^64
          PciSpace,            \* 4096
          IoGrants, MemGrants, PciGrants,     \* sequences of grants
          PowerGrant,          \* allow_reset, allow_power_off
          Requests,            \* requests that reach the call
          Slots, CountMax,     \* SYNC_SLOT_COUNT, u32::MAX
          Timeouts, Forever,   \* in ticks; Forever is u16::MAX
          RingSlots, WindowTicks, WindowMax,
          LastTick, MaxEvents

VARIABLE acl
aclVars == <<acl>>

----------------------------------------------------------------------------
(* The broker call.                                                        *)

IoOps == {"SystemIoRead", "SystemIoWrite"}
PciOps == {"PciRead", "PciWrite"}
MmioOps == {"MmioRead", "MmioWrite"}
PlainOps == {"InstallInterrupt", "RemoveInterrupt", "Reset", "PowerOff"}
ReadOps == {"SystemIoRead", "PciRead", "MmioRead"}

\* Request::validate.  A value is given by the bytes it needs.
RequestFault(r) ==
    FirstFault(<<
        Fault(~r.version, "Version"), Fault(r.opcode \notin IoOps \cup PciOps \cup MmioOps \cup PlainOps, "Opcode"),
        Fault(r.reserved # 0, "Reserved"),
        IF r.opcode \in PlainOps THEN Fault(r.width # 0 \/ r.value # 0, "Width")
        ELSE FirstFault(<<
            Fault(r.width \notin {1, 2, 4}, "Width"), Fault(r.width \in {1, 2, 4} /\ r.address % r.width # 0, "Alignment"),
            Fault(r.opcode \in {"SystemIoWrite", "PciWrite"} /\ r.value > r.width, "Value"),
            Fault(r.opcode \in {"SystemIoRead", "PciRead"} /\ r.value # 0, "Value")>>)>>)

\* The grant allows this direction.
Directed(g, op) == IF op \in ReadOps THEN g.read ELSE g.write

\* authorizes_system_io, authorizes_mmio: wholly inside one grant
InsideGrant(r, grants, top) ==
    /\ r.address < top /\ r.address + r.width < top
    /\ \E i \in 1..Len(grants) : LET g == grants[i] IN
          g.base + g.length < top /\ Directed(g, r.opcode) /\ g.base <= r.address /\ r.address + r.width <= g.base + g.length

\* authorizes_pci: the function exactly, the register inside its space
PciGranted(r) ==
    /\ ~r.stray /\ r.address + r.width <= PciSpace
    /\ \E i \in 1..Len(PciGrants) : Directed(PciGrants[i], r.opcode) /\ PciGrants[i].function = r.function

\* authorizes
Authorizes(r) ==
    CASE r.opcode \in IoOps -> InsideGrant(r, IoGrants, PortTop)
      [] r.opcode \in PciOps -> PciGranted(r)
      [] r.opcode \in MmioOps -> InsideGrant(r, MemGrants, MemoryTop)
      [] r.opcode = "Reset" -> PowerGrant.reset
      [] r.opcode = "PowerOff" -> PowerGrant.off
      [] OTHER -> FALSE

\* execute: only port accesses have a backend
Perform(r) == IF r.opcode \in IoOps THEN [status |-> "Ok", ports |-> r.address..(r.address + r.width - 1)]
              ELSE [status |-> "NotFound", ports |-> {}]

\* sys_acpi_broker_call
BrokerCall(r) ==
    LET fault == FirstFault(<<Fault(r.handle = "none", "BadHandle"),
                              Fault((IF r.opcode \in ReadOps THEN "read" ELSE "write") \notin r.rights, "AccessDenied"),
                              Fault(r.handle = "stale", "BadHandle"), Fault(r.handle = "other", "WrongType")>>)
        answer(status, ports) == [error |-> "ok", status |-> status, ports |-> ports, request |-> r]
    IN  acl' = [acl EXCEPT !.call = <<
              IF RequestFault(r) # "ok" THEN answer("InvalidRequest", {})
              ELSE IF fault # "ok" THEN [answer("", {}) EXCEPT !.error = fault]
              ELSE IF ~Authorizes(r) THEN answer("AccessDenied", {})
              ELSE answer(Perform(r).status, Perform(r).ports)>>]

----------------------------------------------------------------------------
(* Audit ring and rate limiter.                                            *)

\* AuditLog::record
Record(e) ==
    /\ acl.kind = "audit" /\ acl.sequence < MaxEvents
    /\ acl' = [acl EXCEPT !.ring[acl.head + 1] = <<[sequence |-> acl.sequence, event |-> e]>>, !.sequence = @ + 1,
                          !.head = (@ + 1) % RingSlots, !.held = IF @ < RingSlots THEN @ + 1 ELSE @,
                          !.history = Append(@, e)]
\* AuditIter::next for every position
Iterated(a) == [p \in 1..a.held |-> a.ring[(IF a.held < RingSlots THEN p - 1 ELSE (a.head + p - 1) % RingSlots) + 1]]

\* RateLimiter::try_acquire
TryAcquire ==
    /\ acl.kind = "limit"
    /\ LET rolled == acl.now >= acl.start + WindowTicks
           count == IF rolled THEN 0 ELSE acl.count
       IN  /\ Len(acl.admitted) < MaxEvents
           /\ acl' = [acl EXCEPT !.start = IF rolled THEN acl.now ELSE @, !.count = IF count < WindowMax THEN count + 1 ELSE count,
                                 !.admitted = IF count < WindowMax THEN Append(@, acl.now) ELSE @]
\* RateLimiter::reset
ResetLimiter == acl.kind = "limit" /\ acl' = [acl EXCEPT !.start = 0, !.count = 0, !.admitted = <<>>]

Tick == acl.now < LastTick /\ acl.kind \in {"limit", "event"} /\ acl' = [acl EXCEPT !.now = @ + 1]

----------------------------------------------------------------------------
(* The registries of the runtime.                                          *)

Handles == 0..(Slots + 1)            \* handle 0 and one past the last are no slot
IsSlot(h) == h \in 1..Slots
EmptySlot == [allocated |-> FALSE, locked |-> FALSE, count |-> 0]
Registries == {"mutex", "event", "spin"}
Idle(reg) == acl.kind = reg /\ acl.wait = <<>>

\* create_mutex, create_event, create_spinlock: the first free slot, or null
CreateSlot(reg) ==
    LET free == {i \in 1..Slots : ~acl.reg[reg][i].allocated}
    IN  /\ Idle(reg)
        /\ acl' = IF free = {} THEN [acl EXCEPT !.made = 0]
                  ELSE [acl EXCEPT !.made = Min(free), !.reg[reg][Min(free)] = [EmptySlot EXCEPT !.allocated = TRUE]]

\* free_mutex, free_event, free_spinlock: a locked slot stays
FreeSlot(reg, h) ==
    /\ Idle(reg)
    /\ acl' = IF IsSlot(h) /\ acl.reg[reg][h].allocated /\ ~acl.reg[reg][h].locked
              THEN [acl EXCEPT !.made = 0, !.reg[reg][h] = EmptySlot] ELSE [acl EXCEPT !.made = 0]

CreateMutex == CreateSlot("mutex")
CreateEvent == CreateSlot("event")
CreateSpinlock == CreateSlot("spin")
FreeMutex(h) == FreeSlot("mutex", h)
FreeEvent(h) == FreeSlot("event", h)
FreeSpinlock(h) == FreeSlot("spin", h)

\* acquire_mutex: the owner of a locked mutex is always the one thread
AcquireMutex(h) ==
    /\ Idle("mutex")
    /\ acl' = IF IsSlot(h) /\ acl.reg["mutex"][h].allocated /\ ~acl.reg["mutex"][h].locked
              THEN [acl EXCEPT !.status = "ok", !.reg["mutex"][h].locked = TRUE] ELSE [acl EXCEPT !.status = "denied"]
ReleaseMutex(h) ==
    /\ Idle("mutex") /\ IsSlot(h) /\ acl.reg["mutex"][h].locked
    /\ acl' = [acl EXCEPT !.reg["mutex"][h].locked = FALSE, !.status = ""]

\* wait_for_event: consume a count, or look again each tick until the deadline
WaitForEvent(h, timeout) ==
    /\ Idle("event")
    /\ acl' = IF ~IsSlot(h) \/ ~acl.reg["event"][h].allocated THEN [acl EXCEPT !.status = "no"]
              ELSE IF acl.reg["event"][h].count # 0 THEN [acl EXCEPT !.status = "yes", !.reg["event"][h].count = @ - 1]
              ELSE IF timeout = 0 THEN [acl EXCEPT !.status = "no"]
              ELSE [acl EXCEPT !.status = "", !.wait = <<[event |-> h, deadline |-> IF timeout = Forever THEN Forever ELSE acl.now + timeout]>>]
LookAgain ==
    /\ acl.kind = "event" /\ acl.wait # <<>>
    /\ LET w == acl.wait[1]
       IN  acl' = IF acl.reg["event"][w.event].count # 0
                  THEN [acl EXCEPT !.status = "yes", !.reg["event"][w.event].count = @ - 1, !.wait = <<>>]
                  ELSE IF w.deadline # Forever /\ acl.now >= w.deadline THEN [acl EXCEPT !.status = "no", !.wait = <<>>]
                  ELSE acl
SignalEvent(h) ==
    /\ acl.kind = "event" /\ acl.signals < MaxEvents
    /\ acl' = [acl EXCEPT !.reg["event"] = IF IsSlot(h) /\ @[h].allocated
                                          THEN [@ EXCEPT ![h].count = IF @ < CountMax THEN @ + 1 ELSE @] ELSE @,
                          !.signals = @ + 1]
ResetEvent(h) ==
    /\ Idle("event") /\ IsSlot(h) /\ acl.reg["event"][h].allocated
    /\ acl' = [acl EXCEPT !.reg["event"][h].count = 0, !.status = ""]

\* disable_interrupts and restore_interrupts; lock_spinlock, unlock_spinlock
DisableDispatch ==
    /\ Idle("spin") /\ Len(acl.saved) < 2
    /\ acl' = [acl EXCEPT !.depth = @ + 1, !.saved = Append(@, <<0, acl.depth>>)]
LockSpin(h) ==
    /\ Idle("spin") /\ Len(acl.saved) < 2 /\ (IsSlot(h) => ~acl.reg["spin"][h].locked)
    /\ acl' = [acl EXCEPT !.depth = @ + 1, !.saved = Append(@, <<h, acl.depth>>),
                          !.reg["spin"] = IF IsSlot(h) /\ @[h].allocated THEN [@ EXCEPT ![h].locked = TRUE] ELSE @]
UnlockLast ==
    /\ Idle("spin") /\ acl.saved # <<>>
    /\ LET s == Last(acl.saved)
       IN  acl' = [acl EXCEPT !.depth = s[2], !.saved = Front(@),
                              !.reg["spin"] = IF IsSlot(s[1]) /\ @[s[1]].allocated THEN [@ EXCEPT ![s[1]].locked = FALSE] ELSE @]

----------------------------------------------------------------------------
AclInit ==
    \E kind \in {"broker", "audit", "limit"} \cup Registries :
    acl = [kind |-> kind, call |-> <<>>, ring |-> [i \in 1..RingSlots |-> <<>>], head |-> 0, held |-> 0, sequence |-> 0,
           history |-> <<>>, start |-> 0, count |-> 0, admitted |-> <<>>, now |-> 0,
           reg |-> [r \in Registries |-> [i \in 1..Slots |-> EmptySlot]], made |-> 0, status |-> "", wait |-> <<>>,
           signals |-> 0, depth |-> 0, saved |-> <<>>]

AclNext ==
    \/ acl.kind = "broker" /\ acl.call = <<>> /\ \E r \in Requests : BrokerCall(r)
    \/ \E e \in {"allow", "deny"} : Record(e)
    \/ TryAcquire \/ ResetLimiter \/ Tick
    \/ CreateMutex \/ CreateEvent \/ CreateSpinlock
    \/ \E h \in Handles : FreeMutex(h) \/ FreeEvent(h) \/ FreeSpinlock(h)
    \/ \E h \in Handles : \/ AcquireMutex(h) \/ ReleaseMutex(h) \/ SignalEvent(h) \/ ResetEvent(h) \/ LockSpin(h)
                          \/ \E t \in Timeouts : WaitForEvent(h, t)
    \/ LookAgain \/ DisableDispatch \/ UnlockLast

\* The runtime touches what it was granted and nothing else.  A port is
\* accessed only if one grant of that direction covers every port of the
\* access, only on a well-formed request over a handle with the right, and no
\* other operation touches hardware; the audit ring holds the last decisions
\* in the order they were made; a window of the limiter admits at most its
\* maximum; a locked mutex or spinlock is never freed under its holder, a
\* waiter never outlives its event and its deadline, and dispatch is
\* suppressed exactly while something that suppresses it is held.
BrokerExact ==
    /\ acl.call # <<>> =>
          LET c == acl.call[1] IN
          /\ \A p \in c.ports : \E i \in 1..Len(IoGrants) :
                /\ Directed(IoGrants[i], c.request.opcode)
                /\ c.ports \subseteq IoGrants[i].base..(IoGrants[i].base + IoGrants[i].length - 1)
          /\ c.ports # {} => /\ c.status = "Ok" /\ c.error = "ok" /\ c.request.handle = "broker"
                             /\ (IF c.request.opcode = "SystemIoRead" THEN "read" ELSE "write") \in c.request.rights
                             /\ Cardinality(c.ports) = c.request.width /\ c.request.address % c.request.width = 0
          /\ c.status = "Ok" <=> c.ports # {}
    /\ Iterated(acl) = LET n == Len(acl.history)
                           from == IF n > RingSlots THEN n - RingSlots ELSE 0
                       IN  [p \in 1..(n - from) |-> <<[sequence |-> from + p - 1, event |-> acl.history[from + p]]>>]
    /\ Cardinality({i \in 1..Len(acl.admitted) : acl.admitted[i] >= acl.start}) <= WindowMax
    /\ \A i \in 1..Slots : /\ acl.reg["mutex"][i].locked => acl.reg["mutex"][i].allocated
                           /\ acl.reg["spin"][i].locked => acl.reg["spin"][i].allocated /\ \E k \in 1..Len(acl.saved) : acl.saved[k][1] = i
    /\ acl.depth = Len(acl.saved)
    /\ acl.wait # <<>> => acl.reg["event"][acl.wait[1].event].allocated

-----------------------------------------------------------------------------
(***************************************************************************)
(* The decisions behind an external interrupt (huesos-ioapic): the bits of *)
(* a redirection entry, the source overrides of the firmware's MADT, which *)
(* controller and pin own a global system interrupt, which vector a device *)
(* gets, and the entry built from them.                                    *)
(*                                                                         *)
(* A register is the set of its bits that are one.                         *)
(***************************************************************************)

CONSTANTS MadtTables,              \* sequences of MADT entries
          MaxOverrides,            \* MAX_SOURCE_OVERRIDES
          ControllerSets,          \* sequences of discovered I/O APICs
          GsiTop,                  \* 2^32
          RangeStart, RangeEnd,    \* of the allocator
          DeviceStart, DeviceEnd,  \* DEVICE_VECTOR_START, DEVICE_VECTOR_END
          ApicIds, DestinationMax, \* LAPIC ids, u8::MAX
          LegacyIrqs, Gsis

VARIABLE ioa
ioaVars == <<ioa>>

----------------------------------------------------------------------------
(* The redirection entry.                                                  *)

\* to_bits, from_bits: first bit and width of each field
EntryLayout == [vector |-> <<0, 8>>, delivery |-> <<8, 3>>, logical |-> <<11, 1>>, status |-> <<12, 1>>, low |-> <<13, 1>>,
                irr |-> <<14, 1>>, level |-> <<15, 1>>, masked |-> <<16, 1>>, destination |-> <<56, 8>>]
ReadOnly == {"status", "irr"}
DeliveryModes == {0, 1, 2, 4, 5, 7}

ToBits(e) == UNION {{EntryLayout[f][1] + b : b \in {n \in 0..(EntryLayout[f][2] - 1) : (e[f] \div 2^n) % 2 = 1}} : f \in DOMAIN EntryLayout}
Field(bits, f) == FoldSet(LAMBDA b, acc : acc + 2^b, 0, {n \in 0..(EntryLayout[f][2] - 1) : EntryLayout[f][1] + n \in bits})
FromBits(bits) ==
    LET raw == [f \in DOMAIN EntryLayout |-> Field(bits, f)]
    IN  [raw EXCEPT !.delivery = IF @ \in DeliveryModes THEN @ ELSE 0]
LowHalf(e) == {b \in ToBits(e) : b < 32}
HighHalf(e) == {b - 32 : b \in {c \in ToBits(e) : c >= 32}}

\* RedirectionEntry::masked
MaskedEntry == [f \in DOMAIN EntryLayout |-> IF f = "masked" THEN 1 ELSE 0]
WritableMatch(e, seen) == \A f \in DOMAIN EntryLayout \ ReadOnly : e[f] = seen[f]

----------------------------------------------------------------------------
(* The MADT.                                                               *)

\* SourceOverride::config: value 2 of either field is reserved
ConfigOf(o) ==
    IF o.polarity = 2 \/ o.trigger = 2 THEN <<>>
    ELSE <<[low |-> IF o.polarity = 3 THEN 1 ELSE 0, level |-> IF o.trigger = 3 THEN 1 ELSE 0]>>
IsaDefault == <<[low |-> 0, level |-> 0]>>

\* parse_source_overrides, entry by entry
Refused == <<[kind |-> "refused"]>>
OverrideFault(known, o) ==
    \/ o.short \/ Len(known) = MaxOverrides \/ o.bus # 0 \/ ConfigOf(o) = <<>>
    \/ \E i \in 1..Len(known) : known[i].source = o.source \/ known[i].gsi = o.gsi
ParseOverrides(table) ==
    FoldLeft(LAMBDA acc, e : IF acc = Refused \/ (e.kind = "override" /\ OverrideFault(acc, e)) \/ e.kind = "torn"
                             THEN Refused ELSE IF e.kind = "override" THEN Append(acc, e) ELSE acc,
             <<>>, table)

\* find, resolve_gsi, config_for_legacy_irq, find_gsi, config_for_gsi
Find(overrides, irq) == SelectSeq(overrides, LAMBDA o : o.bus = 0 /\ o.source = irq)
ResolveGsi(overrides, irq) == IF Find(overrides, irq) # <<>> THEN Find(overrides, irq)[1].gsi ELSE irq
ConfigForIrq(overrides, irq) == IF Find(overrides, irq) # <<>> THEN ConfigOf(Find(overrides, irq)[1]) ELSE IsaDefault
FindGsi(overrides, gsi) == SelectSeq(overrides, LAMBDA o : o.bus = 0 /\ o.gsi = gsi)
ConfigForGsi(overrides, gsi) == IF FindGsi(overrides, gsi) # <<>> THEN ConfigOf(FindGsi(overrides, gsi)[1]) ELSE <<>>

----------------------------------------------------------------------------
(* Controllers.                                                            *)

\* validate_ioapic_descriptors
Overlapping(c, d) == d.pins # 0 /\ c.base < d.base + d.pins /\ d.base < c.base + c.pins
ControllerFault(cs) ==
    FirstFault(Each(1..Len(cs), LAMBDA i : FirstFault(<<
        Fault(cs[i].pins = 0, "EmptyRange"), Fault(cs[i].base + cs[i].pins > GsiTop, "RangeOverflow"),
        FirstFault(Each(1..(Len(cs) - i), LAMBDA k : FirstFault(<<
            Fault(cs[i].id = cs[i + k].id, "DuplicateId"), Fault(Overlapping(cs[i], cs[i + k]), "OverlappingRanges")>>)))>>)))

\* route_gsi: by the declared ranges, or by the nearest base when none is
RouteGsi(cs, gsi) ==
    LET owners == {i \in 1..Len(cs) : cs[i].pins > 0 /\ cs[i].base <= gsi /\ gsi < cs[i].base + cs[i].pins}
        below == {i \in 1..Len(cs) : cs[i].base <= gsi}
        top == Max({cs[i].base : i \in below})
        pick == IF owners # {} THEN Min(owners) ELSE Min({i \in below : cs[i].base = top})
    IN  IF owners = {} /\ ((\E i \in 1..Len(cs) : cs[i].pins > 0) \/ below = {}) THEN <<>>
        ELSE <<[id |-> cs[pick].id, pin |-> gsi - cs[pick].base]>>

----------------------------------------------------------------------------
(* Vectors.                                                                *)

IsDeviceVector(v) == DeviceStart <= v /\ v <= DeviceEnd
Capacity == IF RangeEnd < RangeStart THEN 0 ELSE RangeEnd - RangeStart + 1
InRange(v) == RangeStart <= v /\ v <= RangeEnd

\* VectorAllocator::allocate: a circular scan from `next`
Scan(a) == Each(1..Capacity, LAMBDA k : ((a.next - RangeStart + k - 1) % Capacity) + RangeStart)
AllocateVector(a) ==
    LET free == IF Capacity = 0 THEN <<>> ELSE SelectSeq(Scan(a), LAMBDA v : v \notin a.used)
    IN  IF free = <<>> THEN [alloc |-> a, vector |-> -1]
        ELSE [alloc |-> [used |-> a.used \cup {free[1]}, count |-> a.count + 1,
                         next |-> IF free[1] + 1 > RangeEnd THEN RangeStart ELSE free[1] + 1], vector |-> free[1]]
FreeVector(a, v) ==
    IF InRange(v) /\ v \in a.used THEN [a EXCEPT !.used = @ \ {v}, !.count = IF @ = 0 THEN 0 ELSE @ - 1] ELSE a

\* allocate_device_vector: vectors outside the device range are given back
AllocateDevice(a) ==
    FoldLeft(LAMBDA acc, k : IF acc.done THEN acc
                             ELSE LET r == AllocateVector(acc.alloc)
                                  IN  IF r.vector = -1 THEN [acc EXCEPT !.done = TRUE]
                                      ELSE IF IsDeviceVector(r.vector) THEN [alloc |-> r.alloc, vector |-> r.vector, done |-> TRUE]
                                      ELSE [acc EXCEPT !.alloc = FreeVector(r.alloc, r.vector)],
             [alloc |-> a, vector |-> -1, done |-> FALSE], [k \in 1..Capacity |-> k])

\* entry_for_gsi
EntryFor(config, vector, apic) ==
    [MaskedEntry EXCEPT !.vector = vector, !.destination = apic, !.low = config.low, !.level = config.level]

----------------------------------------------------------------------------
Fresh == [used |-> {}, count |-> 0, next |-> RangeStart]
IoaInit ==
    \E table \in MadtTables, cs \in ControllerSets :
        ioa = [overrides |-> ParseOverrides(table), controllers |-> cs, accepted |-> ControllerFault(cs) = "ok",
               alloc |-> Fresh, routes |-> {}]
Ready == ioa.accepted /\ ioa.overrides # Refused

\* entry_for_legacy_irq: the vector is taken last, so no refusal costs one
RouteLegacy(irq, apic) ==
    LET config == ConfigForIrq(ioa.overrides, irq)
        taken == AllocateDevice(ioa.alloc)
        gsi == ResolveGsi(ioa.overrides, irq)
    IN  /\ Ready /\ \A r \in ioa.routes : r.gsi # gsi
        /\ apic <= DestinationMax /\ config # <<>>
        /\ ioa' = [ioa EXCEPT !.alloc = taken.alloc,
                   !.routes = IF taken.vector = -1 THEN @
                              ELSE @ \cup {[gsi |-> gsi, entry |-> EntryFor(config[1], taken.vector, apic)]}]

\* A device route: the vector first, then entry_for_gsi with its own wiring
RouteDevice(gsi, config, apic) ==
    LET taken == AllocateVector(ioa.alloc)
    IN  /\ Ready /\ \A r \in ioa.routes : r.gsi # gsi
        /\ RouteGsi(ioa.controllers, gsi) # <<>> /\ taken.vector # -1
        /\ ioa' = IF ~IsDeviceVector(taken.vector) \/ apic > DestinationMax
                  THEN [ioa EXCEPT !.alloc = FreeVector(taken.alloc, taken.vector)]
                  ELSE [ioa EXCEPT !.alloc = taken.alloc,
                                   !.routes = @ \cup {[gsi |-> gsi, entry |-> EntryFor(config, taken.vector, apic)]}]
ReserveVector(v) ==
    /\ Ready /\ InRange(v) /\ v \notin ioa.alloc.used
    /\ ioa' = [ioa EXCEPT !.alloc.used = @ \cup {v}, !.alloc.count = @ + 1]
ReleaseRoute ==
    \E r \in ioa.routes : ioa' = [ioa EXCEPT !.alloc = FreeVector(@, r.entry.vector), !.routes = @ \ {r}]
Unmask ==
    \E r \in ioa.routes : ioa' = [ioa EXCEPT !.routes = (@ \ {r}) \cup {[r EXCEPT !.entry.masked = 0]}]

IoaNext ==
    \/ \E irq \in LegacyIrqs, apic \in ApicIds : RouteLegacy(irq, apic)
    \/ \E gsi \in Gsis, apic \in ApicIds : RouteDevice(gsi, [low |-> 1, level |-> 1], apic)
    \/ \E v \in RangeStart..RangeEnd : ReserveVector(v)
    \/ ReleaseRoute \/ Unmask

----------------------------------------------------------------------------
\* Every interrupt goes where it was meant to.  Live routes have distinct
\* device vectors the allocator holds and its count is what it holds; on
\* accepted controllers a GSI has one owner and `route_gsi` finds it; no
\* two overrides claim a source or a GSI and the wiring of an overridden GSI
\* is that of its source; and an entry survives the register: the read-only
\* bits may change under it, any other bit that differs is noticed.
RoutesDecided ==
    /\ \A r, s \in ioa.routes : r # s => r.entry.vector # s.entry.vector /\ r.gsi # s.gsi
    /\ \A r \in ioa.routes : IsDeviceVector(r.entry.vector) /\ r.entry.vector \in ioa.alloc.used
    /\ ioa.alloc.count = Cardinality(ioa.alloc.used) /\ InRange(ioa.alloc.next) /\ \A v \in ioa.alloc.used : InRange(v)
    /\ ioa.accepted => \A g \in Gsis :
          LET owners == {i \in 1..Len(ioa.controllers) : g - ioa.controllers[i].base \in 0..(ioa.controllers[i].pins - 1)}
          IN  /\ Cardinality(owners) <= 1
              /\ RouteGsi(ioa.controllers, g) = IF owners = {} THEN <<>> ELSE
                    LET c == ioa.controllers[CHOOSE i \in owners : TRUE] IN <<[id |-> c.id, pin |-> g - c.base]>>
    /\ ioa.overrides # Refused =>
          /\ \A i, j \in 1..Len(ioa.overrides) : i # j => /\ ioa.overrides[i].source # ioa.overrides[j].source
                                                         /\ ioa.overrides[i].gsi # ioa.overrides[j].gsi
          /\ \A irq \in LegacyIrqs : Find(ioa.overrides, irq) # <<>> =>
                ConfigForGsi(ioa.overrides, ResolveGsi(ioa.overrides, irq)) = ConfigForIrq(ioa.overrides, irq)
    /\ Cardinality(ioa.routes) = 1 => \A r \in ioa.routes :
          /\ FromBits(LowHalf(r.entry) \cup {b + 32 : b \in HighHalf(r.entry)}) = r.entry
          /\ \A b \in 0..63 :
                LET bits == ToBits(r.entry)
                    seen == IF b \in bits THEN bits \ {b} ELSE bits \cup {b}
                IN  WritableMatch(r.entry, FromBits(seen)) <=> (b \in {12, 14} \/ b \in 17..55)
=============================================================================
