----------------------------- MODULE MCLibrary ------------------------------
(* Programs, codecs, parsers and data structures, each on its own small      *)
(* instance: `part` is the component that runs, the others rest.             *)
EXTENDS TerminalApp, Pci, WireFormats, AcpiPlatform, AsyncExec, TLC
VARIABLE part

MCSnake == <<<<2, 1>>, <<1, 1>>, <<0, 1>>>>
MCFallback == <<1, 1>>
MCDrawn == {<<3, 1>>, <<1, 0>>}
MCFuse == [small |-> 1, large |-> 2]
MCRadius == [small |-> 0, large |-> 1]
MCVisible == [small |-> [rows |-> 3, cols |-> 3], large |-> [rows |-> 2, cols |-> 2]]
Down(c) == [code |-> c, down |-> TRUE]
MCStrokes == {Down(c) : c \in {"a", "sp", "semi", "quote", "shift", "caps", "ext", "up", "enter", "bs", "esc"}}
             \cup {[code |-> "a", down |-> FALSE], [code |-> "shift", down |-> FALSE]}
MCStartLines == {<<>>, <<"a">>, <<"a", "sp", "a">>, <<"semi", "a", "sp", "quote", "a", "sp">>}
MCCommands == (<<"a">> :> "file") @@ (<<"a", "a">> :> "game") @@ (<<"A">> :> "shutdown")
MCRt(id, lo, hi) == [id |-> id, segment |-> 0, start |-> lo, end |-> hi]
MCFn(b, d, br) == [address |-> <<0, b, d>>, bridge |-> br, present |-> TRUE]
MCAp(root, class, base, len) == [root |-> root, class |-> class, base |-> base, len |-> len, cpu |-> base + 32]
MCReg(f, g, class, at, len) == [owner |-> f, register |-> g, class |-> class, assigned |-> at # <<>>,
                                base |-> IF at = <<>> THEN 0 ELSE at[1], len |-> len, fixed |-> at = <<4>>]
MCScan(roots, fns) == [roots |-> roots, functions |-> fns]
MCFlat == {MCFn(0, 0, <<>>), MCFn(0, 1, <<1, 1>>), MCFn(1, 0, <<>>), MCFn(1, 1, <<>>)}
MCDeep == {MCFn(0, 0, <<>>), MCFn(0, 1, <<1, 3>>), MCFn(1, 0, <<2, 2>>), MCFn(2, 0, <<>>)}
MCScans ==
    {MCScan({MCRt(1, 0, 3)}, f) : f \in
        {MCDeep, MCFlat, MCDeep \cup {MCFn(2, 0, <<3, 3>>)}, MCDeep \cup {[MCFn(3, 0, <<>>) EXCEPT !.present = FALSE]},
         {MCFn(1, 0, <<>>)}, {MCFn(5, 0, <<>>)}, {MCFn(0, 0, <<1, 0>>)}, {MCFn(0, 0, <<1, 2>>), MCFn(0, 1, <<2, 3>>)},
         {MCFn(0, 0, <<1, 2>>), MCFn(0, 1, <<1, 2>>)},
         {MCFn(0, 0, <<1, 3>>), MCFn(1, 0, <<2, 3>>), MCFn(2, 0, <<3, 3>>), MCFn(3, 0, <<>>)}}}
    \cup {MCScan(r, {MCFn(4, 0, <<>>), MCFn(0, 0, <<>>)}) : r \in
        {{MCRt(1, 0, 3), MCRt(2, 4, 4)}, {MCRt(0, 0, 3)}, {MCRt(1, 3, 0)},
         {MCRt(1, 0, 3), MCRt(1, 4, 5)}, {MCRt(1, 0, 3), MCRt(2, 3, 4)}}}
MCApertures ==
    {<<MCAp(1, "mem32", 0, 8)>>, <<MCAp(1, "mem32", 4, 4), MCAp(1, "mem32", 0, 4), MCAp(1, "prefetch", 0, 4)>>,
     <<MCAp(1, "mem32", 0, 8), MCAp(2, "mem32", 0, 4)>>, <<MCAp(1, "mem32", 0, 8), MCAp(1, "mem32", 4, 8)>>,
     <<MCAp(7, "mem32", 0, 8)>>, <<MCAp(1, "mem32", 8, 16)>>}
MCOptions(n) ==
    LET bar(at, len) == MCReg(n.address, <<"bar", 0>>, "mem32", at, len)
        window(at, len) == MCReg(n.address, <<"window", 1>>, "mem32", at, len)
    IN IF n.bridge = <<>> THEN {{}, {bar(<<>>, 2)}, {bar(<<0>>, 1)}, {bar(<<4>>, 2)}}
       ELSE {{bar(<<1>>, 1)}, {window(<<>>, 4), bar(<<>>, 1)}, {window(<<>>, 2)}, {window(<<0>>, 4)},
             {window(<<4>>, 2), bar(<<>>, 1)}}
MCResources(nodes) ==
    FoldLeft(LAMBDA S, n : {a \cup b : a \in S, b \in MCOptions(n)}, {{}}, nodes)
    \cup {{MCReg(<<0, 0, 0>>, <<"bar", 0>>, "mem32", at, 1) : at \in {<<>>, <<0>>}},
          {MCReg(<<0, 9, 0>>, <<"bar", 0>>, "mem32", <<>>, 1)},
          {MCReg(<<0, 0, 1>>, <<"window", 1>>, "mem32", <<>>, 1)}}
MCGranularity == [io |-> 1, mem32 |-> 2, prefetch |-> 2]
MCMem(len, wide) == [io |-> FALSE, is64 |-> wide, zero |-> FALSE, len |-> len]
MCDisk(bar, first, caps, bir, offset) ==
    [present |-> TRUE, nvme |-> TRUE, bar |-> bar, caps |-> caps, first |-> first, intx |-> TRUE,
     command |-> IF bar.is64 THEN {"memory"} ELSE {"memory", "master"},
     sixtable |-> [size |-> 3, bir |-> bir, offset |-> offset]]
MCList(p, q) == (64 :> <<"msi", p>>) @@ (68 :> <<"msix", q>>) @@ (72 :> <<"msi", 0>>) @@ (248 :> <<"msix", 0>>)
                @@ (66 :> <<"pm", 0>>)
MCPlain == MCDisk(MCMem(4, FALSE), 0, MCList(0, 0), 0, 0)
MCDisks ==
    {MCPlain, MCDisk(MCMem(4, TRUE), 64, MCList(68, 0), 0, 2), MCDisk(MCMem(4, TRUE), 64, MCList(68, 0), 1, 0),
     MCDisk(MCMem(1, FALSE), 0, MCList(0, 0), 0, 0), MCDisk(MCMem(4, FALSE), 32, MCList(0, 0), 0, 0),
     [MCPlain EXCEPT !.bar.io = TRUE], [MCPlain EXCEPT !.nvme = FALSE], [MCPlain EXCEPT !.bar.zero = TRUE],
     [MCPlain EXCEPT !.present = FALSE]}
    \cup {MCDisk(MCMem(4, FALSE), 64, MCList(l[1], l[2]), 0, l[3]) :
            l \in {<<68, 0, 3>>, <<68, 64, 0>>, <<68, 72, 0>>, <<248, 0, 0>>, <<66, 0, 0>>}}
MCBoards == {<<a, b, MCPlain>> : a, b \in MCDisks}
MCRec(base, seg, lo, hi) == [base |-> base, segment |-> seg, start |-> lo, end |-> hi, reserved |-> FALSE]
MCTable(rs) == [short |-> FALSE, signature |-> TRUE, odd |-> FALSE, checksum |-> TRUE, reserved |-> FALSE, records |-> rs]
MCTables ==
    {MCTable(rs) : rs \in
        {<<MCRec(64, 0, 1, 2), MCRec(0, 1, 0, 0)>>, <<MCRec(64, 0, 1, 2), MCRec(128, 0, 3, 3)>>,
         <<MCRec(64, 0, 1, 2), MCRec(160, 0, 2, 3)>>, <<MCRec(8, 0, 0, 0)>>, <<MCRec(0, 0, 2, 1)>>,
         <<MCRec(224, 0, 0, 1)>>, <<MCRec(64, 0, 1, 2), MCRec(96, 1, 0, 0)>>,
         <<MCRec(0, 0, 0, 0), MCRec(32, 0, 1, 1), MCRec(64, 0, 2, 2)>>, <<[MCRec(0, 0, 0, 0) EXCEPT !.reserved = TRUE]>>}}
    \cup {[MCTable(<<>>) EXCEPT !.short = TRUE], [MCTable(<<>>) EXCEPT !.signature = FALSE],
          [MCTable(<<>>) EXCEPT !.odd = TRUE], [MCTable(<<>>) EXCEPT !.checksum = FALSE],
          [MCTable(<<>>) EXCEPT !.reserved = TRUE]}
MCAccess == [segment : 0..1, bus : 1..3, device : 0..2, function : 0..2]
MCMarks == [k \in 1..16 |-> ((k * 5) % 7) + 1]
MCPattern(width, i) == FoldLeft(LAMBDA n, k : n * 8 + MCMarks[((i * 3 + k) % 16) + 1], 0, [k \in 1..width |-> k])
MCEnums(name) ==
    CASE name = "block_request" -> [op |-> Range(AsyncBlockOp)]
      [] name = "completion" -> [status |-> Range(AsyncBlockStatus), nvme_status |-> {0, 63}]
      [] name = "volume_request" -> [op |-> Range(VolumeOp), flags |-> {0, 3}]
      [] name = "hxfs_request" -> [version |-> {1, 2}, reserved0 |-> {0, 5}, reserved1 |-> {0, 7}, op |-> Range(HxfsOp),
                                   handle_kind |-> Range(HxfsHandleKind), rights |-> {0, 257, 511, 512},
                                   payload_len |-> {0, 83, 512, 513}]
      [] name = "hxfs_response" -> [version |-> {1, 2}, reserved0 |-> {0, 5}, reserved1 |-> {0, 7}, status |-> Range(HxfsStatus),
                                    handle_kind |-> Range(HxfsHandleKind), rights |-> {0, 257, 511, 512},
                                    payload_len |-> {0, 83, 512, 513}]
      [] name = "grant_request" -> [magic |-> {GrantRequestMagic}, version |-> {1}, opcode |-> {1}]
      [] name = "grant_reply" -> [magic |-> {GrantReplyMagic}, version |-> {1}, status |-> Range(GrantStatus)]
      [] name = "pci_message" -> [magic |-> {PciMagic}, version |-> {1}, opcode |-> Range(PciOpcode), status |-> Range(PciStatus)]
      [] name = "acpi_message" -> [magic |-> {AcpiMagic}, version |-> {1}, opcode |-> Range(AcpiOpcode),
                                   status |-> Range(AcpiStatus), detail |-> {0, 1, 2}]
      [] name = "archive_header" -> [magic |-> {ArchiveMagic}, version |-> {2}, header |-> {ArchiveHeaderTag}, zero |-> {0}]
      [] name = "table_entry" -> [flags |-> {0, 1, 2}]
      [] name = "mapping" -> [kind |-> {1, 2, 3}]
      [] name = "event_key" -> [kind |-> {0, 1}]
      [] OTHER -> [none |-> {0}]
MCRanges(name) ==
    LET t == FormatTable[name].w
    IN [x \in FieldsOf(t) |->
          IF x \in DOMAIN MCEnums(name) THEN MCEnums(name)[x]
          ELSE LET i == CHOOSE j \in DOMAIN t : t[j][1] = x IN {0, MCPattern(t[i][3], i)}]
\* Every field at its mark; then each field alone, and each pair of small ones, varied.
MCRecords(name) ==
    LET all == MCRanges(name)
        plain == [x \in DOMAIN all |-> IF x \in {"reserved0", "reserved1", "version", "flags", "detail"} /\ x \in DOMAIN MCEnums(name)
                                        THEN Min(all[x]) ELSE IF x = "rights" /\ x \in DOMAIN MCEnums(name) THEN 257
                                        ELSE IF x = "payload_len" THEN 83 ELSE Max(all[x])]
        coupled == IF name \in {"block_request", "volume_request"} THEN {"op", "lba", "start_block", "block_count"} \cap DOMAIN all
                   ELSE IF name = "grant_reply" THEN {"status", "key0", "key1", "key2", "key3"}
                   ELSE IF name = "acpi_message" THEN {"opcode", "detail"} ELSE {}
    IN UNION {{[plain EXCEPT ![x] = v] : v \in all[x]} : x \in DOMAIN all}
       \cup {[x \in DOMAIN all |-> IF x \in coupled THEN c[x] ELSE plain[x]] :
               c \in {g \in [coupled -> UNION {all[x] : x \in coupled}] : \A x \in coupled : g[x] \in all[x]}}
Sdt(sig, addr, n) == [signature |-> sig, listed |-> sig, revision |-> 1, address |-> addr, size |-> n, length |-> n,
                      bad |-> FALSE, sum |-> TRUE]
MCRsdp == [address |-> 2, revision |-> 2, sum |-> TRUE, longSum |-> TRUE]
MCNoFacs == [legacy |-> 0, extended |-> 0, signature |-> "FACS", length |-> 4, revision |-> 1]
MCFirm == [rsdp |-> MCRsdp, facs |-> [MCNoFacs EXCEPT !.extended = 14],
           tables |-> <<Sdt("DSDT", 8, 3), Sdt("SSDT", 0, 2), Sdt("SSDT", 6, 2)>>]
MCFirmwares ==
    {MCFirm, [MCFirm EXCEPT !.rsdp.revision = 0, !.facs = MCNoFacs], [MCFirm EXCEPT !.facs.legacy = 11],
     [MCFirm EXCEPT !.facs.legacy = 9], [MCFirm EXCEPT !.rsdp.revision = 1], [MCFirm EXCEPT !.rsdp.address = 0],
     [MCFirm EXCEPT !.facs.length = 3], [MCFirm EXCEPT !.tables[1].bad = TRUE], [MCFirm EXCEPT !.tables[1].sum = FALSE],
     [MCFirm EXCEPT !.tables[2].size = 3], [MCFirm EXCEPT !.tables = @ \o @], [MCFirm EXCEPT !.rsdp.address = 5],
     [MCFirm EXCEPT !.tables[3].signature = "FACS", !.tables[3].listed = "FACS"], [MCFirm EXCEPT !.tables = <<>>]}
MCOldEntry == [reserved |-> 0, address |-> 4, offset |-> 4, length |-> 2]
MCOld == [version |-> 1, header |-> 2, count |-> 2, total |-> 8, tables |-> <<MCOldEntry, [MCOldEntry EXCEPT !.offset = 6, !.address = 9]>>]
MCOldArchives ==
    {MCOld} \cup {[MCOld EXCEPT !.tables[1][f] = x] : f \in {"reserved", "address", "offset", "length"}, x \in {0, 1, 3, 5, 18}}
    \cup {[MCOld EXCEPT ![f] = x] : f \in {"header", "count", "total"}, x \in {0, 1, 3, 7, 9, 30}}
    \cup {[MCOld EXCEPT !.count = 3, !.total = 11, !.tables = <<[MCOldEntry EXCEPT !.offset = 5], [MCOldEntry EXCEPT !.offset = 7],
                                                             [MCOldEntry EXCEPT !.offset = 9]>>]}
MCAsked == {<<a, n>> : a \in 1..19, n \in 0..4}
MCIoGrants == <<[base |-> 4, length |-> 4, read |-> TRUE, write |-> FALSE], [base |-> 8, length |-> 2, read |-> TRUE, write |-> TRUE]>>
MCMemGrants == <<[base |-> 0, length |-> 4, read |-> TRUE, write |-> TRUE]>>
MCPciGrants == <<[function |-> "f", read |-> TRUE, write |-> FALSE]>>
MCPower == [reset |-> TRUE, off |-> FALSE]
MCGood == [version |-> TRUE, reserved |-> 0, handle |-> "broker", rights |-> {"read", "write"}, function |-> "f", stray |-> FALSE]
MCRequests ==
    {MCGood @@ [opcode |-> op, width |-> w, address |-> a, value |-> v] :
        op \in {"SystemIoRead", "SystemIoWrite", "PciRead", "PciWrite", "MmioRead", "MmioWrite", "InstallInterrupt", "Reset", "PowerOff", "?"},
        w \in {0, 1, 2, 3, 4}, a \in 0..12, v \in {0, 1, 3}}
    \cup {[MCGood EXCEPT ![f] = x] @@ [opcode |-> op, width |-> 2, address |-> 8, value |-> 0] :
        op \in {"SystemIoRead", "SystemIoWrite", "PciRead"},
        f \in {"handle"}, x \in {"none", "stale", "other"}}
    \cup {[MCGood EXCEPT !.rights = x] @@ [opcode |-> op, width |-> 2, address |-> 8, value |-> 0] :
        op \in {"SystemIoRead", "SystemIoWrite", "Reset"}, x \in {{}, {"read"}, {"write"}}}
    \cup {[MCGood EXCEPT !.function = x, !.stray = y] @@ [opcode |-> "PciRead", width |-> 2, address |-> 2, value |-> 0] :
        x \in {"f", "g"}, y \in BOOLEAN}
MCOver(src, gsi, pol, trg) == [kind |-> "override", short |-> FALSE, bus |-> 0, source |-> src, gsi |-> gsi, polarity |-> pol, trigger |-> trg]
MCMadtTables ==
    {<<>>, <<MCOver(0, 2, 0, 0), [kind |-> "other"], MCOver(9, 9, 3, 3)>>, <<MCOver(0, 2, 2, 0)>>, <<MCOver(0, 2, 0, 0), MCOver(1, 2, 0, 0)>>,
     <<MCOver(0, 2, 0, 0), MCOver(0, 3, 0, 0)>>, <<[MCOver(0, 2, 0, 0) EXCEPT !.short = TRUE]>>, <<[MCOver(0, 2, 0, 0) EXCEPT !.bus = 1]>>,
     <<[kind |-> "torn"]>>, <<MCOver(0, 2, 1, 1), MCOver(1, 3, 1, 3), MCOver(2, 4, 0, 0)>>}
MCApic(id, base, pins) == [id |-> id, base |-> base, pins |-> pins]
MCControllerSets ==
    {<<MCApic(0, 0, 4), MCApic(1, 8, 4)>>, <<MCApic(0, 8, 4), MCApic(1, 0, 8)>>, <<MCApic(0, 0, 4), MCApic(0, 4, 4)>>,
     <<MCApic(0, 0, 4), MCApic(1, 3, 4)>>, <<MCApic(0, 0, 0), MCApic(1, 3, 4)>>, <<MCApic(0, 9, 8)>>}

Init ==
    /\ part \in {"snake", "screen", "shell", "pciplan", "lease", "pciboot",
                 "pciconfig", "wire", "acpi", "calls", "ioapic", "async"}
    /\ IF part = "snake" THEN SnakeInit ELSE sn = "at rest"
    /\ IF part = "screen" THEN ScrInit ELSE scr = "at rest"
    /\ IF part = "shell" THEN KsInit ELSE ks = "at rest"
    /\ IF part = "pciplan" THEN PciInit ELSE pci = "at rest"
    /\ IF part = "lease" THEN LeaseInit ELSE lease = "at rest"
    /\ IF part = "pciboot" THEN PbInit ELSE pb = "at rest"
    /\ IF part = "pciconfig" THEN PcfInit ELSE pcf = "at rest"
    /\ IF part = "wire" THEN WireInit ELSE wire = "at rest"
    /\ IF part = "acpi" THEN ArcInit ELSE arc = "at rest"
    /\ IF part = "calls" THEN AclInit ELSE acl = "at rest"
    /\ IF part = "ioapic" THEN IoaInit ELSE ioa = "at rest"
    /\ IF part = "async" THEN ExeInit ELSE exe = "at rest"

Next ==
    \/ part = "snake" /\ SnakeNext
       /\ UNCHANGED <<part, scrVars, ksVars, pciVars, leaseVars, pbVars,
                      pcfVars, wireVars, arcVars, aclVars, ioaVars, exe>>
    \/ part = "screen" /\ ScrNext
       /\ UNCHANGED <<part, snVars, ksVars, pciVars, leaseVars, pbVars,
                      pcfVars, wireVars, arcVars, aclVars, ioaVars, exe>>
    \/ part = "shell" /\ KsNext
       /\ UNCHANGED <<part, snVars, scrVars, pciVars, leaseVars, pbVars,
                      pcfVars, wireVars, arcVars, aclVars, ioaVars, exe>>
    \/ part = "pciplan" /\ PciNext
       /\ UNCHANGED <<part, snVars, scrVars, ksVars, leaseVars, pbVars,
                      pcfVars, wireVars, arcVars, aclVars, ioaVars, exe>>
    \/ part = "lease" /\ LeaseNext
       /\ UNCHANGED <<part, snVars, scrVars, ksVars, pciVars, pbVars,
                      pcfVars, wireVars, arcVars, aclVars, ioaVars, exe>>
    \/ part = "pciboot" /\ PbNext
       /\ UNCHANGED <<part, snVars, scrVars, ksVars, pciVars, leaseVars,
                      pcfVars, wireVars, arcVars, aclVars, ioaVars, exe>>
    \/ part = "pciconfig" /\ PcfNext
       /\ UNCHANGED <<part, snVars, scrVars, ksVars, pciVars, leaseVars,
                      pbVars, wireVars, arcVars, aclVars, ioaVars, exe>>
    \/ part = "wire" /\ WireNext
       /\ UNCHANGED <<part, snVars, scrVars, ksVars, pciVars, leaseVars,
                      pbVars, pcfVars, arcVars, aclVars, ioaVars, exe>>
    \/ part = "acpi" /\ ArcNext
       /\ UNCHANGED <<part, snVars, scrVars, ksVars, pciVars, leaseVars,
                      pbVars, pcfVars, wireVars, aclVars, ioaVars, exe>>
    \/ part = "calls" /\ AclNext
       /\ UNCHANGED <<part, snVars, scrVars, ksVars, pciVars, leaseVars,
                      pbVars, pcfVars, wireVars, arcVars, ioaVars, exe>>
    \/ part = "ioapic" /\ IoaNext
       /\ UNCHANGED <<part, snVars, scrVars, ksVars, pciVars, leaseVars,
                      pbVars, pcfVars, wireVars, arcVars, aclVars, exe>>
    \/ part = "async" /\ ExeNext
       /\ UNCHANGED <<part, snVars, scrVars, ksVars, pciVars, leaseVars,
                      pbVars, pcfVars, wireVars, arcVars, aclVars, ioaVars>>

Spec == Init /\ [][Next]_<<part, snVars, scrVars, ksVars, pciVars, leaseVars,
        pbVars, pcfVars, wireVars, arcVars, aclVars, ioaVars, exe>>

-----------------------------------------------------------------------------
(* Properties *)

\* What the user sees is what the program holds: the terminal's incremental
\* rendering equals a full one, the line after the prompt is the line that
\* Enter runs, and the snake on the board is one connected snake.
ScreenTrue ==
    /\ part = "snake" => SnakeWhole
    /\ part = "screen" => ScreenShowsBuffer
    /\ part = "shell" => LineIsWhatIsShown

\* A PCI function decodes only addresses that are its own: the resource plan
\* is disjoint and routed, a configuration access touches the registers it
\* names, sizing and interrupt set-up never leave a device half configured,
\* and a lease being moved or removed leaves no valid resource.
DevicesPlanned ==
    /\ part = "pciplan" => PlanSound
    /\ part = "lease" => LeaseSound
    /\ part = "pciboot" => DevicesSafe
    /\ part = "pciconfig" => AccessesExact
    /\ part = "ioapic" => RoutesDecided

\* What is written is what is read: a record, a table or a tree that one side
\* encodes decodes to the same value on the other, and what a reader must
\* refuse it refuses.
CodecsExact ==
    /\ part = "wire" => RecordsArrive
    /\ part = "acpi" => TranslationTrue
    /\ part = "calls" => BrokerExact

\* The structures programs are built on keep their promises: a woken task is
\* polled again, and a bounded store answers as the unbounded history cut to
\* its bound would.
RuntimeSound == part = "async" => ExecutorSound
=============================================================================
