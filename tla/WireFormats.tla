---------------------------- MODULE WireFormats ----------------------------
(***************************************************************************)
(* The fixed-size records that cross a channel, a port or a boot VMO       *)
(* (huesos-abi/src): one table of <<field, offset, width>> for the writer  *)
(* of each record, one for its reader, and the reader's checks.            *)
(*                                                                         *)
(* A byte has Base values, so that an 8-byte number fits TLC's integers.   *)
(* On its way a record may arrive with another length or with one byte     *)
(* changed: there is no checksum, so what the reader promises is only that *)
(* nothing but the field holding that byte is affected.                    *)
(***************************************************************************)
EXTENDS Checks

CONSTANTS Base,           \* values of a byte
          Samples(_)      \* Samples(format): the records a writer sends

VARIABLE wire
wireVars == <<wire>>

Top(w) == Base^w
Minus(n) == Top(4) - n                      \* an i32 in two's complement
Digit(v, k) == (v \div Base^(k - 1)) % Base
Known(enum, raw) == \E name \in DOMAIN enum : enum[name] = raw

AsyncBlockOp == [Read |-> 0, Write |-> 1, Flush |-> 2, Info |-> 3]
AsyncBlockStatus == [Ok |-> 0, InvalidArgs |-> 1, IoError |-> 2, Timeout |-> 3, NoResources |-> 4]
VolumeOp == [GetInfo |-> 0, OpenBlockRange |-> 1, OpenFsCandidate |-> 2]
HxfsHandleKind == [None |-> 0, Volume |-> 1, Directory |-> 2, File |-> 3, Snapshot |-> 4, BlobView |-> 5]
HxfsOp == [GetInfo |-> 0, OpenRoot |-> 1, OpenPath |-> 2, CreateFile |-> 3, Mkdir |-> 4, Symlink |-> 5, Rename |-> 6,
           Unlink |-> 7, Truncate |-> 8, WriteAt |-> 9, Fsync |-> 10, Checkpoint |-> 11, CreateSnapshot |-> 12,
           DeleteSnapshot |-> 13, ReadAt |-> 14, ListDirectory |-> 15, OpenBlob |-> 16, CreateBlob |-> 17, GcBlobs |-> 18]
HxfsStatus == [Ok |-> 0, Invalid |-> 1, NotFound |-> 2, AlreadyExists |-> 3, WrongType |-> 4, AccessDenied |-> 5,
               NeedsRecovery |-> 6, IoError |-> 7, NoSpace |-> 8, Unsupported |-> 9, EncryptedUnavailable |-> 10,
               CorruptObject |-> 11, RefcountZero |-> 12]
HxfsRights == 2^9            \* one past rights::ALL, nine adjacent bits
GrantStatus == [Granted |-> 0, NotFound |-> 1, StaleGeneration |-> 2, Denied |-> 3]
PciOpcode == [Hello |-> 1, Ready |-> 2, Heartbeat |-> 3, RootTableAccepted |-> 4, RootTableRejected |-> 5]
PciStatus == [Ok |-> 0, NoRootsFailClosed |-> 1, InvalidMessage |-> Minus(1), InvalidRootTable |-> Minus(2)]
AcpiOpcode == [Hello |-> 1, Ready |-> 2, Heartbeat |-> 3, Failed |-> 4]
AcpiStatus == [Ok |-> 0, ArchiveBrokerReady |-> 1, InvalidMessage |-> Minus(1), InvalidArchive |-> Minus(2),
               BrokerDenied |-> Minus(3), MissingCapability |-> Minus(4)]
HelloFlags == 2              \* one past HELLO_FLAGS_V1, a single bit
MappingKind == [Rsdp |-> 1, Table |-> 2]
TableFlags == 2              \* one past TABLE_FLAGS_V2

-----------------------------------------------------------------------------
\* Layouts: what the writer puts where, and what the reader takes from where.

BlockRequestWriter ==
    <<<<"op", 0, 1>>, <<"request_id", 4, 8>>, <<"namespace_id", 12, 4>>, <<"lba", 16, 8>>, <<"block_count", 24, 4>>,
      <<"buffer_id", 28, 4>>>>
BlockRequestReader ==
    <<<<"op", 0, 1>>, <<"request_id", 4, 8>>, <<"namespace_id", 12, 4>>, <<"lba", 16, 8>>, <<"block_count", 24, 4>>,
      <<"buffer_id", 28, 4>>>>
BlockRequestValid(r) ==
    /\ Known(AsyncBlockOp, r.op)
    /\ r.op \in {AsyncBlockOp.Read, AsyncBlockOp.Write} => r.block_count # 0
    /\ r.op \in {AsyncBlockOp.Flush, AsyncBlockOp.Info} => r.block_count = 0 /\ r.lba = 0

BlockInfoWriter == <<<<"namespace_id", 0, 4>>, <<"block_size", 4, 4>>, <<"block_count", 8, 8>>, <<"max_request_bytes", 16, 4>>>>
BlockInfoReader == <<<<"namespace_id", 0, 4>>, <<"block_size", 4, 4>>, <<"block_count", 8, 8>>, <<"max_request_bytes", 16, 4>>>>

\* A completion is four words of a port packet; the status of the drive must
\* still fit 16 bits when read back.
CompletionWriter == <<<<"request_id", 0, 8>>, <<"status", 8, 8>>, <<"bytes", 16, 8>>, <<"nvme_status", 24, 8>>>>
CompletionReader == <<<<"request_id", 0, 8>>, <<"status", 8, 8>>, <<"bytes", 16, 8>>, <<"nvme_status", 24, 8>>>>
CompletionValid(r) == Known(AsyncBlockStatus, r.status) /\ r.nvme_status < Top(2)

VolumeRequestWriter ==
    <<<<"op", 0, 1>>, <<"flags", 4, 4>>, <<"request_id", 8, 8>>, <<"start_block", 16, 8>>, <<"block_count", 24, 8>>>>
VolumeRequestReader ==
    <<<<"op", 0, 1>>, <<"flags", 4, 4>>, <<"request_id", 8, 8>>, <<"start_block", 16, 8>>, <<"block_count", 24, 8>>>>
VolumeRequestValid(r) ==
    /\ Known(VolumeOp, r.op) /\ r.flags = 0
    /\ IF r.op = VolumeOp.OpenBlockRange THEN r.block_count # 0 ELSE r.start_block = 0 /\ r.block_count = 0

VolumeInfoWriter ==
    <<<<"volume_id", 0, 8>>, <<"kind", 8, 4>>, <<"flags", 12, 4>>, <<"block_size", 16, 4>>, <<"reserved0", 20, 4>>,
      <<"block_count", 24, 8>>, <<"max_request_bytes", 32, 4>>>>
VolumeInfoReader ==
    <<<<"volume_id", 0, 8>>, <<"kind", 8, 4>>, <<"flags", 12, 4>>, <<"block_size", 16, 4>>, <<"reserved0", 20, 4>>,
      <<"block_count", 24, 8>>, <<"max_request_bytes", 32, 4>>>>

HxfsRequestWriter ==
    <<<<"version", 0, 2>>, <<"reserved0", 2, 2>>, <<"op", 4, 4>>, <<"flags", 8, 4>>, <<"request_id", 16, 8>>,
      <<"handle_id", 24, 8>>, <<"handle_kind", 32, 4>>, <<"rights", 40, 8>>, <<"arg0", 48, 8>>, <<"arg1", 56, 8>>,
      <<"payload_len", 12, 4>>, <<"reserved1", 36, 4>>>>
HxfsRequestReaderSwapped ==
    <<<<"version", 0, 2>>, <<"reserved0", 2, 2>>, <<"op", 4, 4>>, <<"flags", 8, 4>>, <<"payload_len", 36, 4>>,
      <<"request_id", 16, 8>>, <<"handle_id", 24, 8>>, <<"handle_kind", 32, 4>>, <<"reserved1", 12, 4>>, <<"rights", 40, 8>>,
      <<"arg0", 48, 8>>, <<"arg1", 56, 8>>>>
HxfsRequestReader ==
    <<<<"version", 0, 2>>, <<"reserved0", 2, 2>>, <<"op", 4, 4>>, <<"flags", 8, 4>>, <<"payload_len", 12, 4>>,
      <<"request_id", 16, 8>>, <<"handle_id", 24, 8>>, <<"handle_kind", 32, 4>>, <<"reserved1", 36, 4>>, <<"rights", 40, 8>>,
      <<"arg0", 48, 8>>, <<"arg1", 56, 8>>>>
HxfsResponseWriter ==
    <<<<"version", 0, 2>>, <<"reserved0", 2, 2>>, <<"status", 4, 4>>, <<"flags", 8, 4>>, <<"payload_len", 12, 4>>,
      <<"request_id", 16, 8>>, <<"handle_id", 24, 8>>, <<"handle_kind", 32, 4>>, <<"reserved1", 36, 4>>, <<"rights", 40, 8>>,
      <<"object_id", 48, 8>>, <<"value", 56, 8>>>>
HxfsResponseReader ==
    <<<<"version", 0, 2>>, <<"reserved0", 2, 2>>, <<"status", 4, 4>>, <<"flags", 8, 4>>, <<"payload_len", 12, 4>>,
      <<"request_id", 16, 8>>, <<"handle_id", 24, 8>>, <<"handle_kind", 32, 4>>, <<"reserved1", 36, 4>>, <<"rights", 40, 8>>,
      <<"object_id", 48, 8>>, <<"value", 56, 8>>>>
HxfsMaxInline == Top(3)      \* HXFS_MAX_INLINE_WRITE_BYTES
HxfsHeaderValid(r) ==
    /\ Known(HxfsHandleKind, r.handle_kind) /\ r.version = 1 /\ r.reserved0 = 0 /\ r.reserved1 = 0
    /\ r.rights < HxfsRights /\ r.payload_len <= HxfsMaxInline
HxfsRequestValid(r) == Known(HxfsOp, r.op) /\ HxfsHeaderValid(r)
HxfsResponseValid(r) == Known(HxfsStatus, r.status) /\ HxfsHeaderValid(r)

GrantRequestWriter == <<<<"magic", 0, 4>>, <<"version", 4, 2>>, <<"opcode", 6, 2>>, <<"generation", 8, 8>>>>
GrantRequestReader == <<<<"magic", 0, 4>>, <<"version", 4, 2>>, <<"opcode", 6, 2>>, <<"generation", 8, 8>>>>
GrantRequestMagic == 19
GrantRequestValid(r) == r.magic = GrantRequestMagic /\ r.version = 1 /\ r.opcode = 1 /\ r.generation # 0

\* The 32 bytes of the key are four words.
GrantReplyWriter ==
    <<<<"magic", 0, 4>>, <<"version", 4, 2>>, <<"status", 6, 2>>, <<"generation", 8, 8>>, <<"key0", 16, 8>>,
      <<"key1", 24, 8>>, <<"key2", 32, 8>>, <<"key3", 40, 8>>>>
GrantReplyReader ==
    <<<<"magic", 0, 4>>, <<"version", 4, 2>>, <<"status", 6, 2>>, <<"generation", 8, 8>>, <<"key0", 16, 8>>,
      <<"key1", 24, 8>>, <<"key2", 32, 8>>, <<"key3", 40, 8>>>>
GrantReplyMagic == 29
GrantReplyValid(r) ==
    /\ r.magic = GrantReplyMagic /\ r.version = 1 /\ Known(GrantStatus, r.status) /\ r.generation # 0
    /\ r.status # GrantStatus.Granted => r.key0 = 0 /\ r.key1 = 0 /\ r.key2 = 0 /\ r.key3 = 0

PciMessageWriter ==
    <<<<"magic", 0, 4>>, <<"version", 4, 2>>, <<"opcode", 6, 2>>, <<"generation", 8, 8>>, <<"status", 16, 4>>, <<"detail", 20, 4>>>>
PciMessageReader ==
    <<<<"magic", 0, 4>>, <<"version", 4, 2>>, <<"opcode", 6, 2>>, <<"generation", 8, 8>>, <<"status", 16, 4>>, <<"detail", 20, 4>>>>
PciMagic == 37
PciMessageValid(r) ==
    /\ r.magic = PciMagic /\ r.version = 1 /\ Known(PciOpcode, r.opcode) /\ Known(PciStatus, r.status) /\ r.generation # 0

AcpiMessageWriter ==
    <<<<"magic", 0, 4>>, <<"version", 4, 2>>, <<"opcode", 6, 2>>, <<"generation", 8, 8>>, <<"status", 16, 4>>, <<"detail", 20, 4>>>>
AcpiMessageReader ==
    <<<<"magic", 0, 4>>, <<"version", 4, 2>>, <<"opcode", 6, 2>>, <<"generation", 8, 8>>, <<"status", 16, 4>>, <<"detail", 20, 4>>>>
AcpiMagic == 41
AcpiMessageValid(r) ==
    /\ r.magic = AcpiMagic /\ r.version = 1 /\ Known(AcpiOpcode, r.opcode) /\ Known(AcpiStatus, r.status) /\ r.generation # 0
    /\ r.opcode = AcpiOpcode.Hello => r.detail < HelloFlags

ArchiveHeaderBytes == 96
ArchiveHeaderTag == 6        \* HEADER_BYTES as the header carries it
ArchiveHeaderWriter ==
    <<<<"magic", 0, 8>>, <<"version", 8, 2>>, <<"header", 10, 2>>, <<"zero", 12, 4>>, <<"total_size", 16, 8>>,
      <<"snapshot", 24, 8>>, <<"table_count", 32, 4>>, <<"mapping_count", 36, 4>>, <<"tables", 40, 8>>, <<"mappings", 48, 8>>,
      <<"payload", 56, 8>>, <<"rsdp", 64, 8>>, <<"rsdp_offset", 72, 8>>, <<"rsdp_length", 80, 4>>, <<"rsdp_mapping", 84, 4>>,
      <<"revision", 88, 1>>>>
ArchiveHeaderReader ==
    <<<<"magic", 0, 8>>, <<"version", 8, 2>>, <<"header", 10, 2>>, <<"zero", 12, 4>>, <<"total_size", 16, 8>>,
      <<"snapshot", 24, 8>>, <<"table_count", 32, 4>>, <<"mapping_count", 36, 4>>, <<"tables", 40, 8>>, <<"mappings", 48, 8>>,
      <<"payload", 56, 8>>, <<"rsdp", 64, 8>>, <<"rsdp_offset", 72, 8>>, <<"rsdp_length", 80, 4>>, <<"rsdp_mapping", 84, 4>>,
      <<"revision", 88, 1>>, <<"tail", 89, 7>>>>
ArchiveMagic == 43
ArchiveHeaderValid(r) ==
    r.magic = ArchiveMagic /\ r.version = 2 /\ r.header = ArchiveHeaderTag /\ r.zero = 0 /\ r.tail = 0

TableEntryWriter ==
    <<<<"signature", 0, 4>>, <<"revision", 4, 1>>, <<"flags", 6, 2>>, <<"physical", 8, 8>>, <<"offset", 16, 8>>,
      <<"length", 24, 4>>, <<"instance", 28, 4>>, <<"mapping", 32, 4>>>>
TableEntryReader ==
    <<<<"pad", 5, 1>>, <<"tail", 38, 2>>, <<"signature", 0, 4>>, <<"revision", 4, 1>>, <<"flags", 6, 2>>, <<"physical", 8, 8>>,
      <<"offset", 16, 8>>, <<"length", 24, 4>>, <<"instance", 28, 4>>, <<"mapping", 32, 4>>>>
TableEntryValid(r) == r.pad = 0 /\ r.tail = 0 /\ r.flags < TableFlags

MappingWriter == <<<<"physical", 0, 8>>, <<"offset", 8, 8>>, <<"length", 16, 8>>, <<"kind", 24, 1>>>>
MappingReader == <<<<"tail", 25, 7>>, <<"physical", 0, 8>>, <<"offset", 8, 8>>, <<"length", 16, 8>>, <<"kind", 24, 1>>>>
MappingValid(r) == r.tail = 0 /\ Known(MappingKind, r.kind)

NvmeFunctionWriter ==
    <<<<"bus", 0, 1>>, <<"device", 1, 1>>, <<"function", 2, 1>>, <<"pin", 3, 1>>, <<"vendor", 4, 2>>, <<"device_id", 6, 2>>,
      <<"bar0_base", 8, 8>>, <<"bar0_len", 16, 8>>, <<"irq_line", 24, 4>>, <<"flags", 28, 4>>, <<"msi_count", 32, 2>>,
      <<"msix_size", 34, 2>>, <<"msix_bir", 36, 1>>, <<"reserved0", 37, 1>>, <<"irq_count", 38, 2>>, <<"msix_offset", 40, 4>>>>
NvmeFunctionReader ==
    <<<<"bus", 0, 1>>, <<"device", 1, 1>>, <<"function", 2, 1>>, <<"pin", 3, 1>>, <<"vendor", 4, 2>>, <<"device_id", 6, 2>>,
      <<"bar0_base", 8, 8>>, <<"bar0_len", 16, 8>>, <<"irq_line", 24, 4>>, <<"flags", 28, 4>>, <<"msi_count", 32, 2>>,
      <<"msix_size", 34, 2>>, <<"msix_bir", 36, 1>>, <<"reserved0", 37, 1>>, <<"irq_count", 38, 2>>, <<"msix_offset", 40, 4>>>>

\* The Generic Address Structure is only read; its writer is the firmware.
GasWriter == <<<<"space", 0, 1>>, <<"bit_width", 1, 1>>, <<"bit_offset", 2, 1>>, <<"access", 3, 1>>, <<"address", 4, 8>>>>
GasReader == <<<<"address", 4, 8>>, <<"space", 0, 1>>, <<"bit_width", 1, 1>>, <<"bit_offset", 2, 1>>, <<"access", 3, 1>>>>

\* An interrupt key is one word: the namespace above, the number below.
EventKeyWriter == <<<<"number", 0, 4>>, <<"kind", 4, 4>>>>
EventKeyReader == <<<<"kind", 4, 4>>, <<"number", 0, 4>>>>
InterruptEventKind == [LegacyOrVector |-> 0, Gsi |-> 1]
EventKeyValid(r) == Known(InterruptEventKind, r.kind)

\* A syscall result is the sign-extended code of an error, or the value: the
\* upper half of the word says which.
ErrorCode == [InvalidArgs |-> 10, BadHandle |-> 11, WrongType |-> 12, AccessDenied |-> 13, NoMemory |-> 14, Busy |-> 15,
              ShouldWait |-> 16, TimedOut |-> 20, NotFound |-> 17, NoFramebuffer |-> 18, NotSupported |-> 19,
              Internal |-> 21, PeerClosed |-> 22]
ResultWord(r) == IF r.error = 0 THEN r.value ELSE Top(8) - r.error
ResultOf(word) ==
    IF word < Top(8) \div 2 THEN [error |-> 0, value |-> word]
    ELSE [error |-> IF Known(ErrorCode, Top(8) - word) THEN Top(8) - word ELSE ErrorCode.InvalidArgs, value |-> 0]

Always(r) == TRUE

\* size; whether a longer message is refused; and whether the writer itself
\* refuses what the reader would.
FormatTable ==
    [block_request   |-> [size |-> 32, exact |-> TRUE, strict |-> FALSE, w |-> BlockRequestWriter, r |-> BlockRequestReader],
     block_info      |-> [size |-> 24, exact |-> TRUE, strict |-> FALSE, w |-> BlockInfoWriter, r |-> BlockInfoReader],
     completion      |-> [size |-> 32, exact |-> TRUE, strict |-> FALSE, w |-> CompletionWriter, r |-> CompletionReader],
     volume_request  |-> [size |-> 40, exact |-> TRUE, strict |-> FALSE, w |-> VolumeRequestWriter, r |-> VolumeRequestReader],
     volume_info     |-> [size |-> 40, exact |-> TRUE, strict |-> FALSE, w |-> VolumeInfoWriter, r |-> VolumeInfoReader],
     hxfs_request    |-> [size |-> 64, exact |-> TRUE, strict |-> FALSE, w |-> HxfsRequestWriter, r |-> HxfsRequestReader],
     hxfs_response   |-> [size |-> 64, exact |-> TRUE, strict |-> FALSE, w |-> HxfsResponseWriter, r |-> HxfsResponseReader],
     grant_request   |-> [size |-> 16, exact |-> TRUE, strict |-> FALSE, w |-> GrantRequestWriter, r |-> GrantRequestReader],
     grant_reply     |-> [size |-> 48, exact |-> TRUE, strict |-> FALSE, w |-> GrantReplyWriter, r |-> GrantReplyReader],
     pci_message     |-> [size |-> 24, exact |-> TRUE, strict |-> TRUE, w |-> PciMessageWriter, r |-> PciMessageReader],
     acpi_message    |-> [size |-> 24, exact |-> TRUE, strict |-> TRUE, w |-> AcpiMessageWriter, r |-> AcpiMessageReader],
     archive_header  |-> [size |-> ArchiveHeaderBytes, exact |-> TRUE, strict |-> FALSE, w |-> ArchiveHeaderWriter,
                          r |-> ArchiveHeaderReader],
     table_entry     |-> [size |-> 40, exact |-> TRUE, strict |-> TRUE, w |-> TableEntryWriter, r |-> TableEntryReader],
     mapping         |-> [size |-> 32, exact |-> TRUE, strict |-> TRUE, w |-> MappingWriter, r |-> MappingReader],
     nvme_function   |-> [size |-> 64, exact |-> FALSE, strict |-> FALSE, w |-> NvmeFunctionWriter, r |-> NvmeFunctionReader],
     gas             |-> [size |-> 12, exact |-> FALSE, strict |-> FALSE, w |-> GasWriter, r |-> GasReader],
     event_key       |-> [size |-> 8, exact |-> TRUE, strict |-> FALSE, w |-> EventKeyWriter, r |-> EventKeyReader]]
FormatNames == DOMAIN FormatTable

Valid(name, r) ==
    CASE name = "block_request" -> BlockRequestValid(r)
      [] name = "completion" -> CompletionValid(r)
      [] name = "volume_request" -> VolumeRequestValid(r)
      [] name = "hxfs_request" -> HxfsRequestValid(r)
      [] name = "hxfs_response" -> HxfsResponseValid(r)
      [] name = "grant_request" -> GrantRequestValid(r)
      [] name = "grant_reply" -> GrantReplyValid(r)
      [] name = "pci_message" -> PciMessageValid(r)
      [] name = "acpi_message" -> AcpiMessageValid(r)
      [] name = "archive_header" -> ArchiveHeaderValid(r)
      [] name = "table_entry" -> TableEntryValid(r)
      [] name = "mapping" -> MappingValid(r)
      [] name = "event_key" -> EventKeyValid(r)
      [] OTHER -> Always(r)

FieldsOf(table) == {f[1] : f \in Range(table)}
Covers(f, i) == i > f[2] /\ i <= f[2] + f[3]

\* The fields are written one after the other over zeroes.
Encode(f, r) ==
    [i \in 1..f.size |->
        LET writes == {j \in DOMAIN f.w : Covers(f.w[j], i)}
        IN IF writes = {} THEN 0 ELSE LET x == f.w[Max(writes)] IN Digit(r[x[1]], i - x[2])]

ReadNumber(bytes, f) ==
    LET sum[k \in 0..f[3]] == IF k = 0 THEN 0 ELSE sum[k - 1] + bytes[f[2] + k] * Base^(k - 1) IN sum[f[3]]

Decode(name, bytes) ==
    LET f == FormatTable[name]
        bad == Len(bytes) < f.size \/ (f.exact /\ Len(bytes) # f.size)
        r == [x \in FieldsOf(f.r) |-> ReadNumber(bytes, CHOOSE e \in Range(f.r) : e[1] = x)]
    IN IF bad \/ ~Valid(name, r) THEN <<>> ELSE <<[x \in FieldsOf(f.w) |-> r[x]]>>

-----------------------------------------------------------------------------

WireInit == wire = [phase |-> "idle", name |-> "gas", value |-> <<>>, bytes |-> <<>>, at |-> 0, got |-> <<>>]

\* encode, by whoever sends the record; a strict writer refuses a record its
\* reader would refuse.
SendRecord ==
    /\ wire.phase = "idle"
    /\ \E name \in FormatNames : \E r \in Samples(name) :
         /\ FormatTable[name].strict => Valid(name, r @@ [pad |-> 0, tail |-> 0])
         /\ wire' = [wire EXCEPT !.phase = "sent", !.name = name, !.value = <<r>>, !.bytes = Encode(FormatTable[name], r)]

\* The message arrives one byte short or one byte long.
Resize ==
    /\ wire.phase = "sent" /\ wire.at = 0
    /\ \E b \in {SubSeq(wire.bytes, 1, Len(wire.bytes) - 1), Append(wire.bytes, 0)} :
         wire' = [wire EXCEPT !.phase = "resized", !.bytes = b]

AlterByte ==
    /\ wire.phase = "sent" /\ wire.at = 0
    /\ \E i \in 1..Len(wire.bytes) : wire' = [wire EXCEPT !.at = i, !.bytes[i] = (@ + 1) % Base]

Receive ==
    /\ wire.phase \in {"sent", "resized"}
    /\ wire' = [wire EXCEPT !.phase = IF @ = "sent" THEN "received" ELSE "refused", !.got = Decode(wire.name, wire.bytes),
                            !.bytes = IF wire.phase = "sent" THEN <<>> ELSE @]

\* A syscall answer goes through the register.
ReturnResult ==
    /\ wire.phase = "idle"
    /\ \E e \in {0} \cup Range(ErrorCode), v \in {0, 1, Top(8) \div 2 - 1} :
         LET r == [error |-> e, value |-> IF e = 0 THEN v ELSE 0]
         IN wire' = [wire EXCEPT !.phase = "returned", !.value = <<r>>, !.got = <<ResultOf(ResultWord(r))>>]

WireNext == SendRecord \/ Resize \/ AlterByte \/ Receive \/ ReturnResult

\* A record arrives as it was sent, or not at all when it is one its reader
\* must refuse; one changed byte changes no field but its own; and a message
\* of the wrong length is refused.
RecordsArrive ==
    LET f == FormatTable[wire.name]
    IN /\ wire.phase = "received" /\ wire.at = 0 =>
            wire.got = IF Valid(wire.name, wire.value[1] @@ [pad |-> 0, tail |-> 0]) THEN wire.value ELSE <<>>
       /\ wire.phase = "received" /\ wire.at # 0 /\ wire.got # <<>> =>
            \A x \in Range(f.w) : ~Covers(x, wire.at) => wire.got[1][x[1]] = wire.value[1][x[1]]
       /\ wire.phase = "refused" => wire.got = <<>> \/ (~f.exact /\ Len(wire.bytes) > f.size /\ wire.got = wire.value)
       /\ wire.phase = "returned" => wire.got = wire.value
=============================================================================
