--------------------------- MODULE VolumeService ---------------------------
(***************************************************************************)
(* The VolumeManager inside DriverManager (volume_service.rs), with the    *)
(* DevFS door to it (devfs_service.rs) and the block client of libcanvas   *)
(* (block.rs): the system volume, its clients, and the proxies that give a *)
(* client a range of the NVMe namespace by translating its requests and    *)
(* passing completions back.                                               *)
(*                                                                         *)
(* One DriverManager step is one poll that finds something to do.  A block *)
(* client has one request at a time, as BlockDevice does: it sends its     *)
(* completion port first and waits for each completion.  Arithmetic on     *)
(* block numbers is checked at VolWidth, which stands for 2^64.            *)
(***************************************************************************)
EXTENDS Integers, Sequences, FiniteSets

CONSTANTS
    Namespace,      \* blocks of the NVMe namespace
    VolWidth,       \* block numbers are below this
    VolSlots,       \* MAX_VOLUME_CLIENTS
    ProxySlots,     \* MAX_BLOCK_RANGE_PROXIES
    MaxVolOps       \* bound: ranges opened and requests sent

VARIABLE vol

volVars == <<vol>>

Closed == [st |-> "none"]
NoRequest == [op |-> "none"]

\* VolumeManagerService::new, with the NVMe service online or not yet.
VolInit ==
    vol = [online |-> FALSE, backend |-> "up", known |-> FALSE,
           client |-> [c \in 1..VolSlots |-> FALSE],
           proxy |-> [p \in 1..ProxySlots |-> Closed], ops |-> 0]

CheckedAdd(a, b) == IF a + b < VolWidth THEN {a + b} ELSE {}

-----------------------------------------------------------------------------
(* The volume and its ranges.                                               *)

\* ensure_system_volume attaches to the driver and asks it, once; with the
\* driver gone, or no answer in time, the volume stays unknown.
EnsureSystem(v) ==
    IF v.known THEN {v}
    ELSE {v} \cup (IF v.backend = "up" THEN {[v EXCEPT !.known = TRUE]} ELSE {})

FreeProxy(v) == {p \in 1..ProxySlots : v.proxy[p].st = "none"}

\* create_range_channel: the first free proxy, attached to the driver.
CreateRange(v, start, count) ==
    IF ~v.known \/ FreeProxy(v) = {} \/ v.backend # "up" THEN {}
    ELSE LET p == CHOOSE p \in FreeProxy(v) : \A q \in FreeProxy(v) : p <= q IN
         {[v EXCEPT !.proxy[p] =
              [st |-> "open", start |-> start, count |-> count, port |-> FALSE,
               sent |-> <<>>, req |-> NoRequest, at |-> NoRequest, done |-> "none"]]}

\* The checks of open_range.
RangeAdmitted(start, count) ==
    \E end \in CheckedAdd(start, count) : count # 0 /\ end <= Namespace

\* A client that opens the system volume, from the registry or through DevFS.
OpenSystemVolume ==
    /\ vol.online /\ \E c \in 1..VolSlots : ~vol.client[c]
    /\ \E v \in EnsureSystem(vol) :
          /\ v.known
          /\ LET c == CHOOSE c \in 1..VolSlots :
                        ~vol.client[c] /\ \A b \in 1..VolSlots : ~vol.client[b] => c <= b
             IN  vol' = [v EXCEPT !.client[c] = TRUE]

\* handle_volume_request and open_range; a refused request is answered with an
\* error and changes nothing.
OpenRange(c) ==
    /\ vol.client[c] /\ vol.online /\ vol.ops < MaxVolOps
    /\ \E start, count \in 0..VolWidth - 1 :
          /\ RangeAdmitted(start, count)
          /\ vol' \in {[v EXCEPT !.ops = @ + 1] : v \in CreateRange(vol, start, count)}

\* open_fs_candidate_channel, for DevFS and the Hxfs launch: the whole volume.
OpenFsCandidate ==
    /\ vol.online /\ vol.ops < MaxVolOps
    /\ \E v \in EnsureSystem(vol) :
          vol' \in {[w EXCEPT !.ops = @ + 1] : w \in CreateRange(v, 0, Namespace)}

CloseVolume(c) ==
    /\ vol.client[c]
    /\ vol' = [vol EXCEPT !.client[c] = FALSE]

-----------------------------------------------------------------------------
(* The block client at the other end of a range.                            *)

\* from_channel sends the completion port; then requests follow one by one.
ClientSends(p) ==
    LET x == vol.proxy[p] IN
    /\ x.st = "open" /\ x.sent = <<>> /\ x.req = NoRequest /\ vol.ops < MaxVolOps
    /\ \E r \in [op : {"read", "write"}, lba : {0, 1, VolWidth - 1}, n : {1, 2}]
                \cup [op : {"flush", "info"}, lba : {0}, n : {0}] :
          vol' = [vol EXCEPT !.proxy[p].sent = (IF x.port THEN <<>> ELSE <<[op |-> "port"]>>) \o <<r>>,
                             !.proxy[p].req = r, !.ops = @ + 1]

\* The client's end of the range is closed, with or without a request under way.
ClientCloses(p) ==
    /\ vol.proxy[p].st = "open"
    /\ vol' = [vol EXCEPT !.proxy[p].st = "closed"]

\* wait_ok: the completion is taken and the next request may be sent.
ClientHears(p) ==
    /\ vol.proxy[p].st = "open" /\ vol.proxy[p].done \in {"ok", "invalid", "error"}
    /\ vol' = [vol EXCEPT !.proxy[p].done = "none", !.proxy[p].req = NoRequest]

-----------------------------------------------------------------------------
(* The proxies.                                                             *)

\* complete_proxy: without the client's port there is nobody to tell.
CompleteProxy(x, status) == IF x.port THEN [x EXCEPT !.done = status] ELSE x

\* forward_ranged_request: inside the range, moved to the range's start, and
\* handed to the driver; a write that fails completes with an error.
ForwardRanged(x, r, up) ==
    IF ~\E end \in CheckedAdd(r.n, r.lba) : end <= x.count
    THEN CompleteProxy(x, "invalid")
    ELSE IF CheckedAdd(x.start, r.lba) = {} THEN CompleteProxy(x, "invalid")
    ELSE IF ~up THEN CompleteProxy(x, "error")
    ELSE [x EXCEPT !.at = [r EXCEPT !.lba = @ + x.start]]

\* poll_proxy and handle_proxy_request: one message of the client's.  A flush
\* that cannot be written to the driver is dropped.
HandleProxy(x, m, up) ==
    CASE m.op = "port" -> [x EXCEPT !.port = TRUE]
      [] m.op = "info" -> CompleteProxy(x, "ok")
      [] m.op = "flush" -> IF up THEN [x EXCEPT !.at = m] ELSE x
      [] OTHER -> ForwardRanged(x, m, up)

PollProxy(p) ==
    LET x == vol.proxy[p] IN
    \/ /\ x.st # "none" /\ x.sent # <<>>
       /\ vol' = [vol EXCEPT !.proxy[p] =
             HandleProxy([x EXCEPT !.sent = Tail(@)], Head(x.sent), vol.backend = "up")]
    \/ /\ x.st = "closed" /\ x.sent = <<>>
       /\ vol' = [vol EXCEPT !.proxy[p] = Closed]

\* drain_backend_completions hands the driver's packet to the client's port.
DrainBackend(p) ==
    LET x == vol.proxy[p] IN
    /\ x.st # "none" /\ x.at.op = "finished"
    /\ vol' = [vol EXCEPT !.proxy[p] =
          CompleteProxy([x EXCEPT !.at = NoRequest], x.at.status)]

-----------------------------------------------------------------------------
(* The NVMe host.                                                           *)

NvmeComesOnline ==
    /\ ~vol.online /\ vol.backend = "up"
    /\ vol' = [vol EXCEPT !.online = TRUE]

\* The driver completes a request, or fails it.
BackendCompletes(p) ==
    /\ vol.backend = "up" /\ vol.proxy[p].st # "none"
    /\ vol.proxy[p].at.op \in {"read", "write", "flush"}
    /\ \E status \in {"ok", "error"} :
          vol' = [vol EXCEPT !.proxy[p].at = [op |-> "finished", status |-> status]]

\* The host dies; DriverManager marks the service failed when it polls it.
BackendDies ==
    /\ vol.backend = "up"
    /\ vol' = [vol EXCEPT !.backend = "gone"]

NvmeMarkedFailed ==
    /\ vol.backend = "gone" /\ vol.online
    /\ vol' = [vol EXCEPT !.online = FALSE]

VolNext ==
    \/ OpenSystemVolume \/ OpenFsCandidate \/ NvmeComesOnline \/ BackendDies \/ NvmeMarkedFailed
    \/ \E c \in 1..VolSlots : OpenRange(c) \/ CloseVolume(c)
    \/ \E p \in 1..ProxySlots :
          \/ ClientSends(p) \/ ClientCloses(p) \/ ClientHears(p)
          \/ PollProxy(p) \/ DrainBackend(p) \/ BackendCompletes(p)

-----------------------------------------------------------------------------

\* Every request the driver is handed lies inside the range its client opened,
\* whatever was opened, closed and reused before; and a client that waits has
\* its request somewhere: on its way in, at the driver, or completed.  Only a
\* dead driver, which keeps what it had and drops flushes, may leave it waiting.
RequestsConfined ==
    \A p \in 1..ProxySlots :
        LET x == vol.proxy[p] IN
        /\ x.st # "none" /\ x.at.op \in {"read", "write"} =>
              /\ x.start <= x.at.lba /\ x.at.lba + x.at.n <= x.start + x.count
              /\ x.at.lba + x.at.n <= Namespace
        /\ x.st = "open" /\ x.req # NoRequest /\ vol.backend = "up" =>
              x.sent # <<>> \/ x.at # NoRequest \/ x.done # "none"

=============================================================================
