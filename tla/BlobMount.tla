----------------------------- MODULE BlobMount -----------------------------
(***************************************************************************)
(* The BlobFS service of DriverManager (blobfs_service.rs) on top of       *)
(* VolumeService: it mounts when the registry's client asks for it, by     *)
(* opening the file system range of the volume and reading through it with *)
(* the block client of libcanvas, inside the poll that handles the         *)
(* request.  Until that poll returns, DriverManager polls nothing else.    *)
(***************************************************************************)
EXTENDS VolumeService

VARIABLE blob

blobVars == <<vol, blob>>

BlobInit == VolInit /\ blob = [st |-> "none", proxy |-> 1]

\* open_for_registry and ensure_mounted up to the first wait: the range, its
\* completion port, and the info request of BlockDevice::info.
OpenBlobFs ==
    /\ blob.st = "none" /\ vol.online
    /\ \E v \in EnsureSystem(vol) :
          IF CreateRange(v, 0, Namespace) = {}
          THEN vol' = v /\ blob' = [blob EXCEPT !.st = "refused"]
          ELSE LET p == CHOOSE p \in FreeProxy(v) : \A q \in FreeProxy(v) : p <= q
                   info == [op |-> "info", lba |-> 0, n |-> 0] IN
               /\ vol' \in {[w EXCEPT !.proxy[p].sent = <<[op |-> "port"], info>>,
                                      !.proxy[p].req = info]
                             : w \in CreateRange(v, 0, Namespace)}
               /\ blob' = [st |-> "waiting", proxy |-> p]

\* wait_ok returns; what follows reads the superblock and the table.
BlobFsHears ==
    /\ blob.st = "waiting" /\ vol.proxy[blob.proxy].done # "none"
    /\ vol' = [vol EXCEPT !.proxy[blob.proxy].done = "none"]
    /\ blob' = [blob EXCEPT !.st = "mounted"]

\* A poll of DriverManager's loop, which runs only between the waits.
ManagerPolls ==
    /\ blob.st # "waiting" /\ UNCHANGED blob
    /\ \E p \in 1..ProxySlots : PollProxy(p) \/ DrainBackend(p)

DriverSteps ==
    /\ UNCHANGED blob
    /\ NvmeComesOnline \/ \E p \in 1..ProxySlots : BackendCompletes(p)

BlobNext == OpenBlobFs \/ BlobFsHears \/ ManagerPolls \/ DriverSteps

BlobSpec ==
    /\ BlobInit /\ [][BlobNext]_blobVars
    /\ WF_blobVars(OpenBlobFs) /\ WF_blobVars(BlobFsHears)
    /\ WF_blobVars(ManagerPolls) /\ WF_blobVars(DriverSteps)

\* A request for BlobFS is settled: the service "mounts from the system Volume
\* fs-candidate" (docs/NVME.md:186) or the client is told that it is not there.
BlobFsSettles == blob.st = "waiting" ~> blob.st \in {"mounted", "refused"}

=============================================================================
