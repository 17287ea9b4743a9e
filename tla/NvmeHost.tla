------------------------------ MODULE NvmeHost ------------------------------
(***************************************************************************)
(* The NVMe driver host (driver-host-nvme/src/main.rs), the controller     *)
(* driver under it (huesos-nvme/src/controller.rs, reliability.rs) and the *)
(* device.  The driver host collects its resources, brings the controller  *)
(* up and then serves one block request at a time; every transfer goes     *)
(* through one DMA buffer, one submission ring and one completion ring.    *)
(* A poll that runs out of budget is retried once, then the controller is  *)
(* reset, then the transfer is tried a last time.                          *)
(*                                                                         *)
(* allowed is an observer: allowed[b] are the contents block b may have    *)
(* given what the clients asked for and were told.                         *)
(***************************************************************************)
EXTENDS Naturals, Sequences, FiniteSets, SequencesExt

CONSTANTS NvBlocks,       \* logical blocks of the namespace, 0 .. NvBlocks - 1
          NvValues,       \* what a block can hold, 0 when the disk is new
          RingSize,       \* io_size
          CidModulus,     \* 2^16 command identifiers
          InOrder,        \* the device completes commands in submission order
          MaxRequests, MaxFaults   \* bounds: requests; timeouts and failed commands

VARIABLE nv

nvVars == <<nv>>

ResourceKinds == {"mmio", "irq", "dma"}
Lbas == 0 .. NvBlocks - 1
EmptyCqe == [cid |-> 0, phase |-> FALSE, ok |-> TRUE]

\* The host side of a just-initialised controller: tails, heads, phase and
\* command identifiers as the enabled device has them, queues zeroed.
FreshHost(n) ==
  [n EXCEPT !.sqTail = 0, !.cqHead = 0, !.cqPhase = TRUE, !.cid = 0,
            !.cq = [i \in 0 .. RingSize - 1 |-> EmptyCqe]]

\* CC.EN = 0: the device forgets its queues and what it had fetched.
DisabledDevice(n) ==
  [n EXCEPT !.devHead = 0, !.devTail = 0, !.devPhase = TRUE, !.inflight = <<>>]

NvInit ==
  nv = [host |-> "collecting", slots |-> {}, reset |-> "Online",
        sq |-> [i \in 0 .. RingSize - 1 |-> [cid |-> 0, op |-> "none", lba |-> 0]],
        cq |-> [i \in 0 .. RingSize - 1 |-> EmptyCqe],
        sqTail |-> 0, cqHead |-> 0, cqPhase |-> TRUE, cid |-> 0,
        devHead |-> 0, devTail |-> 0, devPhase |-> TRUE, inflight |-> <<>>,
        buf |-> 0, disk |-> [b \in Lbas |-> 0], allowed |-> [b \in Lbas |-> {0}],
        req |-> [op |-> "none", lba |-> 0, count |-> 0, done |-> 0, value |-> 0],
        try |-> 0, want |-> 0, wrongRead |-> FALSE, requests |-> 0, faults |-> 0]

\* NvmeBootstrap::record and drain_bootstrap_resources: the first resource of a
\* kind fills its slot, duplicates and malformed labels are dropped.
RecordResource ==
  /\ nv.host = "collecting"
  /\ \E kind \in ResourceKinds : nv' = [nv EXCEPT !.slots = @ \cup {kind}]

\* RESOURCE_TRANSFER_COMPLETE, then bring_up_controller: with a missing
\* resource, or when mapping, binding or initialisation fails, the host idles
\* for ever without a runtime.
BringUp ==
  /\ nv.host = "collecting"
  /\ \E initialised \in BOOLEAN :
        nv' = IF nv.slots = ResourceKinds /\ initialised
              THEN [FreshHost(DisabledDevice(nv)) EXCEPT !.host = "idle"]
              ELSE [nv EXCEPT !.host = "down"]

\* checked_io_bytes: inside the namespace and within MDTS.
InNamespace(lba, count) == count > 0 /\ lba + count <= NvBlocks

\* handle_block_request, execute_block_request, and the entry of controller_op:
\* a request out of range is answered at once, one to a failed controller too.
StartRequest ==
  /\ nv.host = "idle" /\ nv.requests < MaxRequests
  /\ \E op \in {"read", "write", "flush"}, lba \in Lbas, count \in 1 .. 2, v \in NvValues \ {0} :
        /\ (op # "write" => v = CHOOSE w \in NvValues \ {0} : TRUE)
        /\ op = "flush" => lba = 0 /\ count = 1
        /\ InNamespace(lba, count) /\ nv.reset # "Failed"
        /\ nv' = [nv EXCEPT !.host = "submit", !.try = 1, !.requests = @ + 1,
                            !.req = [op |-> op, lba |-> lba, count |-> count, done |-> 0, value |-> v]]

Block == nv.req.lba + nv.req.done

\* prepare_read / prepare_write / flush and submit_io: the payload goes to the
\* one data buffer, the command to the slot at the tail, then the doorbell.
Submit ==
  /\ nv.host = "submit"
  /\ nv' = [nv EXCEPT !.host = "poll", !.want = nv.cid, !.cid = (@ + 1) % CidModulus,
                      !.buf = IF nv.req.op = "write" THEN nv.req.value ELSE @,
                      !.sq[nv.sqTail] = [cid |-> nv.cid, op |-> nv.req.op, lba |-> Block],
                      !.sqTail = (@ + 1) % RingSize,
                      !.allowed = IF nv.req.op = "write" THEN [@ EXCEPT ![Block] = @ \cup {nv.req.value}] ELSE @]

\* The device fetches the command at its head of the submission ring.
DeviceFetch ==
  /\ nv.devHead # nv.sqTail
  /\ nv' = [nv EXCEPT !.inflight = Append(@, nv.sq[nv.devHead]), !.devHead = (@ + 1) % RingSize]


\* The device executes a command on the buffer as it is now, or fails it, and
\* posts its completion, unless the completion ring is full.
DeviceExecute ==
  /\ (nv.devTail + 1) % RingSize # nv.cqHead
  /\ \E i \in 1 .. Len(nv.inflight), ok \in {TRUE} \cup (IF nv.faults < MaxFaults THEN {FALSE} ELSE {}) :
       LET c == nv.inflight[i]
           next == (nv.devTail + 1) % RingSize
       IN /\ InOrder => i = 1
          /\ nv' = [nv EXCEPT !.inflight = RemoveAt(@, i),
                              !.faults = IF ok THEN @ ELSE @ + 1,
                              !.disk = IF ok /\ c.op = "write" THEN [@ EXCEPT ![c.lba] = nv.buf] ELSE @,
                              !.buf = IF ok /\ c.op = "read" THEN nv.disk[c.lba] ELSE @,
                              !.cq[nv.devTail] = [cid |-> c.cid, phase |-> nv.devPhase, ok |-> ok],
                              !.devTail = next, !.devPhase = IF next = 0 THEN ~@ ELSE @]

\* The chunk loop of read_request and write_request after a transfer that
\* ended well: the next chunk, or the completion of the request.
TransferDone(n) ==
  LET b == n.req.lba + n.req.done
      told == [n EXCEPT !.allowed = IF n.req.op = "write" THEN [@ EXCEPT ![b] = {n.req.value}] ELSE @,
                        !.wrongRead = @ \/ (n.req.op = "read" /\ n.buf \notin n.allowed[b])]
  IN IF n.req.done + 1 < n.req.count
     THEN [told EXCEPT !.host = "submit", !.try = 1, !.req.done = @ + 1]
     ELSE [told EXCEPT !.host = "idle", !.try = 0]

RequestFailed(n) == [n EXCEPT !.host = "idle", !.try = 0]

\* poll_io: a completion whose phase bit is ours is consumed; one of another
\* command (an attempt given up earlier) is skipped; a failing status ends the request.
Poll ==
  /\ nv.host = "poll" /\ nv.cq[nv.cqHead].phase = nv.cqPhase
  /\ LET next == (nv.cqHead + 1) % RingSize
         seen == [nv EXCEPT !.cqHead = next, !.cqPhase = IF next = 0 THEN ~@ ELSE @]
     IN nv' = CASE nv.cq[nv.cqHead].cid # nv.want -> seen
                [] nv.cq[nv.cqHead].ok -> TransferDone(seen)
                [] OTHER -> RequestFailed(seen)

\* The poll budget runs out.  First attempt: retry.  Second: command_timed_out,
\* begin_reset.  Last attempt, on the rebuilt queues: the error is reported.
TimeOut ==
  /\ nv.host = "poll" /\ nv.faults < MaxFaults
  /\ LET t == [nv EXCEPT !.faults = @ + 1]
     IN nv' = CASE nv.try = 1 -> [t EXCEPT !.host = "submit", !.try = 2]
                [] nv.try = 2 -> [t EXCEPT !.host = "reset", !.reset = "Resetting"]
                [] OTHER -> RequestFailed(t)

\* Controller::reset and what controller_op makes of it: disable, initialise,
\* reidentify and try again; or Failed, after which nothing is submitted.
ResetController ==
  /\ nv.host = "reset"
  /\ \E ok \in BOOLEAN :
        nv' = IF ok THEN [FreshHost(DisabledDevice(nv)) EXCEPT !.reset = "Online", !.host = "submit", !.try = 3]
              ELSE RequestFailed([DisabledDevice(nv) EXCEPT !.reset = "Failed", !.sqTail = 0])

NvNext ==
  \/ RecordResource
  \/ BringUp
  \/ StartRequest
  \/ Submit
  \/ DeviceFetch
  \/ DeviceExecute
  \/ Poll
  \/ TimeOut
  \/ ResetController

\* No block ever holds what no client asked it to hold, an acknowledged write
\* stays until the next one, and every read that succeeds returns such a
\* content, across retries, late completions and controller resets that share
\* one data buffer and one pair of rings.
DiskHoldsOnlyAsked ==
  /\ ~nv.wrongRead
  /\ \A b \in Lbas : nv.disk[b] \in nv.allowed[b]
  /\ Len(nv.inflight) < RingSize
=============================================================================
