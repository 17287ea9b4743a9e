--------------------------- MODULE DriverManager ---------------------------
(***************************************************************************)
(* DriverManager (driver-manager/src/supervisor.rs): what init sends it,   *)
(* the buckets that hold resources for hosts not started yet, the two      *)
(* driver hosts, the restartable ACPI and PCI managers, the Hxfs service   *)
(* with its one-shot key grant from the key broker, the storage milestones *)
(* reported to init and the services opened for the registry's client.     *)
(* The hosts, the managers and the key broker are actors of their own.     *)
(*                                                                         *)
(* The run loop polls every channel in turn and a poll without a message   *)
(* does nothing, so a step here is one poll that finds a message, at any   *)
(* moment; only while start_input_host or start_nvme_host waits for its    *)
(* host (at) is nothing else polled.  Clock deadlines become a flag (due). *)
(***************************************************************************)
EXTENDS Integers, Sequences, FiniteSets

CONSTANTS
    Boots,          \* [shipped, script, losses]: what BOOTFS holds, what init
                    \* sends, and a bound on the messages it fails to send
    BucketSlots,    \* MAX_PENDING_RESOURCES_PER_DRIVER
    Buckets,        \* entries of pending_resources
    Needs,          \* Needs[driver]: the resources the host checks for
    MaxRestarts,    \* ACPI_MANAGER_MAX_RESTARTS, PCI_MANAGER_MAX_RESTARTS
    MaxGeneration   \* bound: launches of a manager

VARIABLE dm

dmVars == <<dm>>

Managers == {"acpi", "pci"}
Drivers == {"input", "nvme"}

NoHost == [st |-> "none", got |-> <<>>, full |-> FALSE, out |-> <<>>]
NoManager == [st |-> "none", gen |-> 0, fails |-> 0, due |-> TRUE, ready |-> FALSE,
              out |-> "none", proven |-> 0]

\* DriverManager::new; every service of the manifests starts offline.
DmInit ==
    \E b \in Boots :
        dm = [script |-> b.script, losses |-> b.losses, shipped |-> b.shipped, bootfs |-> "none",
              has |-> {}, bucket |-> <<>>, complete |-> {}, at |-> "loop",
              host |-> [d \in Drivers |-> NoHost],
              service |-> [d \in Drivers |-> "offline"],
              mgr |-> [m \in Managers |-> NoManager],
              hxfs |-> "none", hxready |-> FALSE, hxfailed |-> FALSE, gen |-> 0,
              launches |-> 0, hxout |-> "none", own |-> FALSE,
              broker |-> "none", asked |-> <<>>, admitted |-> 0, grants |-> <<>>,
              progress |-> 0, sent |-> 0, told |-> {}, clients |-> {}]

-----------------------------------------------------------------------------
(* Pending resources.  A bucket is [driver, items, critical]; they stay in  *)
(* the order they were created, except that taking one moves the last into  *)
(* its place.                                                               *)

BucketIndex(d, driver) == {i \in DOMAIN d.bucket : d.bucket[i].driver = driver}

\* find_or_create_bucket: no bucket when all of them are taken.
WithBucket(d, driver) ==
    IF BucketIndex(d, driver) # {} \/ Len(d.bucket) = Buckets THEN d
    ELSE [d EXCEPT !.bucket =
             Append(@, [driver |-> driver, items |-> <<>>, critical |-> FALSE])]

\* record_resource_handle: without a bucket, or with a full one, it is dropped.
RecordHandle(d, driver, name) ==
    LET e == WithBucket(d, driver) IN
    [e EXCEPT !.bucket =
        [i \in DOMAIN @ |-> IF @[i].driver = driver /\ Len(@[i].items) < BucketSlots
                            THEN [@[i] EXCEPT !.items = Append(@, name)] ELSE @[i]]]

\* record_critical_intent
RecordCritical(d, driver) ==
    LET e == WithBucket(d, driver) IN
    [e EXCEPT !.bucket = [i \in DOMAIN @ |-> IF @[i].driver = driver
                                             THEN [@[i] EXCEPT !.critical = TRUE] ELSE @[i]]]

\* take_pending_bucket: the last bucket takes the place of the one taken.
TakeBucket(d, i) ==
    LET last == Len(d.bucket) IN
    [d EXCEPT !.bucket = [j \in 1..last - 1 |-> IF j = i THEN @[last] ELSE @[j]]]

\* forward_pending_resources: every handle in order, then the complete message.
Forward(d, driver) ==
    IF BucketIndex(d, driver) = {}
    THEN [d EXCEPT !.host[driver] = [NoHost EXCEPT !.st = "up", !.full = TRUE]]
    ELSE LET i == CHOOSE i \in BucketIndex(d, driver) : TRUE IN
         [TakeBucket(d, i) EXCEPT
             !.host[driver] = [NoHost EXCEPT !.st = "up", !.full = TRUE,
                                             !.got = d.bucket[i].items]]

-----------------------------------------------------------------------------
(* Starting the driver hosts.                                               *)

\* start_input_host and start_nvme_host: nothing happens when BOOTFS cannot be
\* read or lacks the host; a spawn that fails marks the service failed.
StartHost(d, driver) ==
    IF d.bootfs # "good" \/ driver \notin d.shipped THEN {d}
    ELSE {[Forward(d, driver) EXCEPT !.at = driver],
          [d EXCEPT !.service[driver] = "failed"]}

\* The conditions of try_start_pending_hosts.
HostStartable(d, driver) ==
    /\ d.bootfs # "none" /\ d.host[driver].st = "none" /\ d.at = "loop"
    /\ driver \in d.complete
    /\ driver = "nvme" => "storage" \in d.has

TryStart(d, driver) == IF HostStartable(d, driver) THEN StartHost(d, driver) ELSE {d}

\* try_start_pending_hosts: the input host first; while it is awaited the NVMe
\* host waits for its turn (HostWaitEnds).
TryStartPendingHosts(d) ==
    UNION {IF e.at = "loop" THEN TryStart(e, "nvme") ELSE {e} : e \in TryStart(d, "input")}

\* One message of init's, in poll_init_bootstrap.
HandleInit(d, m) ==
    CASE m.kind = "bootfs" ->
           UNION {TryStartPendingHosts([d EXCEPT !.bootfs = image]) : image \in {"good", "bad"}}
      [] m.kind \in {"tables", "acpi-broker", "registry"} ->
           {[d EXCEPT !.has = @ \cup {m.kind}]}
      [] m.kind = "storage" -> TryStartPendingHosts([d EXCEPT !.has = @ \cup {"storage"}])
      [] m.kind = "key" ->
           {[d EXCEPT !.broker = IF d.broker = "none" THEN "up" ELSE @]}
      [] m.kind = "resource" -> {RecordHandle(d, m.driver, m.name)}
      [] m.kind = "critical" -> {RecordCritical(d, m.driver)}
      [] m.kind = "complete" ->
           TryStartPendingHosts([d EXCEPT !.complete = @ \cup {m.driver}])

PollInit ==
    /\ dm.at = "loop" /\ dm.script # <<>>
    /\ dm' \in HandleInit([dm EXCEPT !.script = Tail(@)], Head(dm.script))

\* A duplicate, a mint or a write of init's fails: that message is never sent.
InitSkips ==
    /\ dm.script # <<>> /\ dm.losses > 0
    /\ dm' = [dm EXCEPT !.script = Tail(@), !.losses = @ - 1]

\* wait_for_input_host_ready and wait_for_nvme_host_ready end when the service is
\* online or the polls run out; the NVMe host's turn follows the input host's.
HostWaitEnds ==
    /\ dm.at # "loop"
    /\ dm' \in (IF dm.at = "input" THEN TryStart([dm EXCEPT !.at = "loop"], "nvme")
                ELSE {[dm EXCEPT !.at = "loop"]})

-----------------------------------------------------------------------------
(* The driver hosts and their messages.                                     *)

\* A host reads its resources up to the complete message.  The NVMe host checks
\* that it has them all and brings the controller up; the input host keeps what
\* it got and binds the keyboard interrupt.
HostRuns(driver) ==
    LET h == dm.host[driver]
        whole == \A r \in Needs[driver] : \E i \in DOMAIN h.got : h.got[i] = r
        outcomes == IF driver = "input" THEN {<<"online">>, <<"failed">>}
                    ELSE IF ~whole THEN {<<"starting", "failed">>}
                    ELSE {<<"starting", "resources", "online">>,
                          <<"starting", "resources", "failed">>} IN
    /\ h.st = "up" /\ h.full
    /\ \E out \in outcomes :
          dm' = [dm EXCEPT !.host[driver].st = "running", !.host[driver].out = out]

HostDies(driver) ==
    /\ dm.host[driver].st = "running"
    /\ dm' = [dm EXCEPT !.host[driver].st = "gone"]

Milestone(m) ==
    CASE m = "starting" -> 35 [] m = "resources" -> 45 [] m = "online" -> 60 [] OTHER -> 0

\* storage_milestone: progress never falls.
Reached(d, percent) == [d EXCEPT !.progress = IF percent > @ THEN percent ELSE @]

\* handle_input_host_message and handle_nvme_host_message
HandleHost(d, driver, m) ==
    LET e == IF m \in {"online", "failed"} THEN [d EXCEPT !.service[driver] = m] ELSE d
    IN  IF driver = "nvme" THEN Reached(e, Milestone(m)) ELSE e

\* poll_input_host and poll_nvme_host; only the second marks its service failed
\* when the channel is closed.
PollHost(driver) ==
    LET h == dm.host[driver] IN
    /\ dm.at \in {"loop", driver}
    /\ \/ /\ h.out # <<>>
          /\ dm' = HandleHost([dm EXCEPT !.host[driver].out = Tail(@)], driver, Head(h.out))
       \/ /\ h.out = <<>> /\ h.st = "gone" /\ driver = "nvme"
          /\ dm.service[driver] # "failed"
          /\ dm' = [dm EXCEPT !.service[driver] = "failed"]

-----------------------------------------------------------------------------
(* The restartable managers.                                                *)

\* RestartBackoff::record_failure: the next attempt waits for its deadline, and
\* there is none once the budget is spent.
Failure(d, m) ==
    [d EXCEPT !.mgr[m] = [@ EXCEPT !.st = "none", !.ready = FALSE, !.out = "none",
                                   !.fails = @ + 1, !.due = FALSE]]

\* A successful launch: a new generation, said in the hello message.
ManagerLaunch(d, m) ==
    [d EXCEPT !.mgr[m] = [@ EXCEPT !.st = "up", !.gen = @ + 1, !.ready = FALSE,
                                   !.out = "none"]]

\* try_start_acpi_manager and try_start_pci_manager: a missing ELF, a failed
\* spawn or a failed hand-over schedules a restart; the generation is spent only
\* when the spawn succeeded.
TryStartManager(m) ==
    LET g == dm.mgr[m] IN
    /\ dm.at = "loop" /\ g.st = "none" /\ dm.bootfs = "good"
    /\ m = "acpi" => {"tables", "acpi-broker"} \subseteq dm.has
    /\ g.fails < MaxRestarts /\ g.due /\ g.gen < MaxGeneration
    /\ \/ dm' = Failure(dm, m)
       \/ m \in dm.shipped /\ dm' = Failure([dm EXCEPT !.mgr[m].gen = @ + 1], m)
       \/ m \in dm.shipped /\ dm' = ManagerLaunch(dm, m)

\* The backoff's deadline passes.
BackoffEnds(m) ==
    /\ ~dm.mgr[m].due /\ dm.mgr[m].fails < MaxRestarts
    /\ dm' = [dm EXCEPT !.mgr[m].due = TRUE]

\* The manager checks what it was given and answers, or is gone; a message that
\* carries another generation, or that does not decode, is possible on the wire.
ManagerSpeaks(m) ==
    /\ dm.mgr[m].st = "up" /\ dm.mgr[m].out = "none"
    /\ \E out \in {"ready", "failed", "stale", "closed"} :
          dm' = [dm EXCEPT !.mgr[m].out = out]

\* poll_acpi_manager and poll_pci_manager: a stale generation is ignored, ready
\* resets the backoff, anything else drops the manager.
PollManager(m) ==
    /\ dm.at = "loop" /\ dm.mgr[m].out # "none"
    /\ dm' = CASE dm.mgr[m].out = "stale" -> [dm EXCEPT !.mgr[m].out = "none"]
              [] dm.mgr[m].out = "ready" ->
                   [dm EXCEPT !.mgr[m] = [@ EXCEPT !.out = "none", !.ready = TRUE, !.fails = 0,
                                                   !.due = TRUE, !.proven = dm.mgr[m].gen]]
              [] OTHER -> Failure(dm, m)

-----------------------------------------------------------------------------
(* Hxfs and the key broker.                                                 *)

\* try_start_hxfs_service: the block channel is opened first; then every failure
\* is final.  The broker is asked before the service gets its end of the grant,
\* and the generation is spent when both were told.
TryStartHxfs ==
    /\ dm.at = "loop" /\ dm.hxfs = "none" /\ ~dm.hxfailed
    /\ dm.service["nvme"] = "online" /\ dm.bootfs = "good"
    /\ LET failed == [dm EXCEPT !.hxfailed = TRUE]
           next == dm.gen + 1
           asked == [dm EXCEPT !.asked = Append(@, next), !.launches = @ + 1] IN
          \/ dm' = failed
          \/ /\ "hxfs" \in dm.shipped /\ dm.broker = "up"
             /\ dm' \in {[asked EXCEPT !.hxfailed = TRUE],
                         [asked EXCEPT !.hxfailed = TRUE, !.gen = next],
                         [asked EXCEPT !.gen = next, !.hxfs = "up"]}

\* key-broker: GrantTracker::admit takes only a generation above the last one.
BrokerGrants ==
    /\ dm.broker = "up" /\ dm.asked # <<>>
    /\ LET g == Head(dm.asked) IN
          dm' = [dm EXCEPT !.asked = Tail(@),
                           !.admitted = IF g > @ THEN g ELSE @,
                           !.grants = IF g > dm.admitted THEN Append(@, g) ELSE @]

BrokerDies ==
    /\ dm.broker = "up"
    /\ dm' = [dm EXCEPT !.broker = "gone"]

\* The service mounts once it has the grant of its generation; it reports ready,
\* or that it has nothing to offer, or is gone.
HxfsSpeaks ==
    /\ dm.hxfs = "up" /\ dm.hxout = "none"
    /\ \E out \in {"unavailable", "closed"} \cup
                 (IF ~dm.hxready /\ \E i \in DOMAIN dm.grants : dm.grants[i] = dm.gen
                  THEN {"ready"} ELSE {}) :
          dm' = [dm EXCEPT !.hxout = out]

\* poll_hxfs_service: ready is the last milestone and attaches DriverManager's
\* own client; anything else drops the service for good.
PollHxfs ==
    /\ dm.at = "loop" /\ dm.hxout # "none"
    /\ IF dm.hxout = "ready"
       THEN \E own \in {TRUE, dm.own} :
               dm' = Reached([dm EXCEPT !.hxout = "none", !.hxready = TRUE,
                                        !.hxfailed = FALSE, !.own = own], 100)
       ELSE dm' = [dm EXCEPT !.hxout = "none", !.hxready = FALSE, !.hxfailed = TRUE,
                             !.hxfs = "none"]

\* flush_storage_progress: the latest milestone, and ready with the last one.
FlushProgress ==
    /\ dm.at = "loop" /\ dm.progress > dm.sent
    /\ dm' = [dm EXCEPT !.sent = dm.progress,
                        !.told = @ \cup (IF dm.progress >= 100 THEN {"ready"} ELSE {})]

\* open_keyboard_service, open_nvme_block_service and open_hxfs_service: a pair
\* is made and one end handed to the host; a host that is not up refuses.
OpenService(s) ==
    /\ dm.at = "loop" /\ "registry" \in dm.has /\ s \notin dm.clients
    /\ IF s = "hxfs" THEN dm.hxready /\ dm.hxfs = "up"
       ELSE dm.service[s] = "online" /\ dm.host[s].st = "running"
    /\ dm' = [dm EXCEPT !.clients = @ \cup {s}]

DmNext ==
    \/ PollInit \/ InitSkips \/ HostWaitEnds
    \/ \E d \in Drivers : HostRuns(d) \/ HostDies(d) \/ PollHost(d)
    \/ \E m \in Managers : TryStartManager(m) \/ BackoffEnds(m) \/ ManagerSpeaks(m) \/ PollManager(m)
    \/ TryStartHxfs \/ BrokerGrants \/ BrokerDies \/ HxfsSpeaks \/ PollHxfs \/ FlushProgress
    \/ \E s \in Drivers \cup {"hxfs"} : OpenService(s)

-----------------------------------------------------------------------------

\* Whatever init failed to send and whoever died: a host starts with everything
\* init sent for it (no resource is left behind in a bucket), the NVMe service
\* is online only on top of a complete set, Hxfs is launched and granted a key
\* at most once, storage is reported ready only after Hxfs was, and a manager
\* that never becomes ready is not launched beyond its restart budget.
ManagerSound ==
    /\ \A d \in Drivers : dm.host[d].st # "none" => BucketIndex(dm, d) = {}
    /\ dm.service["nvme"] = "online" =>
          \A r \in Needs["nvme"] : \E i \in DOMAIN dm.host["nvme"].got : dm.host["nvme"].got[i] = r
    /\ dm.launches <= 1 /\ Len(dm.grants) <= 1
    /\ dm.hxready => dm.hxfs = "up" /\ ~dm.hxfailed /\ dm.grants = <<dm.gen>>
    /\ "ready" \in dm.told => dm.grants # <<>> /\ dm.sent = 100
    /\ \A m \in Managers : dm.mgr[m].gen - dm.mgr[m].proven <= MaxRestarts

=============================================================================
