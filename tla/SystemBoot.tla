----------------------------- MODULE SystemBoot -----------------------------
(***************************************************************************)
(* How init brings the system up and then supervises it: the boot stages   *)
(* of BootUi and BootProgress (init/src/boot_ui.rs, huesos-bootux), the    *)
(* launch of DriverManager, the shutdown broker and the terminal, the      *)
(* drain that waits for the stages still open, and the supervisor loop     *)
(* that starts Doom for the terminal and forwards a shutdown to the        *)
(* broker.  The shutdown broker, the terminal's side of those exchanges    *)
(* and Doom's start are processes of their own here; DriverManager is seen *)
(* only through the reports it sends (DriverManager models the rest).      *)
(*                                                                         *)
(* All of the state is the record boot: init's position (pc), what each    *)
(* stage is in and whether its deadline is armed, the queues between the   *)
(* processes, and what each process is doing.  A deadline is a step that   *)
(* may be taken at any moment after it was armed.                          *)
(***************************************************************************)
EXTENDS Naturals, Sequences, FiniteSets

CONSTANTS
    StageSets,       \* the sets of stages /etc/init.conf may declare
    FrameDrawLate,   \* whether the terminal may give up waiting for FrameDraw
    OrphanedDoom,    \* whether a Doom launch may fail after the keyboard moved
    MaxDoomRuns      \* bound: launches of Doom that are asked for

VARIABLE boot

bootVars == <<boot>>

Settled == {"done", "failed", "degraded", "skipped"}

\* BootProgress::from_config: every declared stage is pending.  The machine has
\* a clock or not, storage is off, absent or present.
BootInit ==
    \E stages \in StageSets, clock \in BOOLEAN, storage \in {"off", "absent", "present"} :
        boot = [pc |-> "selftest", clock |-> clock, storage |-> storage,
                stage |-> [s \in stages |-> "pending"], timed |-> {}, key |-> FALSE,
                dm |-> "none", reports |-> <<>>, said |-> {},
                broker |-> "none", caps |-> {}, critical |-> FALSE,
                toBroker |-> <<>>, fromBroker |-> <<>>, held |-> FALSE,
                registry |-> FALSE, term |-> "none", toTerm |-> <<>>, toInit |-> <<>>,
                drawn |-> FALSE, doom |-> "none", owner |-> FALSE, runs |-> 0,
                asked |-> FALSE, halted |-> FALSE]

-----------------------------------------------------------------------------
(* The stages.                                                              *)

\* Mutant: the tick of a stage that starts is not kept.
StartUntimed(b, id) ==
    IF id \in DOMAIN b.stage THEN [b EXCEPT !.stage[id] = "running"] ELSE b

\* BootUi::begin and BootProgress::start: an undeclared stage is ignored; the
\* deadline is armed when the clock can be read.
StartStage(b, id) ==
    IF id \in DOMAIN b.stage
    THEN [b EXCEPT !.stage[id] = "running",
                   !.timed = IF b.clock THEN @ \cup {id} ELSE @ \ {id}]
    ELSE b

\* BootUi::end and BootProgress::finish: whatever state the stage was in.
EndStage(b, id, state) ==
    IF id \in DOMAIN b.stage THEN [b EXCEPT !.stage[id] = state] ELSE b

\* BootUi::report: progress starts a pending stage and moves no settled one.
ReportStage(b, id) ==
    IF id \in DOMAIN b.stage /\ b.stage[id] = "pending" THEN StartStage(b, id) ELSE b

AllSettled(b) == \A id \in DOMAIN b.stage : b.stage[id] \in Settled

\* BootProgress::expired can become true: the stage runs and its start has a tick.
CanExpire(b, id) == b.stage[id] = "running" /\ id \in b.timed

\* What a report does to the stages, in wait_ready and in drain.
TakeReport(b, report) ==
    CASE report.kind = "ready" -> EndStage(b, report.name, "done")
      [] report.kind = "degraded" -> EndStage(b, report.name, "degraded")
      [] report.kind = "progress" -> ReportStage(b, report.name)
      [] OTHER -> b

Report(kind, name) == [kind |-> kind, name |-> name]

-----------------------------------------------------------------------------
(* init's script, step by step.                                             *)

\* The self tests run between begin and end; their verdict is only logged.
SelfTest ==
    /\ boot.pc = "selftest"
    /\ boot' = [EndStage(StartStage(boot, "selftest"), "selftest", "done") EXCEPT !.pc = "key"]

\* launch_key_broker returns the broker, ready, with the manager's channel, or
\* nothing: every failure on the way is a return.
LaunchKeyBroker ==
    /\ boot.pc = "key"
    /\ \E ready \in BOOLEAN :
          boot' = [EndStage(StartStage(boot, "key-broker"), "key-broker",
                            IF ready THEN "done" ELSE "failed")
                   EXCEPT !.pc = "dm", !.key = ready]

\* launch_service for DriverManager; the key authority follows when there is one.
LaunchDriverManager ==
    /\ boot.pc = "dm"
    /\ LET begun == StartStage(boot, "driver-manager") IN
          \/ boot' = [begun EXCEPT !.pc = "wait", !.dm = "up"]
          \/ boot' = [EndStage(begun, "driver-manager", "failed") EXCEPT !.pc = "broker"]

\* BootUi::wait_ready on the service's channel: a report about the awaited stage
\* ends the wait, any other is applied; a closed channel, the deadline, or the
\* poll budget of a machine without a clock fails the stage.
WaitReady(id, at, next, queue, gone) ==
    /\ boot.pc = at
    /\ \/ /\ id \notin DOMAIN boot.stage
          /\ boot' = [boot EXCEPT !.pc = next]
       \/ /\ id \in DOMAIN boot.stage /\ boot[queue] # <<>>
          /\ LET r == Head(boot[queue]) IN
                boot' = [TakeReport(boot, r) EXCEPT
                            ![queue] = Tail(@),
                            !.pc = IF r.name = id /\ r.kind \in {"ready", "degraded"}
                                   THEN next ELSE at]
       \/ /\ id \in DOMAIN boot.stage
          /\ \/ boot[queue] = <<>> /\ gone
             \/ IF boot.clock THEN CanExpire(boot, id) ELSE TRUE
          /\ boot' = [EndStage(boot, id, "failed") EXCEPT !.pc = next]

WaitManager == WaitReady("driver-manager", "wait", "grants", "reports", boot.dm = "gone")

\* The archives, the broker and the grants are sent while the storage stage is
\* open; it is closed here only when there is no storage to bring up.
GrantStorage ==
    /\ boot.pc = "grants"
    /\ LET begun == StartStage(boot, "storage") IN
          boot' = [(IF boot.storage = "present" THEN begun
                    ELSE EndStage(begun, "storage", "skipped")) EXCEPT !.pc = "broker"]

\* launch_shutdown_broker up to the spawn: both resources are minted first.
SpawnBroker ==
    /\ boot.pc = "broker"
    /\ LET begun == StartStage(boot, "shutdown-broker") IN
          \/ boot' = [begun EXCEPT !.pc = "ioport", !.broker = "caps", !.held = TRUE]
          \/ boot' = [EndStage(begun, "shutdown-broker", "failed") EXCEPT !.pc = "registry"]

\* launch_shutdown_broker returns None: its ends of the channel are dropped.
BrokerFailed(b) ==
    [EndStage(b, "shutdown-broker", "failed") EXCEPT !.pc = "registry", !.held = FALSE]

\* A write to the broker; it fails when the broker is gone, and a transfer may
\* fail for want of a handle slot.
ToBroker(at, message, next) ==
    /\ boot.pc = at
    /\ \/ /\ boot.broker # "exited"
          /\ boot' = [boot EXCEPT !.toBroker = Append(@, message), !.pc = next]
       \/ /\ boot.broker = "exited" \/ message # "go"
          /\ boot' = BrokerFailed(boot)

SendIoPort == ToBroker("ioport", "ioport", "power")

SendPower == ToBroker("power", "power", "mark")

\* mark_process_critical may be refused; a broker that is gone stays gone.
MarkCritical ==
    /\ boot.pc = "mark"
    /\ \/ boot' = [boot EXCEPT !.critical = boot.broker # "exited", !.pc = "go"]
       \/ boot' = BrokerFailed(boot)

SendGo == ToBroker("go", "go", "brokerwait")

\* The ready wait: other messages are skipped, an error or the poll budget ends it.
AwaitBroker ==
    /\ boot.pc = "brokerwait"
    /\ \/ /\ boot.fromBroker # <<>>
          /\ LET ready == Head(boot.fromBroker) = "ready"
                 read == [boot EXCEPT !.fromBroker = Tail(@)] IN
                boot' = IF ready
                        THEN [EndStage(read, "shutdown-broker", "done") EXCEPT !.pc = "registry"]
                        ELSE read
       \/ boot.fromBroker = <<>> /\ boot' = BrokerFailed(boot)

\* create_driver_manager_registry_channel: the terminal's end, or none.
CreateRegistry ==
    /\ boot.pc = "registry"
    /\ \E made \in {FALSE} \cup {boot.dm = "up"} :
          boot' = [boot EXCEPT !.registry = made, !.pc = "terminal"]

LaunchTerminal ==
    /\ boot.pc = "terminal"
    /\ LET begun == StartStage(boot, "terminal") IN
          \/ boot' = [begun EXCEPT !.pc = "waitterm", !.term = "started"]
          \/ boot' = [EndStage(begun, "terminal", "failed") EXCEPT !.pc = "drain"]

WaitTerminal == WaitReady("terminal", "waitterm", "drain", "toInit", FALSE)

\* BootUi::drain, one pass: the reports of DriverManager are applied and every
\* expired stage fails.  A closed channel ends it, and without a clock the poll
\* budget does.  No DriverManager, no drain.
Drain ==
    /\ boot.pc = "drain"
    /\ \/ /\ AllSettled(boot) \/ boot.dm = "none"
          /\ boot' = [boot EXCEPT !.pc = "finish"]
       \/ /\ ~AllSettled(boot) /\ boot.reports # <<>>
          /\ boot' = [TakeReport(boot, Head(boot.reports)) EXCEPT !.reports = Tail(@)]
       \/ /\ ~AllSettled(boot) /\ boot.clock
          /\ \E late \in SUBSET {id \in DOMAIN boot.stage : CanExpire(boot, id)} :
                /\ late # {}
                /\ boot' = [boot EXCEPT !.stage =
                              [id \in DOMAIN @ |-> IF id \in late THEN "failed" ELSE @[id]]]
       \/ /\ ~AllSettled(boot) /\ boot.reports = <<>>
          /\ boot.dm = "gone" \/ (boot.dm = "up" /\ ~boot.clock)
          /\ boot' = [boot EXCEPT !.pc = "finish"]

\* BootUi::finish settles what is open and prints the summary; init then drops
\* the stages, reads no more reports, and passes the registry to the terminal.
FinishBoot ==
    /\ boot.pc = "finish"
    /\ boot' = [boot EXCEPT
          !.stage = <<>>, !.timed = {}, !.dm = "none", !.reports = <<>>, !.said = {},
          !.key = FALSE, !.clock = FALSE, !.storage = "off",
          !.toTerm = IF boot.term # "none" /\ boot.registry
                     THEN Append(@, "registry") ELSE @,
          !.pc = "framedraw"]

\* send_frame_draw_capability to the terminal: duplicated and sent, or logged.
SendFrameDraw ==
    /\ boot.pc = "framedraw"
    /\ \E sent \in BOOLEAN :
          boot' = [boot EXCEPT !.pc = "supervise",
                               !.toTerm = IF sent /\ boot.term # "none"
                                          THEN Append(@, "framedraw") ELSE @]

\* launch_doom: a missing file, or a spawn that fails, answers with an error; a
\* failure after the keyboard was passed leaves the process running.
LaunchDoom(b) ==
    {[b EXCEPT !.toTerm = Append(@, "error")],
     [b EXCEPT !.toTerm = Append(@, "started"), !.doom = "running", !.owner = TRUE]}
    \cup (IF OrphanedDoom
          THEN {[b EXCEPT !.toTerm = Append(@, "error"), !.doom = "orphan"]} ELSE {})

\* The supervisor loop reads the terminal's channel: a shutdown goes to the
\* broker, or to the legacy call, which may be refused; a launch is answered.
SuperviseTerminal ==
    /\ boot.pc = "supervise" /\ boot.toInit # <<>>
    /\ LET m == Head(boot.toInit)
           b == [boot EXCEPT !.toInit = Tail(@)] IN
          \/ /\ m.kind = "shutdown"
             /\ IF boot.held /\ boot.broker # "exited"
                THEN boot' = [b EXCEPT !.toBroker = Append(@, "shutdown")]
                ELSE \E done \in BOOLEAN : boot' = [b EXCEPT !.halted = done]
          \/ /\ m.kind = "launch" /\ boot.owner
             /\ boot' = [b EXCEPT !.toTerm = Append(@, "error")]
          \/ /\ m.kind = "launch" /\ ~boot.owner
             /\ boot' \in LaunchDoom(b)
          \/ /\ m.kind = "ready"
             /\ boot' = b

\* The same loop polls Doom's exit code and tells the terminal.
SuperviseDoom ==
    /\ boot.pc = "supervise" /\ boot.owner /\ boot.doom = "exited"
    /\ boot' = [boot EXCEPT !.owner = FALSE, !.doom = "none", !.toTerm = Append(@, "exited")]

-----------------------------------------------------------------------------
(* The shutdown broker.                                                     *)

\* The exit of a critical process makes the kernel halt the machine.
BrokerExits(b) == [b EXCEPT !.broker = "exited", !.halted = @ \/ b.critical]

\* receive_capabilities and the check after it: plain messages are dropped; a
\* closed channel ends the wait and the broker exits without its capabilities.
BrokerReceivesCaps ==
    /\ boot.broker = "caps"
    /\ \/ /\ boot.toBroker # <<>>
          /\ LET caps == boot.caps \cup ({Head(boot.toBroker)} \cap {"ioport", "power"}) IN
                boot' = [boot EXCEPT !.toBroker = Tail(@), !.caps = caps,
                                     !.broker = IF caps = {"ioport", "power"} THEN "go" ELSE "caps"]
       \/ /\ boot.toBroker = <<>> /\ ~boot.held
          /\ boot' = BrokerExits(boot)

\* wait_for_go: anything but the go message is dropped.
BrokerWaitsForGo ==
    /\ boot.broker = "go"
    /\ \/ /\ boot.toBroker # <<>>
          /\ boot' = IF Head(boot.toBroker) = "go"
                     THEN [boot EXCEPT !.toBroker = Tail(@), !.broker = "ready",
                                       !.fromBroker = Append(@, "ready")]
                     ELSE [boot EXCEPT !.toBroker = Tail(@)]
       \/ /\ boot.toBroker = <<>> /\ ~boot.held
          /\ boot' = BrokerExits(boot)

\* The command loop: the 8042 is quiesced and the machine halts.
BrokerHalts ==
    /\ boot.broker = "ready" /\ boot.toBroker # <<>>
    /\ boot' = [boot EXCEPT !.toBroker = Tail(@),
                            !.halted = @ \/ Head(boot.toBroker) = "shutdown"]

-----------------------------------------------------------------------------
(* The terminal and Doom.                                                   *)

TerminalStarts ==
    /\ boot.term = "started"
    /\ boot' = [boot EXCEPT !.term = "boot", !.toInit = Append(@, Report("ready", "terminal"))]

\* wait_for_bootstrap: both capabilities end the wait, and after the registry a
\* bounded number of polls does.
TerminalBootstraps ==
    /\ boot.term \in {"boot", "registered"}
    /\ \/ /\ boot.toTerm # <<>>
          /\ LET got == Head(boot.toTerm)
                 registered == boot.term = "registered" \/ got = "registry"
                 drawn == boot.drawn \/ got = "framedraw" IN
                boot' = [boot EXCEPT
                    !.toTerm = Tail(@), !.drawn = drawn,
                    !.term = IF registered
                             THEN (IF drawn THEN "open" ELSE "registered") ELSE "boot"]
       \/ /\ boot.term = "registered" /\ boot.toTerm = <<>>
          /\ FrameDrawLate \/ boot.pc = "supervise"
          /\ boot' = [boot EXCEPT !.term = "open"]

\* open_service for the keyboard: without it the terminal idles for ever.
TerminalOpens ==
    /\ boot.term = "open"
    /\ \E opened \in BOOLEAN :
          boot' = [boot EXCEPT !.term = IF opened THEN "shell" ELSE "parked"]

\* Shell::run_doom: the keyboard is duplicated and sent with the request.
AskDoom ==
    /\ boot.term = "shell" /\ boot.runs < MaxDoomRuns
    /\ boot' = [boot EXCEPT !.term = "asked", !.runs = @ + 1,
                            !.toInit = Append(@, Report("launch", "doom"))]

\* run_doom's first read decides whether Doom runs, the later ones wait for its
\* exit; whatever else arrives on the supervisor channel is taken for an answer.
HearSupervisor ==
    /\ boot.term \in {"asked", "playing"} /\ boot.toTerm # <<>>
    /\ LET m == Head(boot.toTerm) IN
          boot' = [boot EXCEPT
              !.toTerm = Tail(@),
              !.term = IF boot.term = "asked"
                       THEN (IF m = "started" THEN "playing" ELSE "shell")
                       ELSE (IF m = "exited" THEN "shell" ELSE "playing")]

RequestShutdown ==
    /\ boot.term = "shell" /\ ~boot.asked
    /\ boot' = [boot EXCEPT !.asked = TRUE, !.toInit = Append(@, Report("shutdown", "system"))]

\* Doom quits, or, left without its WAD by a launch that failed, gives up.
DoomExits ==
    /\ boot.doom \in {"running", "orphan"}
    /\ boot' = [boot EXCEPT !.doom = IF @ = "running" THEN "exited" ELSE "none"]

-----------------------------------------------------------------------------
(* DriverManager as init sees it.                                           *)

\* Its state after new, once; then, after the grants, the storage milestones.
ManagerReports ==
    /\ boot.dm = "up"
    /\ \E r \in [kind : {"ready", "degraded"}, name : {"driver-manager"}]
                \cup [kind : {"progress", "ready"}, name : {"storage"}] :
          /\ r \notin boot.said /\ Report("ready", "storage") \notin boot.said
          /\ IF r.name = "driver-manager"
             THEN \A other \in boot.said : other.name # "driver-manager"
             ELSE /\ boot.pc \notin {"wait", "grants"} /\ boot.storage = "present"
                  /\ \E other \in boot.said : other.name = "driver-manager"
          /\ boot' = [boot EXCEPT !.said = @ \cup {r}, !.reports = Append(@, r)]

ManagerDies ==
    /\ boot.dm = "up"
    /\ boot' = [boot EXCEPT !.dm = "gone"]

BootNext ==
    /\ ~boot.halted
    /\ \/ SelfTest \/ LaunchKeyBroker \/ LaunchDriverManager \/ WaitManager \/ GrantStorage
       \/ SpawnBroker \/ SendIoPort \/ SendPower \/ MarkCritical \/ SendGo \/ AwaitBroker
       \/ CreateRegistry \/ LaunchTerminal \/ WaitTerminal \/ Drain \/ FinishBoot
       \/ SendFrameDraw \/ SuperviseTerminal \/ SuperviseDoom
       \/ BrokerReceivesCaps \/ BrokerWaitsForGo \/ BrokerHalts
       \/ TerminalStarts \/ TerminalBootstraps \/ TerminalOpens \/ AskDoom \/ HearSupervisor
       \/ RequestShutdown \/ DoomExits \/ ManagerReports \/ ManagerDies

-----------------------------------------------------------------------------

\* The drain never waits for nothing: with a clock, every stage that is still
\* open there has an armed deadline, unless DriverManager is gone, which ends
\* the drain (BootUi::drain leaves only when all stages settle).
DrainCanEnd ==
    boot.pc = "drain" /\ boot.clock /\ boot.dm = "up" =>
        \A id \in DOMAIN boot.stage : boot.stage[id] \in Settled \/ CanExpire(boot, id)

\* Terminal and Doom take turns at the keyboard they share, and the terminal
\* never waits for an answer nobody will send: while Doom runs the shell reads
\* nothing, and a waiting shell has a request or an answer under way.
DoomTakesTurns ==
    /\ boot.doom \in {"running", "orphan"} => boot.term # "shell"
    /\ boot.term = "asked" =>
          boot.toTerm # <<>> \/ \E i \in DOMAIN boot.toInit : boot.toInit[i].kind = "launch"
    /\ boot.term = "playing" =>
          boot.owner \/ \E i \in DOMAIN boot.toTerm : boot.toTerm[i] = "exited"

\* The machine halts only when the terminal asked for it: no failure of the
\* shutdown broker's launch makes the broker exit once it is critical.
HaltOnlyOnRequest == boot.halted => boot.asked

=============================================================================
