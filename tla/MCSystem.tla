------------------------------ MODULE MCSystem ------------------------------
(* Interrupt routing, the storage stack and the user-space services, each on *)
(* its own small instance: `part` is the component that runs, the others     *)
(* rest.                                                                     *)
EXTENDS IrqRouting, HxfsVolume, HxfsFiles, NvmeHost, VolumeService,
        DriverManager, SystemBoot, TLC
VARIABLE part

MCGsiOf == [o \in IrqObjs |-> 2]
MCKeysOf == [o \in IrqObjs |-> IF o = "a" THEN <<"legacy5", "gsi2">> ELSE <<"gsi2", "legacy5">>]
MCFiles == <<"f">>
MCWork == {[names |-> {"x", "y"}, payloads |-> {}, encrypted |-> FALSE],
           [names |-> {"blobs"}, payloads |-> {"h"}, encrypted |-> TRUE]}
Msg(k) == [kind |-> k, driver |-> "none", name |-> "none"]
Res(d, n) == [kind |-> "resource", driver |-> d, name |-> n]
Of(k, d) == [kind |-> k, driver |-> d, name |-> "none"]
MCNeeds == [input |-> {"kbd"}, nvme |-> {"mmio", "dma"}]
MCStorage == <<Res("nvme", "mmio"), Res("nvme", "dma"), Of("complete", "nvme")>>
MCBoots ==
    {[shipped |-> {"input", "nvme", "hxfs"}, losses |-> 1,
      script |-> <<Msg("key"), Msg("bootfs"), Msg("storage"), Res("input", "kbd"),
                   Of("critical", "input"), Of("complete", "input")>> \o MCStorage],
     [shipped |-> {"input", "nvme", "hxfs"}, losses |-> 0,
      script |-> <<Msg("registry"), Msg("key"), Msg("bootfs"), Msg("storage")>> \o MCStorage],
     [shipped |-> {"input"}, losses |-> 0,
      script |-> <<Msg("registry"), Res("input", "kbd"), Of("complete", "input"), Msg("bootfs")>>],
     [shipped |-> {"acpi"}, losses |-> 0,
      script |-> <<Msg("bootfs"), Msg("tables"), Msg("acpi-broker")>>],
     [shipped |-> {"pci"}, losses |-> 0, script |-> <<Msg("bootfs")>>]}
MCStages == {{"selftest", "key-broker", "driver-manager", "storage", "shutdown-broker", "terminal"},
             {"selftest", "storage"}}

Init ==
    /\ part \in {"irq", "volume", "files", "nvme", "ranges", "drivers",
                 "boot"}
    /\ IrqInit /\ HxInit
    /\ IF part = "files" THEN SvcInit ELSE svc = "at rest"
    /\ IF part = "nvme" THEN NvInit ELSE nv = "at rest"
    /\ IF part = "ranges" THEN VolInit ELSE vol = "at rest"
    /\ IF part = "drivers" THEN DmInit ELSE dm = "at rest"
    /\ IF part = "boot" THEN BootInit ELSE boot = "at rest"

Next ==
    \/ part = "irq" /\ IrqNext
       /\ UNCHANGED <<part, hxVars, svcVars, nvVars, volVars, dmVars,
                      bootVars>>
    \/ part = "volume" /\ HxNext
       /\ UNCHANGED <<part, irqVars, svcVars, nvVars, volVars, dmVars,
                      bootVars>>
    \/ part = "files" /\ SvcNext
       /\ UNCHANGED <<part, irqVars, hxVars, nvVars, volVars, dmVars,
                      bootVars>>
    \/ part = "nvme" /\ NvNext
       /\ UNCHANGED <<part, irqVars, hxVars, svcVars, volVars, dmVars,
                      bootVars>>
    \/ part = "ranges" /\ VolNext
       /\ UNCHANGED <<part, irqVars, hxVars, svcVars, nvVars, dmVars,
                      bootVars>>
    \/ part = "drivers" /\ DmNext
       /\ UNCHANGED <<part, irqVars, hxVars, svcVars, nvVars, volVars,
                      bootVars>>
    \/ part = "boot" /\ BootNext
       /\ UNCHANGED <<part, irqVars, hxVars, svcVars, nvVars, volVars,
                      dmVars>>

Spec == Init /\ [][Next]_<<part, irqVars, hxVars, svcVars, nvVars, volVars,
        dmVars, bootVars>>

-----------------------------------------------------------------------------
(* Properties *)

\* What was committed to the disk stays readable and nothing else is written
\* there: a file of the last published checkpoint survives every crash and
\* failing publish (fixed_writer.rs), the NVMe driver's retries write only
\* what a client asked for, and a range proxy never reaches a block outside
\* its range.
StorageKept ==
    /\ part = "volume" => VolumeRecovers /\ BlocksClaimedOnce
    /\ part = "nvme" => DiskHoldsOnlyAsked
    /\ part = "ranges" => RequestsConfined

\* What clients of hxfs-service hold is what the volume has: an open blob
\* view keeps its blob from garbage collection, and every open file and
\* directory endpoint names an object that is there.
FilesServed == part = "files" => OpenViewsKeepBlobs /\ NamesAndEndpointsAgree

\* Boot settles and is supervised: init's drain can end, Doom and the
\* terminal take turns at the keyboard, power goes only on request, and
\* driver-manager starts a host or a manager only with what it needs.
ServicesStart ==
    /\ part = "drivers" => ManagerSound
    /\ part = "boot" => DrainCanEnd /\ DoomTakesTurns /\ HaltOnlyOnRequest
=============================================================================
