------------------------------ MODULE MCKernel ------------------------------
(* The kernel components that share no state with each other, each on its own*)
(* small instance: `part` is the component that runs, the others rest.       *)
EXTENDS KernelEvents, ProcessLife, JobQuota, FairTree, CpuBudget, MemAlloc,
        SpinLocks, Vmar

CONSTANTS w1
VARIABLE part

Wait(kind, watch, timed, all) == [kind |-> kind, watch |-> watch, timed |-> timed, all |-> all]
MCWaitCalls ==
    (w1 :> {Wait("port", <<"port">>, TRUE, FALSE),
            Wait("set", <<"port", "signal">>, TRUE, FALSE),
            Wait("set", <<"process", "port">>, FALSE, TRUE),
            Wait("process", <<"process">>, FALSE, FALSE)})
MCThreadOf == [t \in {"t1", "t2"} |-> IF t = "t1" THEN "p1" ELSE "p2"]
MCStarterCpu == [c \in {"c1"} |-> 1]
MCHomeCpu == [p \in {"p1", "p2"} |-> 1]
MCLockRank == [l \in Locks |-> CASE l = "registry" -> 20 [] l = "process" -> 40 [] l = "scheduler" -> 60]
MCTwoThreads == {"ta", "tb"}
MCMapVmos == {"vmo"}
MCOneKid == {"kid"}
MCOneProt == {"rw"}
MCRoot == "root"

Init ==
    /\ part \in {"events", "life", "quota", "fair", "cbs", "job", "task",
                 "frames", "heap", "scudo", "locks", "vmar"}
    /\ EventsInit /\ LifeInit /\ QuotaInit /\ FairInit /\ BudgetInit
    /\ MemInit /\ LocksInit /\ VmarInit

Next ==
    \/ part = "events" /\ EventsNext
       /\ UNCHANGED <<part, plVars, jqVars, ftVars, bdVars, maVars, slVars,
                      vmarVars>>
    \/ part = "life" /\ LifeNext
       /\ UNCHANGED <<part, evVars, jqVars, ftVars, bdVars, maVars, slVars,
                      vmarVars>>
    \/ part = "quota" /\ QuotaNext
       /\ UNCHANGED <<part, evVars, plVars, ftVars, bdVars, maVars, slVars,
                      vmarVars>>
    \/ part = "fair" /\ FairNext
       /\ UNCHANGED <<part, evVars, plVars, jqVars, bdVars, maVars, slVars,
                      vmarVars>>
    \/ part = "cbs" /\ CbsNext
       /\ UNCHANGED <<part, evVars, plVars, jqVars, ftVars, maVars, slVars,
                      vmarVars>>
    \/ part = "job" /\ JobNext
       /\ UNCHANGED <<part, evVars, plVars, jqVars, ftVars, maVars, slVars,
                      vmarVars>>
    \/ part = "task" /\ TaskNext
       /\ UNCHANGED <<part, evVars, plVars, jqVars, ftVars, maVars, slVars,
                      vmarVars>>
    \/ part = "frames" /\ PmmNext
       /\ UNCHANGED <<part, evVars, plVars, jqVars, ftVars, bdVars, slVars,
                      vmarVars>>
    \/ part = "heap" /\ HeapNext
       /\ UNCHANGED <<part, evVars, plVars, jqVars, ftVars, bdVars, slVars,
                      vmarVars>>
    \/ part = "scudo" /\ ScudoNext
       /\ UNCHANGED <<part, evVars, plVars, jqVars, ftVars, bdVars, slVars,
                      vmarVars>>
    \/ part = "locks" /\ LocksNext
       /\ UNCHANGED <<part, evVars, plVars, jqVars, ftVars, bdVars, maVars,
                      vmarVars>>
    \/ part = "vmar" /\ VmarNext
       /\ UNCHANGED <<part, evVars, plVars, jqVars, ftVars, bdVars, maVars,
                      slVars>>

Spec == Init /\ [][Next]_<<part, evVars, plVars, jqVars, ftVars, bdVars,
        maVars, slVars, vmarVars>>
=============================================================================
