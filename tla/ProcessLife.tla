---------------------------- MODULE ProcessLife ----------------------------
(***************************************************************************)
(* The life of a HuesOS process: creation with an address space, the start *)
(* of its initial thread (a transaction of the thread_start syscall with   *)
(* three rollback guards), exit and fault termination, and the deferred    *)
(* reaper that frees tasks, address spaces and exit records.               *)
(* Sources: the process syscalls, kernel process.rs, the exit and reap     *)
(* paths of scheduler.rs, huesos-object process.rs and thread.rs, and the  *)
(* graveyard of huesos-lifecycle.                                          *)
(***************************************************************************)
EXTENDS Integers, Sequences, FiniteSets, Functions

CONSTANTS Procs, Threads,  \* process and thread objects
          ThreadOf,        \* the process each thread object belongs to
          Starters,        \* tasks that call thread_start, one CPU each
          StarterCpu,
          ProcCpus, HomeCpu,  \* CPUs, and home_cpu of each process
          TaskSlots,       \* size of the global task slot table
          GraveyardSize    \* capacity of the TaskGraveyard

ASSUME LifeAssumption ==
    /\ "none" \notin Procs /\ "none" \notin Threads
    /\ ThreadOf \in [Threads -> Procs]
    /\ TaskSlots \in Nat

NoTask == 0
TaskIds == 1 .. TaskSlots
FreeTask == [proc |-> "none", st |-> "free"]

VARIABLES pstate,       \* ProcessLifecycle.state
          runtime,      \* ProcessRuntime: none, live or gone
          known,        \* processes in the object registry
          held,         \* processes somebody still has a handle to
          startReserved, bootSlot,  \* Process.start_reserved, handle BOOTSTRAP_HANDLE
          tstate,       \* Thread.task_id: none, idle, starting, started
          spc, sthread, stask,  \* per starter: program point, thread, task made
          task,         \* task table
          current,      \* Scheduler.current of each CPU
          entered,      \* tasks past their trampoline
          entries,      \* PENDING_USER_ENTRIES
          xpc,          \* per CPU: where the exit of its current task stands
          reapQueue, teardown, reapPending, reaping, tearing,
          graveyard, evictions

plStart == <<tstate, spc, sthread, stask, startReserved, bootSlot>>
plProc == <<pstate, runtime, known, held>>
plTask == <<task, current, entered, entries, xpc>>
plReap == <<reapQueue, teardown, reapPending, reaping, tearing, graveyard, evictions>>
plVars == <<plStart, plProc, plTask, plReap>>

LifeInit ==
    /\ pstate = [p \in Procs |-> "none"] /\ runtime = [p \in Procs |-> "none"]
    /\ known = {} /\ held = {}
    /\ startReserved = [p \in Procs |-> FALSE] /\ bootSlot = [p \in Procs |-> "empty"]
    /\ tstate = [t \in Threads |-> "none"]
    /\ spc = [c \in Starters |-> "idle"] /\ sthread = [c \in Starters |-> "none"]
    /\ stask = [c \in Starters |-> NoTask]
    /\ task = [i \in TaskIds |-> FreeTask]
    /\ current = [c \in ProcCpus |-> NoTask] /\ entered = {} /\ entries = {}
    /\ xpc = [c \in ProcCpus |-> "none"]
    /\ reapQueue = <<>> /\ teardown = <<>> /\ reapPending = FALSE
    /\ reaping = <<>> /\ tearing = <<>> /\ graveyard = <<>> /\ evictions = 0

-----------------------------------------------------------------------------
(* Creation *)

\* process_create and process_create_in_job.  A process whose address space
\* cannot even be allocated stays registered; a failure after that (heap pages,
\* handle table, copy-out) takes the registration back.
CreateProcess(p) ==
    /\ pstate[p] = "none"
    /\ \/ /\ pstate' = [pstate EXCEPT ![p] = "created"]
          /\ runtime' = [runtime EXCEPT ![p] = "live"]
          /\ known' = known \cup {p} /\ held' = held \cup {p}
       \/ /\ pstate' = [pstate EXCEPT ![p] = "lost"]
          /\ known' = known \cup {p}
          /\ UNCHANGED <<runtime, held>>
       \/ /\ pstate' = [pstate EXCEPT ![p] = "lost"]
          /\ runtime' = [runtime EXCEPT ![p] = "gone"]
          /\ UNCHANGED <<known, held>>
    /\ UNCHANGED <<plStart, plTask, plReap>>

\* spawn_from_elf at boot: every failure takes the registration back.
SpawnFromElf(p) ==
    /\ pstate[p] = "none"
    /\ \/ /\ pstate' = [pstate EXCEPT ![p] = "created"]
          /\ runtime' = [runtime EXCEPT ![p] = "live"]
          /\ known' = known \cup {p}
       \/ /\ pstate' = [pstate EXCEPT ![p] = "lost"]
          /\ runtime' = [runtime EXCEPT ![p] = "gone"]
          /\ UNCHANGED known
    /\ UNCHANGED <<held, plStart, plTask, plReap>>

ThreadCreate(t) ==
    /\ tstate[t] = "none" /\ ThreadOf[t] \in known
    /\ tstate' = [tstate EXCEPT ![t] = "idle"]
    /\ UNCHANGED <<spc, sthread, stask, startReserved, bootSlot, plProc, plTask, plReap>>

CloseProcessHandle(p) ==
    /\ p \in held
    /\ held' = held \ {p}
    /\ known' = IF pstate[p] \in {"exited", "reaped"} THEN known \ {p} ELSE known
    /\ UNCHANGED <<pstate, runtime, plStart, plTask, plReap>>

-----------------------------------------------------------------------------
(* thread_start *)

Target(c) == ThreadOf[sthread[c]]
StartGoto(c, p) == spc' = [spc EXCEPT ![c] = p] /\ UNCHANGED <<sthread, stask>>
Stop(c) ==
    /\ spc' = [spc EXCEPT ![c] = "idle"]
    /\ sthread' = [sthread EXCEPT ![c] = "none"]
    /\ stask' = [stask EXCEPT ![c] = NoTask]

\* Thread::begin_start
BeginStart(c, t) ==
    /\ spc[c] = "idle" /\ tstate[t] = "idle"
    /\ tstate' = [tstate EXCEPT ![t] = "starting"]
    /\ spc' = [spc EXCEPT ![c] = "lookup"] /\ sthread' = [sthread EXCEPT ![c] = t]
    /\ UNCHANGED <<stask, startReserved, bootSlot, plProc, plTask, plReap>>

\* lookup_process and the state test of reserve_initial_thread_start.
CheckCreated(c) ==
    /\ spc[c] = "lookup"
    /\ StartGoto(c, IF Target(c) \in known /\ pstate[Target(c)] = "created" THEN "reserve"
                    ELSE "undo_thread")
    /\ UNCHANGED <<tstate, startReserved, bootSlot, plProc, plTask, plReap>>

\* The compare_exchange of reserve_initial_thread_start.
ReserveStart(c) ==
    /\ spc[c] = "reserve"
    /\ startReserved' = [startReserved EXCEPT ![Target(c)] = TRUE]
    /\ StartGoto(c, IF startReserved[Target(c)] THEN "undo_thread" ELSE "boot")
    /\ UNCHANGED <<tstate, bootSlot, plProc, plTask, plReap>>

\* Channel::pair and insert_at(BOOTSTRAP_HANDLE).
InstallBootstrap(c) ==
    /\ spc[c] = "boot"
    /\ \/ /\ bootSlot[Target(c)] = "empty"
          /\ bootSlot' = [bootSlot EXCEPT ![Target(c)] = "child"]
          /\ StartGoto(c, "copyout")
       \/ UNCHANGED bootSlot /\ StartGoto(c, "undo_process")
    /\ UNCHANGED <<tstate, startReserved, plProc, plTask, plReap>>

\* The parent endpoint goes to the caller; then start_thread looks at the
\* process, its address space and the home CPU (offline, or its runqueue token
\* not to be had) before it drives Created -> Running.
CopyOutAndCheck(c) ==
    /\ spc[c] = "copyout"
    /\ \/ StartGoto(c, "rollback") /\ UNCHANGED pstate
       \/ /\ Target(c) \in known /\ runtime[Target(c)] = "live"
          /\ pstate[Target(c)] \notin {"exited", "reaped"}
          /\ pstate' = [pstate EXCEPT ![Target(c)] = "running"]
          /\ StartGoto(c, "add")
    /\ UNCHANGED <<tstate, startReserved, bootSlot, runtime, known, held, plTask, plReap>>

\* add_task fails when the slot table is exhausted.
AddTask(c) ==
    /\ spc[c] = "add"
    /\ \/ \E i \in TaskIds :
            /\ task[i] = FreeTask
            /\ \A j \in TaskIds : j < i => task[j] # FreeTask
            /\ task' = [task EXCEPT ![i] = [proc |-> Target(c), st |-> "ready"]]
            /\ entered' = entered \ {i}
            /\ spc' = [spc EXCEPT ![c] = "entry"] /\ UNCHANGED sthread
            /\ stask' = [stask EXCEPT ![c] = i]
       \/ /\ \A i \in TaskIds : task[i] # FreeTask
          /\ StartGoto(c, "rollback")
          /\ UNCHANGED <<task, entered>>
    /\ UNCHANGED <<tstate, startReserved, bootSlot, plProc, current, entries, xpc, plReap>>

\* queue_user_entry, then the commits of the three guards.
QueueEntry(c) ==
    /\ spc[c] = "entry"
    /\ entries' = entries \cup {stask[c]}
    /\ tstate' = [tstate EXCEPT ![sthread[c]] = "started"]
    /\ startReserved' = [startReserved EXCEPT ![Target(c)] = FALSE]
    /\ Stop(c)
    /\ UNCHANGED <<bootSlot, plProc, task, current, entered, xpc, plReap>>

\* The rollback guard, which also cancels what the two outer guards cancel.
Rollback(c) ==
    /\ spc[c] = "rollback"
    /\ bootSlot' = [bootSlot EXCEPT ![Target(c)] = "empty"]
    /\ startReserved' = [startReserved EXCEPT ![Target(c)] = FALSE]
    /\ tstate' = [tstate EXCEPT ![sthread[c]] = "idle"]
    /\ StartGoto(c, "undo_process")
    /\ UNCHANGED <<plProc, plTask, plReap>>

UndoProcess(c) ==
    /\ spc[c] = "undo_process"
    /\ startReserved' = [startReserved EXCEPT ![Target(c)] = FALSE]
    /\ StartGoto(c, "undo_thread")
    /\ UNCHANGED <<tstate, bootSlot, plProc, plTask, plReap>>

\* Thread::cancel_start gives up only a start that is still in progress.
UndoThread(c) ==
    /\ spc[c] = "undo_thread"
    /\ tstate' = [tstate EXCEPT ![sthread[c]] = IF @ = "starting" THEN "idle" ELSE @]
    /\ Stop(c)
    /\ UNCHANGED <<startReserved, bootSlot, plProc, plTask, plReap>>

-----------------------------------------------------------------------------
(* Running and exiting *)

Runs(cpu) == current[cpu] # NoTask
ProcOn(cpu) == IF Runs(cpu) THEN task[current[cpu]].proc ELSE "none"
\* Between add_task and queue_user_entry the starter keeps its own CPU's
\* interrupts off; other CPUs go on scheduling.
IrqsOn(cpu) == \A c \in Starters : spc[c] \in {"add", "entry"} => StarterCpu[c] # cpu

\* tick picks a task of this CPU that has not finished, or idles.
Schedule(cpu) ==
    /\ IrqsOn(cpu) /\ xpc[cpu] \in {"none", "away"}
    /\ \E i \in {NoTask} \cup {i \in TaskIds : task[i].st = "ready" /\ HomeCpu[task[i].proc] = cpu} :
         current' = [current EXCEPT ![cpu] = i]
    /\ current'[cpu] # current[cpu]
    /\ xpc' = [xpc EXCEPT ![cpu] = "none"]
    /\ UNCHANGED <<plStart, plProc, task, entered, entries, plReap>>

\* user_entry_trampoline: the startup record is taken, or the process ends.
Trampoline(cpu) ==
    /\ Runs(cpu) /\ xpc[cpu] = "none" /\ current[cpu] \notin entered /\ IrqsOn(cpu)
    /\ entered' = entered \cup {current[cpu]}
    /\ entries' = entries \ {current[cpu]}
    /\ xpc' = [xpc EXCEPT ![cpu] = IF current[cpu] \in entries THEN "none" ELSE "kill"]
    /\ UNCHANGED <<plStart, plProc, task, current, plReap>>

\* Userspace closes its bootstrap handle, asks to exit, or faults.
CloseBootstrap(cpu) ==
    /\ Runs(cpu) /\ xpc[cpu] = "none" /\ current[cpu] \in entered
    /\ bootSlot[ProcOn(cpu)] = "child"
    /\ bootSlot' = [bootSlot EXCEPT ![ProcOn(cpu)] = "empty"]
    /\ UNCHANGED <<tstate, spc, sthread, stask, startReserved, plProc, plTask, plReap>>

LeaveUserspace(cpu) ==
    /\ Runs(cpu) /\ xpc[cpu] = "none" /\ current[cpu] \in entered
    /\ xpc' = [xpc EXCEPT ![cpu] = "exit"] \/ xpc' = [xpc EXCEPT ![cpu] = "kill"]
    /\ UNCHANGED <<plStart, plProc, task, current, entered, entries, plReap>>

\* The first half of exit_current_task, under the scheduler lock.
FinishTask(cpu) ==
    /\ xpc[cpu] = "exit"
    /\ task' = [task EXCEPT ![current[cpu]].st = "finished"]
    /\ xpc' = [xpc EXCEPT ![cpu] = "code"]
    /\ UNCHANGED <<plStart, plProc, current, entered, entries, plReap>>

\* BoundedZombieStore::insert: a full store gives up its oldest record.
Bury(p) ==
    /\ graveyard' = Append(IF Len(graveyard) < GraveyardSize THEN graveyard
                           ELSE Tail(graveyard), p)
    /\ evictions' = IF Len(graveyard) < GraveyardSize THEN evictions ELSE evictions + 1

\* set_exit_code and record_process_exit; only the first exit is recorded.
\* collect_exited_process drops a process nobody has a handle to.
RecordExit(cpu) ==
    /\ xpc[cpu] \in {"code", "kill"}
    /\ LET p == ProcOn(cpu)
           first == pstate[p] \in {"created", "running"}
       IN /\ pstate' = [pstate EXCEPT ![p] = IF first THEN "reaped" ELSE @]
          /\ IF first THEN Bury(p) ELSE UNCHANGED <<graveyard, evictions>>
          /\ known' = IF p \in held THEN known ELSE known \ {p}
    /\ xpc' = [xpc EXCEPT ![cpu] = IF @ = "code" THEN "teardown" ELSE "mark"]
    /\ UNCHANGED <<plStart, runtime, held, task, current, entered, entries, reapQueue, teardown,
                   reapPending, reaping, tearing>>

InSomeOrder(S) == CHOOSE q \in Bijection(1 .. Cardinality(S), S) : TRUE

\* terminate_current_process marks every task of the process, one scheduler
\* lock at a time.
MarkTasks(cpu) ==
    /\ xpc[cpu] = "mark"
    /\ LET p == ProcOn(cpu)
           mine == {i \in TaskIds : task[i].proc = p /\ task[i].st \in {"ready", "finished"}}
       IN /\ task' = [i \in TaskIds |-> IF i \in mine THEN [task[i] EXCEPT !.st = "finished"]
                                         ELSE task[i]]
          /\ reapQueue' = reapQueue \o InSomeOrder(mine)
    /\ reapPending' = TRUE
    /\ xpc' = [xpc EXCEPT ![cpu] = "teardown_kill"]
    /\ UNCHANGED <<plStart, plProc, current, entered, entries, teardown, reaping, tearing,
                   graveyard, evictions>>

\* PROCESS_TEARDOWN gets the process, REAP_QUEUE the exiting task.
HandToReaper(cpu) ==
    /\ xpc[cpu] \in {"teardown", "teardown_kill"}
    /\ teardown' = Append(teardown, ProcOn(cpu))
    /\ reapQueue' = IF xpc[cpu] = "teardown" THEN Append(reapQueue, current[cpu]) ELSE reapQueue
    /\ reapPending' = TRUE
    /\ xpc' = [xpc EXCEPT ![cpu] = "away"]
    /\ UNCHANGED <<plStart, plProc, task, current, entered, entries, reaping, tearing, graveyard,
                   evictions>>

-----------------------------------------------------------------------------
(* The reaper, in whatever task returns from a syscall *)

\* reap_if_pending and the batches reap_finished_tasks takes.
TakeBatch ==
    /\ reapPending /\ reaping = <<>> /\ tearing = <<>>
    /\ reapPending' = FALSE
    /\ reaping' = reapQueue /\ reapQueue' = <<>>
    /\ tearing' = teardown /\ teardown' = <<>>
    /\ UNCHANGED <<plStart, plProc, plTask, graveyard, evictions>>

\* One task id: cancel its startup record, put it back if it is still current,
\* free its slot if it has finished.
ReapTask ==
    /\ reaping # <<>>
    /\ reaping' = Tail(reaping)
    /\ LET i == Head(reaping)
           busy == \E cpu \in ProcCpus : current[cpu] = i
           again == busy /\ task[i] # FreeTask
       IN /\ entries' = entries \ {i}
          /\ reapQueue' = IF again THEN Append(reapQueue, i) ELSE reapQueue
          /\ reapPending' = (reapPending \/ again)
          /\ task' = IF ~busy /\ task[i].st = "finished" THEN [task EXCEPT ![i] = FreeTask]
                     ELSE task
    /\ UNCHANGED <<plStart, plProc, current, entered, xpc, teardown, tearing, graveyard,
                   evictions>>

\* Mutant: an address space is torn down without asking the CPUs.
TearDownAtOnce ==
    /\ reaping = <<>> /\ tearing # <<>>
    /\ tearing' = Tail(tearing)
    /\ runtime' = [runtime EXCEPT ![Head(tearing)] = "gone"]
    /\ bootSlot' = [bootSlot EXCEPT ![Head(tearing)] = "empty"]
    /\ UNCHANGED <<teardown, reapPending, tstate, spc, sthread, stask, startReserved, pstate,
                   known, held, plTask, reapQueue, reaping, graveyard, evictions>>

\* One process: back on the list while some CPU still runs it, else
\* teardown_process frees the address space and clears the handle table.
TearDown ==
    /\ reaping = <<>> /\ tearing # <<>>
    /\ tearing' = Tail(tearing)
    /\ LET p == Head(tearing)
       IN IF \E cpu \in ProcCpus : ProcOn(cpu) = p
          THEN /\ teardown' = Append(teardown, p)
               /\ reapPending' = TRUE
               /\ UNCHANGED <<runtime, bootSlot>>
          ELSE /\ runtime' = [runtime EXCEPT ![p] = "gone"]
               /\ bootSlot' = [bootSlot EXCEPT ![p] = "empty"]
               /\ UNCHANGED <<teardown, reapPending>>
    /\ UNCHANGED <<tstate, spc, sthread, stask, startReserved, pstate, known, held, plTask,
                   reapQueue, reaping, graveyard, evictions>>

\* reap_observed_process_exits: a record goes once its exit can be observed or
\* its process has left the registry.
ReapRecords ==
    /\ reaping = <<>> /\ tearing = <<>> /\ graveyard # <<>>
    /\ graveyard' = SelectSeq(graveyard, LAMBDA p : p \in known /\ pstate[p] # "reaped")
    /\ graveyard' # graveyard
    /\ UNCHANGED <<plStart, plProc, plTask, reapQueue, teardown, reapPending, reaping, tearing,
                   evictions>>

-----------------------------------------------------------------------------
LifeNext ==
    \/ \E p \in Procs : CreateProcess(p) \/ SpawnFromElf(p) \/ CloseProcessHandle(p)
    \/ \E t \in Threads : ThreadCreate(t) \/ \E c \in Starters : BeginStart(c, t)
    \/ \E c \in Starters :
         \/ CheckCreated(c) \/ ReserveStart(c) \/ InstallBootstrap(c) \/ CopyOutAndCheck(c)
         \/ AddTask(c) \/ QueueEntry(c) \/ Rollback(c) \/ UndoProcess(c) \/ UndoThread(c)
    \/ \E cpu \in ProcCpus :
         \/ Schedule(cpu) \/ Trampoline(cpu) \/ CloseBootstrap(cpu) \/ LeaveUserspace(cpu)
         \/ FinishTask(cpu) \/ RecordExit(cpu) \/ MarkTasks(cpu) \/ HandToReaper(cpu)
    \/ TakeBatch \/ ReapTask \/ TearDown \/ ReapRecords

LifeSpec == LifeInit /\ [][LifeNext]_plVars

\* An address space is destroyed only when nothing can run in it any more: no
\* CPU has a task of that process as its current one and no runnable task of it
\* is left, whatever the interleaving of start, exit, fault and reaper.
TornDownUnused ==
    \A p \in Procs : runtime[p] = "gone" =>
        /\ \A cpu \in ProcCpus : ProcOn(cpu) # p
        /\ \A i \in TaskIds : task[i].proc = p => task[i].st # "ready"

\* A thread_start that fails before the process is set running leaves nothing
\* behind: once no call is busy with a process that is still in Created, its
\* start slot is free, the child has no bootstrap handle and the thread can be
\* started again.
FailedStartRollsBack ==
    \A p \in Procs :
        (pstate[p] = "created" /\ \A c \in Starters : sthread[c] # "none" => Target(c) # p) =>
            /\ ~startReserved[p] /\ bootSlot[p] = "empty"
            /\ \A t \in Threads : ThreadOf[t] = p => tstate[t] \in {"none", "idle"}

\* Both ends of a process's life under racing starters, exits and the reaper:
\* thread_start either happens or leaves no trace, and the reaper never destroys
\* an address space in use.
LifeSound == TornDownUnused /\ FailedStartRollsBack
=============================================================================
