--------------------------- MODULE ProcessProofs ----------------------------
(***************************************************************************)
(* Processes and threads from their start to their teardown, for any       *)
(* number of processes, threads and callers (ProcessLife). The theorem     *)
(* names the one discipline of the callers that the code relies on and     *)
(* does not enforce: thread_start is not called by two tasks at once.      *)
(***************************************************************************)
EXTENDS ProcessLife, TLAPS

-----------------------------------------------------------------------------
(* ProcessLife *)

\* thread_start is not called by two tasks at the same time.
OneStarter == \A c, d \in Starters : c = d

TaskStates == {"ready", "finished"}
ExitPoints == {"none", "exit", "kill", "code", "mark", "teardown", "teardown_kill", "away"}
StartPoints == {"idle", "lookup", "reserve", "boot", "copyout", "add", "entry", "rollback",
                "undo_process", "undo_thread"}

LifeType ==
    /\ pstate \in [Procs -> {"none", "created", "lost", "running", "exited", "reaped"}]
    /\ runtime \in [Procs -> {"none", "live", "gone"}]
    /\ startReserved \in [Procs -> BOOLEAN] /\ bootSlot \in [Procs -> {"empty", "child"}]
    /\ tstate \in [Threads -> {"none", "idle", "starting", "started"}]
    /\ spc \in [Starters -> StartPoints] /\ sthread \in [Starters -> Threads \cup {"none"}]
    /\ task \in [TaskIds -> [proc : Procs, st : TaskStates] \cup {FreeTask}]
    /\ current \in [ProcCpus -> TaskIds \cup {NoTask}]
    /\ xpc \in [ProcCpus -> ExitPoints]
    /\ teardown \in Seq(Procs) /\ tearing \in Seq(Procs)
    /\ known \in SUBSET Procs

Dying == Range(teardown) \cup Range(tearing)
\* A process that has a task, is being torn down, or has nothing of the kind.
TasksOf(p) == {i \in TaskIds : task[i].proc = p}
Untouched(p) == TasksOf(p) = {} /\ p \notin Dying

\* Which processes may have tasks, and that there is only ever one.
ProcessStages ==
    \A p \in Procs :
        /\ pstate[p] = "none" => p \notin known
        /\ pstate[p] \in {"none", "created", "lost"} => Untouched(p)
        /\ pstate[p] = "created" => runtime[p] = "live"
        /\ \A i, j \in TasksOf(p) : i = j
        /\ p \in Dying \/ runtime[p] = "gone" => \A i \in TasksOf(p) : task[i].st = "finished"
        /\ runtime[p] = "gone" => \A cpu \in ProcCpus : ProcOn(cpu) # p

\* The task a CPU runs exists, and has finished once its exit is under way.
TasksRun ==
    \A cpu \in ProcCpus :
        /\ Runs(cpu) => task[current[cpu]] # FreeTask
        /\ xpc[cpu] \in {"exit", "kill", "code", "mark", "teardown", "teardown_kill"} => Runs(cpu)
        /\ xpc[cpu] \in {"code", "teardown", "teardown_kill"} =>
               task[current[cpu]].st = "finished"

\* Where the starter stands says what the process and the thread look like.
StartsHeld ==
    \A c \in Starters :
        /\ spc[c] = "idle" <=> sthread[c] = "none"
        /\ spc[c] # "idle" => pstate[Target(c)] # "none"
        /\ spc[c] \in {"reserve", "boot", "copyout"} => pstate[Target(c)] = "created"
        /\ spc[c] = "add" => /\ pstate[Target(c)] = "running" /\ runtime[Target(c)] = "live"
                             /\ Untouched(Target(c))
        /\ spc[c] = "entry" => pstate[Target(c)] # "created"
        /\ (spc[c] # "idle" /\ pstate[Target(c)] = "created") =>
               /\ spc[c] \in {"lookup", "reserve", "undo_thread"} => ~startReserved[Target(c)]
               /\ spc[c] \in {"lookup", "reserve", "boot", "undo_process", "undo_thread"} =>
                      bootSlot[Target(c)] = "empty"
               /\ \A t \in Threads : (ThreadOf[t] = Target(c) /\ t # sthread[c]) =>
                      tstate[t] \in {"none", "idle"}
               /\ tstate[sthread[c]] \in {"idle", "starting"}
        /\ spc[c] # "idle" => tstate[sthread[c]] # "none"

\* Nothing of a start is left in a process that nobody is starting.
Unstarted ==
    \A p \in Procs :
        /\ pstate[p] = "none" => /\ ~startReserved[p] /\ bootSlot[p] = "empty"
                                 /\ \A t \in Threads : ThreadOf[t] = p => tstate[t] = "none"

LifeInv ==
    LifeType /\ ProcessStages /\ TasksRun /\ StartsHeld /\ Unstarted /\ FailedStartRollsBack

\* The elements of a sequence, by position.
LEMMA SetOfSequence ==
    ASSUME NEW S, NEW s \in Seq(S)
    PROVE  Range(s) = {s[i] : i \in 1 .. Len(s)}
BY DEF Range

\* What the queues of processes to tear down hold after an append and a pop.
LEMMA QueueFacts ==
    ASSUME NEW S, NEW s \in Seq(S)
    PROVE  /\ \A x \in S : /\ Append(s, x) \in Seq(S)
                           /\ Range(Append(s, x)) = Range(s) \cup {x}
           /\ s # <<>> => /\ Head(s) \in S /\ Tail(s) \in Seq(S)
                          /\ Range(s) = {Head(s)} \cup Range(Tail(s))
           /\ Range(<<>>) = {} /\ <<>> \in Seq(S)
<1>1. ASSUME NEW x \in S
      PROVE  Append(s, x) \in Seq(S) /\ Range(Append(s, x)) = Range(s) \cup {x}
  <2>1. /\ Append(s, x) \in Seq(S) /\ Len(Append(s, x)) = Len(s) + 1 /\ Len(s) \in Nat
        /\ Append(s, x)[Len(s) + 1] = x
        /\ \A i \in 1 .. Len(s) : Append(s, x)[i] = s[i]
    OBVIOUS
  <2>2. 1 .. Len(s) + 1 = (1 .. Len(s)) \cup {Len(s) + 1}
    BY <2>1
  <2>3. Range(s) = {s[i] : i \in 1 .. Len(s)}
    BY DEF Range
  <2>4. Range(Append(s, x)) = {Append(s, x)[i] : i \in 1 .. Len(s) + 1}
    BY <2>1 DEF Range
  <2>5. \A y : y \in Range(Append(s, x)) <=> y \in Range(s) \cup {x}
    <3> TAKE y
    <3>1. ASSUME y \in Range(s) PROVE y \in Range(Append(s, x))
      BY <3>1, <2>1, <2>2, <2>3, <2>4, Zenon
    <3>2. x \in Range(Append(s, x))
      <4>1. Len(s) + 1 \in 1 .. Len(s) + 1
        BY <2>1
      <4> QED BY <4>1, <2>1, <2>4, Zenon
    <3>3. ASSUME y \in Range(Append(s, x)) PROVE y \in Range(s) \cup {x}
      <4>1. PICK i \in 1 .. Len(s) + 1 : y = Append(s, x)[i]
        BY <3>3, <2>4, Zenon
      <4>2. CASE i = Len(s) + 1
        BY <4>1, <4>2, <2>1, Zenon
      <4>3. CASE i \in 1 .. Len(s)
        BY <4>1, <4>3, <2>1, <2>3, Zenon
      <4> QED BY <4>1, <4>2, <4>3, <2>2, Zenon
    <3> QED BY <3>1, <3>2, <3>3, Zenon
  <2>6. Range(Append(s, x)) = Range(s) \cup {x}
    BY <2>5, Zenon
  <2> QED BY <2>1, <2>6, Zenon
<1>2. ASSUME s # <<>>
      PROVE  /\ Head(s) \in S /\ Tail(s) \in Seq(S)
             /\ Range(s) = {Head(s)} \cup Range(Tail(s))
  <2>1. /\ Head(s) \in S /\ Tail(s) \in Seq(S) /\ Len(s) \in Nat /\ Len(s) > 0
        /\ Head(s) = s[1] /\ Len(Tail(s)) = Len(s) - 1
        /\ \A i \in 1 .. Len(s) - 1 : Tail(s)[i] = s[i + 1]
    BY <1>2
  <2>a. Range(s) = {s[i] : i \in 1 .. Len(s)}
    BY DEF Range
  <2>b. Range(Tail(s)) = {Tail(s)[i] : i \in 1 .. Len(Tail(s))}
    BY <2>1, SetOfSequence, Zenon
  <2>2. /\ Range(s) = {s[i] : i \in 1 .. Len(s)}
        /\ Range(Tail(s)) = {Tail(s)[i] : i \in 1 .. Len(s) - 1}
    BY <2>a, <2>b, <2>1, Zenon
  <2>3. \A y : y \in Range(s) <=> y \in {Head(s)} \cup Range(Tail(s))
    <3> TAKE y
    <3>1. ASSUME y \in Range(s) PROVE y \in {Head(s)} \cup Range(Tail(s))
      <4>1. PICK i \in 1 .. Len(s) : y = s[i]
        BY <3>1, <2>2, Zenon
      <4>2. CASE i = 1
        BY <4>1, <4>2, <2>1, Zenon
      <4>3. CASE i # 1
        <5>1. i - 1 \in 1 .. Len(s) - 1 /\ Tail(s)[i - 1] = y
          BY <4>1, <4>3, <2>1
        <5> QED BY <5>1, <2>2, Zenon
      <4> QED BY <4>2, <4>3, Zenon
    <3>2. ASSUME y \in Range(Tail(s)) PROVE y \in Range(s)
      <4>1. PICK i \in 1 .. Len(s) - 1 : y = Tail(s)[i]
        BY <3>2, <2>2, Zenon
      <4>2. i + 1 \in 1 .. Len(s) /\ s[i + 1] = y
        BY <4>1, <2>1
      <4> QED BY <4>2, <2>2, Zenon
    <3>3. Head(s) \in Range(s)
      <4>1. 1 \in 1 .. Len(s)
        BY <2>1
      <4> QED BY <4>1, <2>1, <2>2, Zenon
    <3> QED BY <3>1, <3>2, <3>3, Zenon
  <2>4. Range(s) = {Head(s)} \cup Range(Tail(s))
    BY <2>3, Zenon
  <2> QED BY <2>1, <2>4, Zenon
<1>3. Range(<<>>) = {} /\ <<>> \in Seq(S)
  BY DEF Range
<1> QED BY <1>1, <1>2, <1>3, Zenon

\* The invariant holds before the first process starts.
LEMMA LifeInitInv ==
    LifeInit => LifeInv
<1> SUFFICES ASSUME LifeInit PROVE LifeInv
  BY Zenon
<1>0. Dying = {}
  <2>1. Range(<<>>) = {}
    BY DEF Range
  <2> QED BY <2>1, Zenon DEF LifeInit, Dying
<1>1. LifeType
  BY DEF LifeInit, LifeType, StartPoints, ExitPoints, TaskStates, FreeTask, NoTask
<1>2. \A p \in Procs : TasksOf(p) = {}
  BY LifeAssumption, Zenon DEF LifeInit, TasksOf, FreeTask
<1>3. \A cpu \in ProcCpus : ~Runs(cpu)
  BY Zenon DEF LifeInit, Runs
<1>4. ProcessStages
  BY <1>0, <1>2, <1>3, Zenon DEF LifeInit, ProcessStages, Untouched
<1>5. TasksRun
  BY <1>3, Zenon DEF LifeInit, TasksRun
<1>6. StartsHeld
  BY Zenon DEF LifeInit, StartsHeld
<1>7. Unstarted /\ FailedStartRollsBack
  BY Zenon DEF LifeInit, Unstarted, FailedStartRollsBack
<1> QED BY <1>1, <1>4, <1>5, <1>6, <1>7, Zenon DEF LifeInv

\* The tasks, the CPUs and the queues of the reaper are the same after a step that
\* touches none of them.
LEMMA TasksSame ==
    ASSUME UNCHANGED <<task, current, teardown, tearing>>
    PROVE  /\ \A p : TasksOf(p)' = TasksOf(p) /\ (Untouched(p)' <=> Untouched(p))
           /\ \A cpu : ProcOn(cpu)' = ProcOn(cpu) /\ (Runs(cpu)' <=> Runs(cpu))
           /\ Dying' = Dying
BY Zenon DEF TasksOf, Untouched, Dying, ProcOn, Runs

\* A starter at work has a thread, and the thread a process.
LEMMA TargetType ==
    ASSUME LifeInv, NEW c \in Starters
    PROVE  /\ spc[c] # "idle" => Target(c) \in Procs /\ sthread[c] \in Threads
           /\ sthread[c] # "none" => Target(c) \in Procs
BY LifeAssumption DEF LifeInv, LifeType, StartsHeld, Target

\* A process is created or spawned with nothing of an earlier life about it.
LEMMA CreateStep ==
    ASSUME LifeInv, NEW p \in Procs, CreateProcess(p) \/ SpawnFromElf(p)
    PROVE  LifeInv'
<1>0. pstate \in [Procs -> {"none", "created", "lost", "running", "exited", "reaped"}]
  BY Zenon DEF LifeInv, LifeType
<1>1. /\ pstate[p] = "none"
      /\ pstate' = [pstate EXCEPT ![p] = "created"] \/ pstate' = [pstate EXCEPT ![p] = "lost"]
      /\ UNCHANGED <<plStart, plTask, plReap>>
      /\ known' \subseteq known \cup {p}
      /\ \/ runtime' = [runtime EXCEPT ![p] = "live"]
         \/ pstate'[p] = "lost" /\ runtime' = runtime
         \/ pstate'[p] = "lost" /\ runtime' = [runtime EXCEPT ![p] = "gone"]
  <2>1. CASE CreateProcess(p)
    BY <2>1, <1>0, Zenon DEF CreateProcess
  <2>2. CASE SpawnFromElf(p)
    BY <2>2, <1>0, Zenon DEF SpawnFromElf
  <2> QED BY <2>1, <2>2, Zenon
<1>2. UNCHANGED <<task, current, teardown, tearing, xpc, tstate, spc, sthread, startReserved, bootSlot>>
  BY <1>1, Zenon DEF plStart, plTask, plReap
<1>3. /\ \A q : TasksOf(q)' = TasksOf(q) /\ (Untouched(q)' <=> Untouched(q))
      /\ \A cpu : ProcOn(cpu)' = ProcOn(cpu) /\ (Runs(cpu)' <=> Runs(cpu))
      /\ Dying' = Dying
  BY <1>2, TasksSame, Zenon
<1>4. Untouched(p) /\ TasksOf(p) = {} /\ p \notin Dying
  BY <1>1, Zenon DEF LifeInv, ProcessStages, Untouched
<1>5. \A cpu \in ProcCpus : ProcOn(cpu) # p
  <2> SUFFICES ASSUME NEW cpu \in ProcCpus PROVE ProcOn(cpu) # p
    BY Zenon
  <2>1. CASE Runs(cpu)
    <3>1. current[cpu] \in TaskIds
      BY <2>1, Zenon DEF Runs, LifeInv, LifeType
    <3> QED BY <3>1, <2>1, <1>4, Zenon DEF ProcOn, TasksOf
  <2>2. CASE ~Runs(cpu)
    BY <2>2, LifeAssumption, Zenon DEF ProcOn
  <2> QED BY <2>1, <2>2, Zenon
<1>6. LifeType'
  <2>1. pstate' \in [Procs -> {"none", "created", "lost", "running", "exited", "reaped"}]
    BY <1>0, <1>1, Zenon
  <2>2. runtime' \in [Procs -> {"none", "live", "gone"}]
    BY <1>1 DEF LifeInv, LifeType
  <2>3. known' \in SUBSET Procs
    BY <1>1, Zenon DEF LifeInv, LifeType
  <2> QED BY <2>1, <2>2, <2>3, <1>2, Zenon DEF LifeInv, LifeType
<1>7. ProcessStages'
  <2> SUFFICES ASSUME NEW q \in Procs
               PROVE  /\ pstate'[q] = "none" => q \notin known'
                      /\ pstate'[q] \in {"none", "created", "lost"} => Untouched(q)
                      /\ pstate'[q] = "created" => runtime'[q] = "live"
                      /\ \A i, j \in TasksOf(q) : i = j
                      /\ q \in Dying \/ runtime'[q] = "gone" =>
                             \A i \in TasksOf(q) : task[i].st = "finished"
                      /\ runtime'[q] = "gone" => \A cpu \in ProcCpus : ProcOn(cpu) # q
    BY <1>2, <1>3, Zenon DEF ProcessStages
  <2>1. CASE q = p
    BY <2>1, <1>1, <1>4, <1>5, Zenon DEF LifeInv, LifeType
  <2>2. CASE q # p
    <3>1. pstate'[q] = pstate[q] /\ runtime'[q] = runtime[q] /\ (q \in known' => q \in known)
      BY <2>2, <1>1 DEF LifeInv, LifeType
    <3> QED BY <3>1, Zenon DEF LifeInv, ProcessStages
  <2> QED BY <2>1, <2>2, Zenon
<1>8. TasksRun'
  BY <1>2, <1>3, Zenon DEF LifeInv, TasksRun
<1>9. StartsHeld'
  <2> SUFFICES ASSUME NEW c \in Starters, spc[c] # "idle"
               PROVE  pstate'[Target(c)] = pstate[Target(c)] /\ runtime'[Target(c)] = runtime[Target(c)]
    BY <1>2, <1>3 DEF LifeInv, StartsHeld, Target
  <2>1. Target(c) # p
    BY <1>1, Zenon DEF LifeInv, StartsHeld
  <2> QED BY <2>1, <1>1, TargetType, Zenon DEF LifeInv, LifeType
<1>10. Unstarted'
  BY <1>1, <1>2 DEF LifeInv, LifeType, Unstarted
<1>11. FailedStartRollsBack'
  <2> SUFFICES ASSUME NEW q \in Procs, pstate'[q] = "created",
                      \A c \in Starters : sthread[c] # "none" => Target(c) # q
               PROVE  /\ ~startReserved[q] /\ bootSlot[q] = "empty"
                      /\ \A t \in Threads : ThreadOf[t] = q => tstate[t] \in {"none", "idle"}
    BY <1>2, Zenon DEF FailedStartRollsBack, Target
  <2>1. CASE q = p
    BY <2>1, <1>1, Zenon DEF LifeInv, Unstarted
  <2>2. CASE q # p
    <3>1. pstate[q] = "created"
      BY <2>2, <1>0, <1>1, Zenon
    <3> QED BY <3>1, Zenon DEF LifeInv, FailedStartRollsBack
  <2> QED BY <2>1, <2>2, Zenon
<1> QED BY <1>6, <1>7, <1>8, <1>9, <1>10, <1>11, Zenon DEF LifeInv

\* Steps that only move what the reaper still has to do: a process is handed over
\* when its tasks have finished.
LEMMA LifeKept ==
    ASSUME LifeInv,
           UNCHANGED <<pstate, runtime, tstate, spc, sthread, startReserved, bootSlot, task, current>>,
           known' \subseteq known, xpc' \in [ProcCpus -> ExitPoints],
           teardown' \in Seq(Procs), tearing' \in Seq(Procs),
           \A p \in Dying' : p \in Dying \/ (/\ TasksOf(p) # {}
                                             /\ \A i \in TasksOf(p) : task[i].st = "finished"),
           TasksRun'
    PROVE  LifeInv'
<1>1. LifeType'
  BY Zenon DEF LifeInv, LifeType
<1>2. /\ \A p : TasksOf(p)' = TasksOf(p)
      /\ \A cpu : ProcOn(cpu)' = ProcOn(cpu)
      /\ \A c : Target(c)' = Target(c)
  BY Zenon DEF TasksOf, ProcOn, Runs, Target
<1>3. \A p : Untouched(p) => Untouched(p)'
  BY <1>2, Zenon DEF Untouched
<1>4. ProcessStages'
  BY <1>2, <1>3, Zenon DEF LifeInv, ProcessStages, Untouched
<1>5. StartsHeld'
  BY <1>2, <1>3 DEF LifeInv, StartsHeld
<1>6. Unstarted' /\ FailedStartRollsBack'
  BY <1>2, Zenon DEF LifeInv, Unstarted, FailedStartRollsBack
<1> QED BY <1>1, <1>4, <1>5, <1>6, Zenon DEF LifeInv

\* Closing the last process handle disturbs no running task.
LEMMA CloseHandleStep ==
    ASSUME LifeInv, NEW p \in Procs, CloseProcessHandle(p)
    PROVE  LifeInv'
<1>1. /\ known' \subseteq known
      /\ UNCHANGED <<pstate, runtime, plStart, plTask, plReap>>
  BY Zenon DEF CloseProcessHandle
<1>2. /\ UNCHANGED <<pstate, runtime, tstate, spc, sthread, startReserved, bootSlot, task, current>>
      /\ UNCHANGED <<xpc, teardown, tearing>>
  BY <1>1, Zenon DEF plStart, plTask, plReap
<1>3. Dying' = Dying /\ TasksRun'
  BY <1>2, Zenon DEF Dying, LifeInv, TasksRun, Runs
<1>4. /\ xpc' \in [ProcCpus -> ExitPoints] /\ teardown' \in Seq(Procs) /\ tearing' \in Seq(Procs)
  BY <1>2, Zenon DEF LifeInv, LifeType
<1> QED BY <1>1, <1>2, <1>3, <1>4, LifeKept, Zenon

\* The batches the reaper takes, and the exit records it drops.
LEMMA BatchStep ==
    ASSUME LifeInv, TakeBatch \/ ReapRecords
    PROVE  LifeInv'
<1>1. /\ UNCHANGED <<plStart, plProc, plTask>>
      /\ \/ tearing = <<>> /\ tearing' = teardown /\ teardown' = <<>>
         \/ UNCHANGED <<tearing, teardown>>
  BY Zenon DEF TakeBatch, ReapRecords
<1>2. UNCHANGED <<pstate, runtime, tstate, spc, sthread, startReserved, bootSlot, task, current, known, xpc>>
  BY <1>1, Zenon DEF plStart, plTask, plProc
<1>3. TasksRun'
  BY <1>2, Zenon DEF LifeInv, TasksRun, Runs
<1>4. /\ xpc' \in [ProcCpus -> ExitPoints] /\ teardown' \in Seq(Procs) /\ tearing' \in Seq(Procs)
  BY <1>1, <1>2 DEF LifeInv, LifeType
<1>5. Dying' = Dying
  BY <1>1, Zenon DEF Dying
<1> QED BY <1>2, <1>3, <1>4, <1>5, LifeKept, Zenon

\* A CPU enters userspace, leaves it, and at the end hands the process over.
LEMMA CpuStep ==
    ASSUME LifeInv, NEW cpu \in ProcCpus,
           Trampoline(cpu) \/ LeaveUserspace(cpu) \/ HandToReaper(cpu)
    PROVE  LifeInv'
<1>1. /\ UNCHANGED <<plStart, plProc, task, current, tearing>>
      /\ Runs(cpu)
      /\ \E x \in {"none", "kill", "exit", "away"} : xpc' = [xpc EXCEPT ![cpu] = x]
  <2>1. CASE Trampoline(cpu)
    BY <2>1, Zenon DEF Trampoline, plReap
  <2>2. CASE LeaveUserspace(cpu)
    BY <2>2, Zenon DEF LeaveUserspace, plReap
  <2>3. CASE HandToReaper(cpu)
    BY <2>3, Zenon DEF HandToReaper, LifeInv, TasksRun
  <2> QED BY <2>1, <2>2, <2>3, Zenon
<1>2. UNCHANGED <<pstate, runtime, tstate, spc, sthread, startReserved, bootSlot, task, current, known, tearing>>
  BY <1>1, Zenon DEF plStart, plProc
<1>3. TasksRun' /\ xpc' \in [ProcCpus -> ExitPoints]
  BY <1>1, <1>2 DEF LifeInv, LifeType, TasksRun, Runs, ExitPoints
<1>4. /\ current[cpu] \in TaskIds /\ task[current[cpu]] # FreeTask
      /\ ProcOn(cpu) \in Procs /\ current[cpu] \in TasksOf(ProcOn(cpu))
  BY <1>1, Zenon DEF LifeInv, LifeType, TasksRun, Runs, ProcOn, TasksOf
<1>5. \/ UNCHANGED teardown
      \/ teardown' = Append(teardown, ProcOn(cpu)) /\ task[current[cpu]].st = "finished"
  BY Zenon DEF Trampoline, LeaveUserspace, HandToReaper, plReap, LifeInv, TasksRun
<1>6. teardown \in Seq(Procs) /\ tearing \in Seq(Procs)
  BY Zenon DEF LifeInv, LifeType
<1>7. teardown' \in Seq(Procs)
  BY <1>4, <1>5, <1>6
<1>8. \A p \in Dying' : p \in Dying \/ (TasksOf(p) # {} /\ \A i \in TasksOf(p) : task[i].st = "finished")
  <2>1. CASE UNCHANGED teardown
    BY <2>1, <1>2, Zenon DEF Dying
  <2>2. CASE teardown' = Append(teardown, ProcOn(cpu)) /\ task[current[cpu]].st = "finished"
    <3>1. Range(teardown') = Range(teardown) \cup {ProcOn(cpu)}
      BY <2>2, <1>4, <1>6, QueueFacts
    <3>2. \A i \in TasksOf(ProcOn(cpu)) : i = current[cpu]
      BY <1>4, Zenon DEF LifeInv, ProcessStages
    <3> QED BY <3>1, <3>2, <2>2, <1>2, <1>4, Zenon DEF Dying
  <2> QED BY <2>1, <2>2, <1>5, Zenon
<1> QED BY <1>2, <1>3, <1>6, <1>7, <1>8, LifeKept, Zenon
\* Tasks finish: they stay where they are and are not runnable any more.
LEMMA FinishStep ==
    ASSUME LifeInv, NEW cpu \in ProcCpus, FinishTask(cpu) \/ MarkTasks(cpu)
    PROVE  LifeInv'
<1>1. /\ UNCHANGED <<plStart, plProc, current, teardown, tearing>> /\ Runs(cpu)
      /\ \/ xpc[cpu] = "exit" /\ xpc' = [xpc EXCEPT ![cpu] = "code"]
         \/ xpc[cpu] = "mark" /\ xpc' = [xpc EXCEPT ![cpu] = "teardown_kill"]
  BY Zenon DEF FinishTask, MarkTasks, plReap, LifeInv, TasksRun
<1>2. UNCHANGED <<pstate, runtime, tstate, spc, sthread, startReserved, bootSlot, known>>
  BY <1>1, Zenon DEF plStart, plProc
<1>3. task \in [TaskIds -> [proc : Procs, st : TaskStates] \cup {FreeTask}]
  BY Zenon DEF LifeInv, LifeType
<1>4. /\ current[cpu] \in TaskIds /\ task[current[cpu]] # FreeTask
      /\ current[cpu] \in TasksOf(ProcOn(cpu)) /\ ProcOn(cpu) \in Procs
  BY <1>1, <1>3, Zenon DEF LifeInv, LifeType, TasksRun, Runs, ProcOn, TasksOf
<1>5. /\ task' \in [TaskIds -> [proc : Procs, st : TaskStates] \cup {FreeTask}]
      /\ \A i \in TaskIds : /\ task'[i] = FreeTask <=> task[i] = FreeTask
                            /\ task'[i].proc = task[i].proc
                            /\ task'[i].st # task[i].st => task'[i].st = "finished"
      /\ task'[current[cpu]].st = "finished"
  <2>1. CASE FinishTask(cpu)
    BY <2>1, <1>3, <1>4, Zenon DEF FinishTask, TaskStates, FreeTask
  <2>2. CASE MarkTasks(cpu)
    <3> DEFINE mine == {i \in TaskIds : task[i].proc = ProcOn(cpu) /\ task[i].st \in {"ready", "finished"}}
    <3>1. task' = [i \in TaskIds |-> IF i \in mine THEN [task[i] EXCEPT !.st = "finished"] ELSE task[i]]
      BY <2>2, Zenon DEF MarkTasks
    <3>2. \A i \in mine : task[i] \in [proc : Procs, st : TaskStates] /\ task[i] # FreeTask
      BY <1>3 DEF FreeTask
    <3>3. current[cpu] \in mine
      BY <1>3, <1>4, Zenon DEF TasksOf, TaskStates
    <3>4. ASSUME NEW i \in TaskIds
          PROVE  /\ task'[i] \in [proc : Procs, st : TaskStates] \cup {FreeTask}
                 /\ task'[i] = FreeTask <=> task[i] = FreeTask
                 /\ task'[i].proc = task[i].proc
                 /\ task'[i].st # task[i].st => task'[i].st = "finished"
                 /\ i \in mine => task'[i].st = "finished"
      <4>1. CASE i \in mine
        <5>1. task'[i] = [task[i] EXCEPT !.st = "finished"] /\ task[i] \in [proc : Procs, st : TaskStates]
          BY <3>1, <3>2, <4>1, Zenon
        <5> QED BY <5>1, <4>1, <3>2 DEF TaskStates, FreeTask
      <4>2. CASE i \notin mine
        BY <3>1, <4>2, <1>3, Zenon
      <4> QED BY <4>1, <4>2, Zenon
    <3> HIDE DEF mine
    <3>5. task' = [i \in TaskIds |-> task'[i]]
      BY <3>1, Zenon
    <3>6. task' \in [TaskIds -> [proc : Procs, st : TaskStates] \cup {FreeTask}]
      BY <3>4, <3>5, Zenon
    <3>7. task'[current[cpu]].st = "finished"
      BY <3>3, <3>4, <1>4, Zenon
    <3> QED BY <3>4, <3>6, <3>7, Zenon
  <2> QED BY <2>1, <2>2, Zenon
<1>6. /\ \A p : TasksOf(p)' = TasksOf(p)
      /\ Dying' = Dying
      /\ \A p : Untouched(p)' = Untouched(p)
      /\ \A c : Target(c)' = Target(c)
  BY <1>1, <1>2, <1>5 DEF TasksOf, Dying, Untouched, Target
<1>7. \A c \in ProcCpus : ProcOn(c)' = ProcOn(c)
  BY <1>1, <1>5, Zenon DEF ProcOn, Runs, LifeInv, LifeType
<1>8. LifeType'
  BY <1>1, <1>2, <1>5, Zenon DEF LifeInv, LifeType, ExitPoints
<1>9. ProcessStages'
  BY <1>2, <1>5, <1>6, <1>7 DEF LifeInv, ProcessStages, TasksOf
<1>10. TasksRun'
  BY <1>1, <1>5 DEF LifeInv, LifeType, TasksRun, Runs
<1>11. StartsHeld'
  BY <1>2, <1>6, Zenon DEF LifeInv, StartsHeld
<1>12. Unstarted' /\ FailedStartRollsBack'
  BY <1>2, <1>6, Zenon DEF LifeInv, Unstarted, FailedStartRollsBack
<1> QED BY <1>8, <1>9, <1>10, <1>11, <1>12, Zenon DEF LifeInv

\* A slot is freed when its task has finished and no CPU runs it.
LEMMA ReapTaskStep ==
    ASSUME LifeInv, ReapTask
    PROVE  LifeInv'
<1>1. /\ UNCHANGED <<plStart, plProc, current, xpc, teardown, tearing>>
      /\ \/ task' = task
         \/ \E i : /\ \A cpu \in ProcCpus : current[cpu] # i
                   /\ task' = [task EXCEPT ![i] = FreeTask]
  BY Zenon DEF ReapTask
<1>2. UNCHANGED <<pstate, runtime, tstate, spc, sthread, startReserved, bootSlot, known>>
  BY <1>1, Zenon DEF plStart, plProc
<1>3. /\ task' \in [TaskIds -> [proc : Procs, st : TaskStates] \cup {FreeTask}]
      /\ \A j \in TaskIds : task'[j] = task[j] \/ (task'[j] = FreeTask /\ \A cpu \in ProcCpus : current[cpu] # j)
  BY <1>1 DEF LifeInv, LifeType
<1>4. \A p \in Procs : /\ TasksOf(p)' \subseteq TasksOf(p)
                       /\ \A j \in TasksOf(p)' : task'[j] = task[j]
  BY <1>3, LifeAssumption DEF TasksOf, FreeTask
<1>5. /\ Dying' = Dying
      /\ \A c : Target(c)' = Target(c)
  BY <1>1, <1>2, Zenon DEF Dying, Target
<1>6. \A p \in Procs : Untouched(p) => Untouched(p)'
  BY <1>4, <1>5, Zenon DEF Untouched
<1>7. \A c \in ProcCpus : /\ ProcOn(c)' = ProcOn(c) /\ Runs(c)' = Runs(c)
                          /\ Runs(c) => task'[current[c]] = task[current[c]]
  BY <1>1, <1>3, Zenon DEF ProcOn, Runs, LifeInv, LifeType
<1>8. LifeType'
  BY <1>1, <1>2, <1>3, Zenon DEF LifeInv, LifeType
<1>9. ProcessStages'
  BY <1>2, <1>4, <1>5, <1>6, <1>7 DEF LifeInv, ProcessStages
<1>10. TasksRun'
  BY <1>1, <1>7, Zenon DEF LifeInv, TasksRun
<1>11. StartsHeld'
  BY <1>2, <1>5, <1>6, TargetType, Zenon DEF LifeInv, StartsHeld
<1>12. Unstarted' /\ FailedStartRollsBack'
  BY <1>2, <1>5, Zenon DEF LifeInv, Unstarted, FailedStartRollsBack
<1> QED BY <1>8, <1>9, <1>10, <1>11, <1>12, Zenon DEF LifeInv

\* A CPU picks a runnable task, whose address space is therefore still there.
LEMMA ScheduleStep ==
    ASSUME LifeInv, NEW cpu \in ProcCpus, Schedule(cpu)
    PROVE  LifeInv'
<1>1. /\ UNCHANGED <<plStart, plProc, task, plReap>>
      /\ xpc' = [xpc EXCEPT ![cpu] = "none"]
      /\ \E i \in {NoTask} \cup {j \in TaskIds : task[j].st = "ready"} : current' = [current EXCEPT ![cpu] = i]
  BY Zenon DEF Schedule
<1>2. UNCHANGED <<pstate, runtime, tstate, spc, sthread, startReserved, bootSlot, known, teardown, tearing>>
  BY <1>1, Zenon DEF plStart, plProc, plReap
<1>3. /\ \A p : TasksOf(p)' = TasksOf(p) /\ Untouched(p)' = Untouched(p)
      /\ Dying' = Dying
      /\ \A c : Target(c)' = Target(c)
  BY <1>1, <1>2, Zenon DEF TasksOf, Untouched, Dying, Target
<1>4. current \in [ProcCpus -> TaskIds \cup {NoTask}] /\ xpc \in [ProcCpus -> ExitPoints]
  BY Zenon DEF LifeInv, LifeType
<1>5. \A c \in ProcCpus : c # cpu => /\ ProcOn(c)' = ProcOn(c) /\ Runs(c)' = Runs(c)
                                     /\ current'[c] = current[c] /\ xpc'[c] = xpc[c]
  BY <1>1, <1>4, Zenon DEF ProcOn, Runs
<1>6. /\ current' \in [ProcCpus -> TaskIds \cup {NoTask}] /\ xpc' \in [ProcCpus -> ExitPoints]
      /\ xpc'[cpu] = "none"
      /\ Runs(cpu)' => task[current'[cpu]].st = "ready" /\ task[current'[cpu]] # FreeTask
  BY <1>1, <1>4 DEF Runs, ExitPoints, FreeTask
<1>7. \A p \in Procs : runtime[p] = "gone" => ProcOn(cpu)' # p
  <2> SUFFICES ASSUME NEW p \in Procs, runtime[p] = "gone", ProcOn(cpu)' = p PROVE FALSE
    BY Zenon
  <2>1. Runs(cpu)' /\ current'[cpu] \in TasksOf(p)
    BY <1>1, <1>6, LifeAssumption, Zenon DEF ProcOn, Runs, TasksOf
  <2> QED BY <2>1, <1>6, Zenon DEF LifeInv, ProcessStages
<1>8. LifeType'
  BY <1>1, <1>2, <1>6, Zenon DEF LifeInv, LifeType
<1>9. ProcessStages'
  BY <1>1, <1>2, <1>3, <1>5, <1>7 DEF LifeInv, ProcessStages
<1>10. TasksRun'
  BY <1>1, <1>5, <1>6 DEF LifeInv, TasksRun
<1>11. StartsHeld'
  BY <1>2, <1>3, Zenon DEF LifeInv, StartsHeld
<1>12. Unstarted' /\ FailedStartRollsBack'
  BY <1>2, <1>3, Zenon DEF LifeInv, Unstarted, FailedStartRollsBack
<1> QED BY <1>8, <1>9, <1>10, <1>11, <1>12, Zenon DEF LifeInv
\* A process ends once it runs, and no start of it is under way then.
LEMMA RecordExitStep ==
    ASSUME LifeInv, NEW cpu \in ProcCpus, RecordExit(cpu)
    PROVE  LifeInv'
<1> DEFINE p == ProcOn(cpu)
<1>1. /\ UNCHANGED <<plStart, runtime, task, current, teardown, tearing>> /\ Runs(cpu)
      /\ \/ xpc[cpu] = "code" /\ xpc' = [xpc EXCEPT ![cpu] = "teardown"]
         \/ xpc[cpu] = "kill" /\ xpc' = [xpc EXCEPT ![cpu] = "mark"]
      /\ pstate' = pstate \/ pstate' = [pstate EXCEPT ![p] = "reaped"]
      /\ known' \subseteq known
  <2>1. pstate' = pstate \/ pstate' = [pstate EXCEPT ![p] = "reaped"]
    BY Zenon DEF RecordExit, LifeInv, LifeType
  <2> QED BY <2>1, Zenon DEF RecordExit, LifeInv, TasksRun
<1>2. UNCHANGED <<tstate, spc, sthread, startReserved, bootSlot>>
  BY <1>1, Zenon DEF plStart
<1>3. /\ current[cpu] \in TasksOf(p) /\ p \in Procs
  BY <1>1, Zenon DEF LifeInv, LifeType, TasksRun, Runs, ProcOn, TasksOf
<1>4. pstate[p] \in {"running", "exited", "reaped"}
  BY <1>3 DEF LifeInv, LifeType, ProcessStages, Untouched
<1>5. /\ \A q : TasksOf(q)' = TasksOf(q) /\ Untouched(q)' = Untouched(q)
      /\ \A c : ProcOn(c)' = ProcOn(c) /\ Runs(c)' = Runs(c)
      /\ Dying' = Dying
      /\ \A c : Target(c)' = Target(c)
  BY <1>1, <1>2, Zenon DEF TasksOf, Untouched, ProcOn, Runs, Dying, Target
<1>6. /\ pstate' \in [Procs -> {"none", "created", "lost", "running", "exited", "reaped"}]
      /\ \A q \in Procs : pstate'[q] = pstate[q] \/ (q = p /\ pstate'[q] = "reaped")
  BY <1>1 DEF LifeInv, LifeType
<1> HIDE DEF p
<1>7. LifeType'
  BY <1>1, <1>2, <1>6 DEF LifeInv, LifeType, ExitPoints
<1>8. ProcessStages'
  BY <1>1, <1>4, <1>5, <1>6 DEF LifeInv, ProcessStages
<1>9. TasksRun'
  BY <1>1, <1>5 DEF LifeInv, LifeType, TasksRun
<1>10. StartsHeld'
  <2>1. ~Untouched(p)
    BY <1>3, Zenon DEF Untouched
  <2>2. \A c \in Starters : spc[c] # "idle" => /\ Target(c) \in Procs
                                               /\ pstate'[Target(c)] = pstate[Target(c)]
                                                  \/ (Target(c) = p /\ pstate'[Target(c)] = "reaped")
    BY <1>6, TargetType, Zenon
  <2> QED BY <2>1, <2>2, <1>1, <1>2, <1>4, <1>5 DEF LifeInv, StartsHeld
<1>11. Unstarted' /\ FailedStartRollsBack'
  BY <1>2, <1>5, <1>6 DEF LifeInv, Unstarted, FailedStartRollsBack
<1> QED BY <1>7, <1>8, <1>9, <1>10, <1>11, Zenon DEF LifeInv

\* The handle table loses the bootstrap channel of a process that runs or ran.
LEMMA SlotEmptied ==
    ASSUME LifeInv, NEW p \in Procs,
           UNCHANGED <<pstate, tstate, spc, sthread, startReserved, task, current, known>>,
           bootSlot' = bootSlot \/ bootSlot' = [bootSlot EXCEPT ![p] = "empty"]
    PROVE  Unstarted' /\ FailedStartRollsBack'
<1>1. \A q \in Procs : bootSlot'[q] = bootSlot[q] \/ bootSlot'[q] = "empty"
  BY Zenon DEF LifeInv, LifeType
<1>2. \A c : Target(c)' = Target(c)
  BY Zenon DEF Target
<1> QED BY <1>1, <1>2 DEF LifeInv, Unstarted, FailedStartRollsBack

\* A process that closes its own bootstrap handle disturbs no task.
LEMMA CloseBootstrapStep ==
    ASSUME LifeInv, NEW cpu \in ProcCpus, CloseBootstrap(cpu)
    PROVE  LifeInv'
<1> DEFINE p == ProcOn(cpu)
<1>1. /\ UNCHANGED <<tstate, spc, sthread, startReserved, plProc, plTask, plReap>> /\ Runs(cpu)
      /\ bootSlot' = [bootSlot EXCEPT ![p] = "empty"]
  BY Zenon DEF CloseBootstrap
<1>2. UNCHANGED <<pstate, runtime, known, task, current, xpc, teardown, tearing>>
  BY <1>1, Zenon DEF plProc, plTask, plReap
<1>3. p \in Procs
  BY <1>1, Zenon DEF LifeInv, LifeType, TasksRun, Runs, ProcOn
<1>4. /\ \A q : TasksOf(q)' = TasksOf(q) /\ Untouched(q)' = Untouched(q)
      /\ \A c : ProcOn(c)' = ProcOn(c) /\ Runs(c)' = Runs(c)
      /\ Dying' = Dying
      /\ \A c : Target(c)' = Target(c)
  BY <1>1, <1>2, Zenon DEF TasksOf, Untouched, ProcOn, Runs, Dying, Target
<1> HIDE DEF p
<1>5. /\ bootSlot' \in [Procs -> {"empty", "child"}]
      /\ \A q \in Procs : bootSlot'[q] = bootSlot[q] \/ bootSlot'[q] = "empty"
  BY <1>1, Zenon DEF LifeInv, LifeType
<1>6. LifeType'
  BY <1>1, <1>2, <1>5, Zenon DEF LifeInv, LifeType
<1>7. ProcessStages' /\ TasksRun'
  BY <1>2, <1>4 DEF LifeInv, ProcessStages, TasksRun
<1>8. StartsHeld'
  BY <1>1, <1>2, <1>4, <1>5, TargetType, Zenon DEF LifeInv, StartsHeld
<1>9. Unstarted' /\ FailedStartRollsBack'
  BY <1>1, <1>2, <1>3, SlotEmptied, Zenon
<1> QED BY <1>6, <1>7, <1>8, <1>9, Zenon DEF LifeInv

\* teardown_process frees an address space no CPU runs in, of a process whose
\* tasks have finished.
LEMMA TearDownStep ==
    ASSUME LifeInv, TearDown
    PROVE  LifeInv'
<1> DEFINE p == Head(tearing)
<1>1. /\ tearing # <<>> /\ tearing' = Tail(tearing)
      /\ UNCHANGED <<tstate, spc, sthread, startReserved, pstate, known, plTask>>
      /\ \/ teardown' = Append(teardown, p) /\ UNCHANGED <<runtime, bootSlot>>
         \/ /\ \A cpu \in ProcCpus : ProcOn(cpu) # p
            /\ runtime' = [runtime EXCEPT ![p] = "gone"]
            /\ bootSlot' = [bootSlot EXCEPT ![p] = "empty"]
            /\ UNCHANGED teardown
  BY Zenon DEF TearDown
<1>2. UNCHANGED <<task, current, xpc>>
  BY <1>1, Zenon DEF plTask
<1>3. teardown \in Seq(Procs) /\ tearing \in Seq(Procs)
  BY Zenon DEF LifeInv, LifeType
<1>4. p \in Procs /\ tearing' \in Seq(Procs) /\ Range(tearing) = {p} \cup Range(tearing')
  BY <1>1, <1>3, QueueFacts, Zenon
<1>5. CASE teardown' = Append(teardown, p) /\ UNCHANGED <<runtime, bootSlot>>
  <2>1. teardown' \in Seq(Procs) /\ Range(teardown') = Range(teardown) \cup {p}
    BY <1>3, <1>4, <1>5, QueueFacts
  <2>2. Dying' = Dying
    BY <2>1, <1>4, Zenon DEF Dying
  <2>3. TasksRun' /\ xpc' \in [ProcCpus -> ExitPoints]
    BY <1>2, Zenon DEF LifeInv, LifeType, TasksRun, Runs
  <2> QED BY <2>1, <2>2, <2>3, <1>1, <1>2, <1>4, <1>5, LifeKept, Zenon
<1>6. CASE /\ \A cpu \in ProcCpus : ProcOn(cpu) # p
           /\ runtime' = [runtime EXCEPT ![p] = "gone"]
           /\ bootSlot' = [bootSlot EXCEPT ![p] = "empty"]
           /\ UNCHANGED teardown
  <2>1. p \in Dying /\ Dying' \subseteq Dying
    BY <1>4, <1>6, Zenon DEF Dying
  <2>2. /\ pstate[p] \notin {"none", "created", "lost"}
        /\ \A i \in TasksOf(p) : task[i].st = "finished"
    BY <2>1, <1>4, Zenon DEF LifeInv, ProcessStages, Untouched
  <2>3. /\ \A q : TasksOf(q)' = TasksOf(q)
        /\ \A q : Untouched(q) => Untouched(q)'
        /\ \A c : ProcOn(c)' = ProcOn(c) /\ Runs(c)' = Runs(c)
        /\ \A c : Target(c)' = Target(c)
    BY <1>1, <1>2, <2>1, Zenon DEF TasksOf, Untouched, ProcOn, Runs, Target
  <2>4. /\ bootSlot' \in [Procs -> {"empty", "child"}] /\ runtime' \in [Procs -> {"none", "live", "gone"}]
        /\ \A q \in Procs : bootSlot'[q] = bootSlot[q] \/ bootSlot'[q] = "empty"
        /\ \A q \in Procs : runtime'[q] = IF q = p THEN "gone" ELSE runtime[q]
    BY <1>6, Zenon DEF LifeInv, LifeType
  <2>5. /\ \A cpu \in ProcCpus : ProcOn(cpu) # p
        /\ UNCHANGED teardown
    BY <1>6, Zenon
  <2>6. Unstarted' /\ FailedStartRollsBack'
    BY <1>1, <1>2, <1>4, <1>6, SlotEmptied, Zenon
  <2> HIDE DEF p
  <2>7. LifeType'
    BY <1>1, <1>2, <1>4, <2>4, <2>5, Zenon DEF LifeInv, LifeType
  <2>8. ProcessStages'
    BY <1>1, <1>2, <2>1, <2>2, <2>3, <2>4, <2>5 DEF LifeInv, ProcessStages
  <2>9. TasksRun'
    BY <1>2, <2>3, Zenon DEF LifeInv, TasksRun
  <2>10. StartsHeld'
    <3>1. \A c \in Starters : spc[c] = "add" => Target(c) # p
      BY <2>1, Zenon DEF LifeInv, StartsHeld, Untouched
    <3> QED BY <3>1, <1>1, <2>2, <2>3, <2>4, TargetType DEF LifeInv, StartsHeld
  <2> QED BY <2>6, <2>7, <2>8, <2>9, <2>10, Zenon DEF LifeInv
<1> QED BY <1>1, <1>5, <1>6, Zenon
\* Steps of thread_start that leave the process, its tasks and the reaper alone.
LEMMA StartVars ==
    ASSUME LifeInv, UNCHANGED <<pstate, runtime, known, task, current, xpc, teardown, tearing>>,
           startReserved' \in [Procs -> BOOLEAN], bootSlot' \in [Procs -> {"empty", "child"}],
           tstate' \in [Threads -> {"none", "idle", "starting", "started"}],
           spc' \in [Starters -> StartPoints], sthread' \in [Starters -> Threads \cup {"none"}],
           StartsHeld', Unstarted', FailedStartRollsBack'
    PROVE  LifeInv'
<1>1. LifeType'
  BY Zenon DEF LifeInv, LifeType
<1>2. ProcessStages' /\ TasksRun'
  BY DEF LifeInv, ProcessStages, TasksRun, TasksOf, Untouched, Dying, ProcOn, Runs
<1> QED BY <1>1, <1>2, Zenon DEF LifeInv

\* A thread object is made for a process that is registered.
LEMMA ThreadCreateStep ==
    ASSUME LifeInv, NEW t \in Threads, ThreadCreate(t)
    PROVE  LifeInv'
<1>1. /\ UNCHANGED <<spc, sthread, startReserved, bootSlot, plProc, plTask, plReap>>
      /\ tstate' = [tstate EXCEPT ![t] = "idle"] /\ tstate[t] = "none" /\ ThreadOf[t] \in known
  BY Zenon DEF ThreadCreate
<1>2. UNCHANGED <<pstate, runtime, known, task, current, xpc, teardown, tearing>>
  BY <1>1, Zenon DEF plProc, plTask, plReap
<1>3. /\ \A q : Untouched(q)' = Untouched(q)
      /\ \A c : Target(c)' = Target(c)
  BY <1>1, <1>2, Zenon DEF TasksOf, Untouched, Dying, Target
<1>4. /\ tstate' \in [Threads -> {"none", "idle", "starting", "started"}]
      /\ \A u \in Threads : tstate'[u] = IF u = t THEN "idle" ELSE tstate[u]
  BY <1>1, Zenon DEF LifeInv, LifeType
<1>5. pstate[ThreadOf[t]] # "none"
  BY <1>1, LifeAssumption, Zenon DEF LifeInv, ProcessStages
<1>6. StartsHeld'
  BY <1>1, <1>2, <1>3, <1>4, TargetType DEF LifeInv, StartsHeld
<1>7. Unstarted' /\ FailedStartRollsBack'
  BY <1>1, <1>2, <1>3, <1>4, <1>5 DEF LifeInv, Unstarted, FailedStartRollsBack
<1>8. /\ startReserved' \in [Procs -> BOOLEAN] /\ bootSlot' \in [Procs -> {"empty", "child"}]
      /\ spc' \in [Starters -> StartPoints] /\ sthread' \in [Starters -> Threads \cup {"none"}]
  BY <1>1, Zenon DEF LifeInv, LifeType
<1> QED BY <1>2, <1>4, <1>6, <1>7, <1>8, StartVars, Zenon

\* begin_start: the thread was idle, so its process was as no start had touched it.
LEMMA BeginStartStep ==
    ASSUME LifeInv, OneStarter, NEW c \in Starters, NEW t \in Threads, BeginStart(c, t)
    PROVE  LifeInv'
<1> DEFINE p == ThreadOf[t]
<1>1. /\ UNCHANGED <<startReserved, bootSlot, plProc, plTask, plReap>>
      /\ spc[c] = "idle" /\ tstate[t] = "idle"
      /\ tstate' = [tstate EXCEPT ![t] = "starting"]
      /\ spc' = [spc EXCEPT ![c] = "lookup"] /\ sthread' = [sthread EXCEPT ![c] = t]
  BY Zenon DEF BeginStart
<1>2. UNCHANGED <<pstate, runtime, known, task, current, xpc, teardown, tearing>>
  BY <1>1, Zenon DEF plProc, plTask, plReap
<1>3. \A d \in Starters : d = c
  BY Zenon DEF OneStarter
<1>4. /\ startReserved' \in [Procs -> BOOLEAN] /\ bootSlot' \in [Procs -> {"empty", "child"}]
      /\ tstate' \in [Threads -> {"none", "idle", "starting", "started"}]
      /\ spc' \in [Starters -> StartPoints] /\ sthread' \in [Starters -> Threads \cup {"none"}]
      /\ spc'[c] = "lookup" /\ sthread'[c] = t /\ Target(c)' = p
      /\ \A u \in Threads : tstate'[u] = IF u = t THEN "starting" ELSE tstate[u]
  BY <1>1 DEF LifeInv, LifeType, StartPoints, Target
<1>5. p \in Procs /\ pstate[p] # "none" /\ t # "none"
  BY <1>1, LifeAssumption, Zenon DEF LifeInv, Unstarted
<1>6. sthread[c] = "none"
  BY <1>1, Zenon DEF LifeInv, StartsHeld
<1>7. pstate[p] = "created" => /\ ~startReserved[p] /\ bootSlot[p] = "empty"
                               /\ \A u \in Threads : ThreadOf[u] = p => tstate[u] \in {"none", "idle"}
  BY <1>3, <1>5, <1>6, Zenon DEF LifeInv, FailedStartRollsBack
<1> HIDE DEF p
<1>8. StartsHeld'
  BY <1>1, <1>2, <1>3, <1>4, <1>5, <1>7 DEF StartsHeld
<1>9. Unstarted'
  BY <1>1, <1>2, <1>4, <1>5 DEF LifeInv, Unstarted, p
<1>10. FailedStartRollsBack'
  BY <1>1, <1>2, <1>3, <1>4, <1>5, <1>6 DEF LifeInv, FailedStartRollsBack, p
<1> QED BY <1>2, <1>4, <1>8, <1>9, <1>10, StartVars, Zenon

\* The steps of the call up to the address space check, and its way back.
LEMMA StartStep ==
    ASSUME LifeInv, OneStarter, NEW c \in Starters,
           CheckCreated(c) \/ ReserveStart(c) \/ InstallBootstrap(c) \/ Rollback(c)
           \/ UndoProcess(c) \/ UndoThread(c) \/ QueueEntry(c)
    PROVE  LifeInv'
<1> DEFINE p == Target(c)
           t == sthread[c]
<1>1. UNCHANGED <<pstate, runtime, known, task, current, xpc, teardown, tearing>> /\ spc[c] # "idle"
  BY Zenon DEF plProc, plTask, plReap, CheckCreated, ReserveStart, InstallBootstrap, Rollback,
         UndoProcess, UndoThread, QueueEntry
<1>2. p \in Procs /\ t \in Threads /\ ThreadOf[t] = p
  BY <1>1, TargetType, Zenon DEF Target
<1>3. \A d \in Starters : d = c
  BY Zenon DEF OneStarter
<1>4. /\ startReserved \in [Procs -> BOOLEAN] /\ bootSlot \in [Procs -> {"empty", "child"}]
      /\ tstate \in [Threads -> {"none", "idle", "starting", "started"}]
      /\ spc \in [Starters -> StartPoints] /\ sthread \in [Starters -> Threads \cup {"none"}]
  BY Zenon DEF LifeInv, LifeType
<1> DEFINE After(x, r, b, s) ==
             /\ spc'[c] = x /\ sthread'[c] = IF x = "idle" THEN "none" ELSE t
             /\ startReserved'[p] = r /\ bootSlot'[p] = b /\ tstate'[t] = s
           Same == /\ \A q \in Procs \ {p} : startReserved'[q] = startReserved[q] /\ bootSlot'[q] = bootSlot[q]
                   /\ \A u \in Threads \ {t} : tstate'[u] = tstate[u]
                   /\ startReserved' \in [Procs -> BOOLEAN] /\ bootSlot' \in [Procs -> {"empty", "child"}]
                   /\ tstate' \in [Threads -> {"none", "idle", "starting", "started"}]
                   /\ spc' \in [Starters -> StartPoints]
                   /\ sthread' \in [Starters -> Threads \cup {"none"}]
<1>5. Same
  <2>1. CASE CheckCreated(c)
    BY <2>1, <1>4, Zenon DEF CheckCreated, StartGoto, StartPoints
  <2>2. CASE ReserveStart(c)
    BY <2>2, <1>2, <1>4, Zenon DEF ReserveStart, StartGoto, StartPoints
  <2>3. CASE InstallBootstrap(c)
    BY <2>3, <1>2, <1>4, Zenon DEF InstallBootstrap, StartGoto, StartPoints
  <2>4. CASE Rollback(c)
    BY <2>4, <1>2, <1>4, Zenon DEF Rollback, StartGoto, StartPoints
  <2>5. CASE UndoProcess(c)
    BY <2>5, <1>2, <1>4, Zenon DEF UndoProcess, StartGoto, StartPoints
  <2>6. CASE UndoThread(c)
    BY <2>6, <1>2, <1>4, Zenon DEF UndoThread, Stop, StartPoints
  <2>7. CASE QueueEntry(c)
    BY <2>7, <1>2, <1>4, Zenon DEF QueueEntry, Stop, StartPoints
  <2> QED BY <2>1, <2>2, <2>3, <2>4, <2>5, <2>6, <2>7, Zenon
<1>6. \/ CheckCreated(c) /\ After(IF p \in known /\ pstate[p] = "created" THEN "reserve" ELSE "undo_thread",
                                  startReserved[p], bootSlot[p], tstate[t])
      \/ ReserveStart(c) /\ After(IF startReserved[p] THEN "undo_thread" ELSE "boot", TRUE, bootSlot[p], tstate[t])
      \/ InstallBootstrap(c) /\ bootSlot[p] = "empty" /\ After("copyout", startReserved[p], "child", tstate[t])
      \/ InstallBootstrap(c) /\ After("undo_process", startReserved[p], bootSlot[p], tstate[t])
      \/ Rollback(c) /\ After("undo_process", FALSE, "empty", "idle")
      \/ UndoProcess(c) /\ After("undo_thread", FALSE, bootSlot[p], tstate[t])
      \/ UndoThread(c) /\ After("idle", startReserved[p], bootSlot[p],
                                IF tstate[t] = "starting" THEN "idle" ELSE tstate[t])
      \/ QueueEntry(c) /\ After("idle", FALSE, bootSlot[p], "started")
  <2>1. CASE CheckCreated(c)
    BY <2>1, <1>4, Zenon DEF CheckCreated, StartGoto
  <2>2. CASE ReserveStart(c)
    BY <2>2, <1>2, <1>4, Zenon DEF ReserveStart, StartGoto
  <2>3. CASE InstallBootstrap(c)
    BY <2>3, <1>2, <1>4, Zenon DEF InstallBootstrap, StartGoto
  <2>4. CASE Rollback(c)
    BY <2>4, <1>2, <1>4, Zenon DEF Rollback, StartGoto
  <2>5. CASE UndoProcess(c)
    BY <2>5, <1>2, <1>4, Zenon DEF UndoProcess, StartGoto
  <2>6. CASE UndoThread(c)
    BY <2>6, <1>2, <1>4, Zenon DEF UndoThread, Stop
  <2>7. CASE QueueEntry(c)
    BY <2>7, <1>2, <1>4, Zenon DEF QueueEntry, Stop
  <2> QED BY <2>1, <2>2, <2>3, <2>4, <2>5, <2>6, <2>7, Zenon
<1>7. spc'[c] # "idle" => Target(c)' = p /\ sthread'[c] = t
  BY <1>6, Zenon DEF Target
<1>8. /\ pstate[p] # "none" /\ tstate[t] # "none" /\ sthread[c] = t /\ t # "none"
      /\ spc[c] \in {"reserve", "boot", "copyout"} => pstate[p] = "created"
      /\ spc[c] = "entry" => pstate[p] # "created"
      /\ pstate[p] = "created" =>
               /\ spc[c] \in {"lookup", "reserve", "undo_thread"} => ~startReserved[p]
               /\ spc[c] \in {"lookup", "reserve", "boot", "undo_process", "undo_thread"} =>
                      bootSlot[p] = "empty"
               /\ \A u \in Threads : (ThreadOf[u] = p /\ u # t) => tstate[u] \in {"none", "idle"}
               /\ tstate[t] \in {"idle", "starting"}
  BY <1>1, <1>2, LifeAssumption, Zenon DEF LifeInv, StartsHeld
<1>9. /\ CheckCreated(c) => spc[c] = "lookup"
      /\ ReserveStart(c) => spc[c] = "reserve"
      /\ InstallBootstrap(c) => spc[c] = "boot"
      /\ Rollback(c) => spc[c] = "rollback"
      /\ UndoProcess(c) => spc[c] = "undo_process"
      /\ UndoThread(c) => spc[c] = "undo_thread"
      /\ QueueEntry(c) => spc[c] = "entry"
  BY Zenon DEF CheckCreated, ReserveStart, InstallBootstrap, Rollback, UndoProcess, UndoThread, QueueEntry
<1> HIDE DEF p, t
<1>10. /\ spc'[c] \notin {"add", "entry"}
       /\ spc'[c] = "idle" <=> sthread'[c] = "none"
       /\ tstate'[t] # "none"
       /\ spc'[c] \in {"reserve", "boot", "copyout"} => pstate[p] = "created"
       /\ pstate[p] = "created" =>
               /\ spc'[c] \in {"idle", "lookup", "reserve", "undo_thread"} => ~startReserved'[p]
               /\ spc'[c] \in {"idle", "lookup", "reserve", "boot", "undo_process", "undo_thread"} =>
                      bootSlot'[p] = "empty"
               /\ tstate'[t] \in {"idle", "starting"}
               /\ spc'[c] = "idle" => tstate'[t] = "idle"
  <2>1. CASE CheckCreated(c) \/ ReserveStart(c)
    BY <2>1, <1>6, <1>8, <1>9, Zenon
  <2>2. CASE InstallBootstrap(c) \/ Rollback(c)
    BY <2>2, <1>6, <1>8, <1>9, Zenon
  <2>3. CASE UndoProcess(c) \/ UndoThread(c) \/ QueueEntry(c)
    BY <2>3, <1>6, <1>8, <1>9, Zenon
  <2> QED BY <2>1, <2>2, <2>3, Zenon
<1>11. StartsHeld'
  <2> SUFFICES ASSUME NEW d \in Starters, d = c,
                      spc'[c] # "idle" => /\ pstate'[p] # "none" /\ Target(c)' = p /\ sthread'[c] = t
                                          /\ \A u \in Threads : u # t => tstate'[u] = tstate[u]
               PROVE  StartsHeld'
    BY <1>1, <1>3, <1>5, <1>7, <1>8, Zenon DEF StartsHeld
  <2> QED BY <1>1, <1>2, <1>3, <1>8, <1>10, Zenon DEF StartsHeld
<1>12. Unstarted'
  <2> SUFFICES ASSUME NEW q \in Procs, pstate[q] = "none"
               PROVE  /\ ~startReserved'[q] /\ bootSlot'[q] = "empty"
                      /\ \A u \in Threads : ThreadOf[u] = q => tstate'[u] = "none"
    BY <1>1, Zenon DEF Unstarted
  <2>1. q # p
    BY <1>8, Zenon
  <2>2. \A u \in Threads : ThreadOf[u] = q => u # t
    BY <2>1, <1>2, Zenon
  <2> QED BY <2>1, <2>2, <1>5, Zenon DEF LifeInv, Unstarted
<1>13. FailedStartRollsBack'
  <2> SUFFICES ASSUME NEW q \in Procs, pstate[q] = "created",
                      sthread'[c] # "none" => Target(c)' # q
               PROVE  /\ ~startReserved'[q] /\ bootSlot'[q] = "empty"
                      /\ \A u \in Threads : ThreadOf[u] = q => tstate'[u] \in {"none", "idle"}
    BY <1>1, Zenon DEF FailedStartRollsBack
  <2>1. CASE q = p
    <3>1. spc'[c] = "idle"
      BY <2>1, <1>7, <1>10, Zenon
    <3> QED BY <3>1, <2>1, <1>5, <1>8, <1>10, Zenon
  <2>2. CASE q # p
    <3>1. \A d \in Starters : sthread[d] # "none" => Target(d) # q
      BY <2>2, <1>3, Zenon DEF p
    <3>2. \A u \in Threads : ThreadOf[u] = q => u # t
      BY <2>2, <1>2, Zenon
    <3> QED BY <3>1, <3>2, <2>2, <1>5, Zenon DEF LifeInv, FailedStartRollsBack
  <2> QED BY <2>1, <2>2, Zenon
<1> QED BY <1>1, <1>5, <1>11, <1>12, <1>13, StartVars, Zenon
\* The process is set running while its address space is there and nothing of it
\* has run yet.
LEMMA CopyOutStep ==
    ASSUME LifeInv, OneStarter, NEW c \in Starters, CopyOutAndCheck(c)
    PROVE  LifeInv'
<1> DEFINE p == Target(c)
<1>1. /\ spc[c] = "copyout"
      /\ UNCHANGED <<tstate, startReserved, bootSlot, runtime, known, plTask, plReap, sthread>>
      /\ \/ spc' = [spc EXCEPT ![c] = "rollback"] /\ UNCHANGED pstate
         \/ /\ runtime[p] = "live"
            /\ pstate' = [pstate EXCEPT ![p] = "running"]
            /\ spc' = [spc EXCEPT ![c] = "add"]
  BY Zenon DEF CopyOutAndCheck, StartGoto
<1>2. UNCHANGED <<task, current, xpc, teardown, tearing>>
  BY <1>1, Zenon DEF plTask, plReap
<1>3. /\ p \in Procs /\ sthread[c] \in Threads
      /\ pstate[p] = "created" /\ tstate[sthread[c]] # "none"
      /\ \A u \in Threads : (ThreadOf[u] = p /\ u # sthread[c]) => tstate[u] \in {"none", "idle"}
      /\ tstate[sthread[c]] \in {"idle", "starting"} /\ sthread[c] # "none"
  BY <1>1, TargetType, Zenon DEF LifeInv, StartsHeld
<1>4. Untouched(p) /\ runtime[p] = "live"
  BY <1>3, Zenon DEF LifeInv, ProcessStages
<1>5. /\ \A q : TasksOf(q)' = TasksOf(q) /\ Untouched(q)' = Untouched(q)
      /\ \A d : ProcOn(d)' = ProcOn(d) /\ Runs(d)' = Runs(d)
      /\ Dying' = Dying
      /\ \A d : Target(d)' = Target(d)
  BY <1>1, <1>2, Zenon DEF TasksOf, Untouched, ProcOn, Runs, Dying, Target
<1>6. /\ pstate' \in [Procs -> {"none", "created", "lost", "running", "exited", "reaped"}]
      /\ spc' \in [Starters -> StartPoints]
      /\ \A q \in Procs : q # p => pstate'[q] = pstate[q]
      /\ \/ spc'[c] = "rollback" /\ pstate'[p] = "created"
         \/ spc'[c] = "add" /\ pstate'[p] = "running"
  <2>1. /\ pstate \in [Procs -> {"none", "created", "lost", "running", "exited", "reaped"}]
        /\ spc \in [Starters -> StartPoints] /\ p \in Procs /\ pstate[p] = "created"
        /\ "rollback" \in StartPoints /\ "add" \in StartPoints
    BY <1>3, Zenon DEF LifeInv, LifeType, StartPoints
  <2> HIDE DEF p
  <2>2. CASE spc' = [spc EXCEPT ![c] = "rollback"] /\ UNCHANGED pstate
    BY <2>1, <2>2, Zenon
  <2>3. CASE pstate' = [pstate EXCEPT ![p] = "running"] /\ spc' = [spc EXCEPT ![c] = "add"]
    BY <2>1, <2>3, Zenon
  <2> QED BY <2>2, <2>3, <1>1, Zenon
<1>7. \A d \in Starters : d = c
  BY Zenon DEF OneStarter
<1> HIDE DEF p
<1>8. LifeType'
  BY <1>1, <1>2, <1>6, Zenon DEF LifeInv, LifeType
<1>9. ProcessStages'
  BY <1>1, <1>2, <1>3, <1>5, <1>6 DEF LifeInv, ProcessStages
<1>10. TasksRun'
  BY <1>2, <1>5, Zenon DEF LifeInv, TasksRun
<1>11. StartsHeld'
  BY <1>1, <1>3, <1>4, <1>5, <1>6, <1>7, Zenon DEF StartsHeld, p
<1>12. Unstarted'
  BY <1>1, <1>3, <1>6, Zenon DEF LifeInv, Unstarted
<1>13. FailedStartRollsBack'
  <2>1. \A q \in Procs : pstate'[q] = "created" => pstate[q] = "created"
    BY <1>3, <1>6, Zenon
  <2> QED BY <2>1, <1>1, <1>5, Zenon DEF LifeInv, FailedStartRollsBack
<1> QED BY <1>8, <1>9, <1>10, <1>11, <1>12, <1>13, Zenon DEF LifeInv

\* The first and only task of the process gets a free slot, which no CPU runs; or
\* the table is full.
LEMMA AddTaskStep ==
    ASSUME LifeInv, OneStarter, NEW c \in Starters, AddTask(c)
    PROVE  LifeInv'
<1> DEFINE p == Target(c)
<1>1. /\ spc[c] = "add"
      /\ UNCHANGED <<tstate, startReserved, bootSlot, plProc, current, xpc, plReap, sthread>>
      /\ \/ \E i \in TaskIds : /\ task[i] = FreeTask
                               /\ task' = [task EXCEPT ![i] = [proc |-> p, st |-> "ready"]]
                               /\ spc' = [spc EXCEPT ![c] = "entry"]
         \/ task' = task /\ spc' = [spc EXCEPT ![c] = "rollback"]
  BY Zenon DEF AddTask, StartGoto
<1>2. UNCHANGED <<pstate, runtime, known, teardown, tearing>>
  BY <1>1, Zenon DEF plProc, plReap
<1>3. /\ p \in Procs /\ sthread[c] \in Threads /\ sthread[c] # "none"
      /\ pstate[p] = "running" /\ runtime[p] = "live" /\ Untouched(p) /\ tstate[sthread[c]] # "none"
  BY <1>1, TargetType, Zenon DEF LifeInv, StartsHeld
<1>4. \A d \in Starters : d = c
  BY Zenon DEF OneStarter
<1>5. /\ Dying' = Dying
      /\ \A d : Target(d)' = Target(d)
  BY <1>1, <1>2, Zenon DEF Dying, Target
<1>6. task \in [TaskIds -> [proc : Procs, st : TaskStates] \cup {FreeTask}] /\ spc \in [Starters -> StartPoints]
  BY Zenon DEF LifeInv, LifeType
<1>7. /\ spc' \in [Starters -> StartPoints] /\ spc'[c] \in {"entry", "rollback"}
      /\ task' \in [TaskIds -> [proc : Procs, st : TaskStates] \cup {FreeTask}]
  BY <1>1, <1>3, <1>6 DEF StartPoints, TaskStates
<1>8. StartsHeld'
  <2> SUFFICES ASSUME \A d \in Starters : d = c PROVE StartsHeld'
    BY <1>4, Zenon
  <2> QED BY <1>1, <1>2, <1>3, <1>5, <1>7, Zenon DEF StartsHeld
<1>9. Unstarted' /\ FailedStartRollsBack'
  BY <1>1, <1>2, <1>5, Zenon DEF LifeInv, Unstarted, FailedStartRollsBack
<1>10. LifeType'
  BY <1>1, <1>2, <1>7, Zenon DEF LifeInv, LifeType
<1>11. ProcessStages' /\ TasksRun'
  <2>1. CASE task' = task
    BY <2>1, <1>1, <1>2 DEF LifeInv, ProcessStages, TasksRun, TasksOf, Untouched, Dying, ProcOn, Runs
  <2>2. CASE \E i \in TaskIds : task[i] = FreeTask /\ task' = [task EXCEPT ![i] = [proc |-> p, st |-> "ready"]]
    <3>1. PICK i \in TaskIds : task[i] = FreeTask /\ task' = [task EXCEPT ![i] = [proc |-> p, st |-> "ready"]]
      BY <2>2, Zenon
    <3>2. \A j \in TaskIds : task'[j] = IF j = i THEN [proc |-> p, st |-> "ready"] ELSE task[j]
      BY <3>1, <1>6, Zenon
    <3>3. \A cpu \in ProcCpus : Runs(cpu) => current[cpu] \in TaskIds /\ current[cpu] # i
      BY <3>1, Zenon DEF LifeInv, LifeType, TasksRun, Runs
    <3>4. \A cpu \in ProcCpus : /\ ProcOn(cpu)' = ProcOn(cpu) /\ Runs(cpu)' = Runs(cpu)
                                /\ Runs(cpu) => task'[current[cpu]] = task[current[cpu]]
      BY <3>2, <3>3, <1>1, Zenon DEF ProcOn, Runs
    <3>5. \A q \in Procs : /\ q # p => TasksOf(q)' = TasksOf(q)
                           /\ q = p => TasksOf(q)' = {i}
      BY <3>1, <3>2, <1>3, LifeAssumption DEF TasksOf, Untouched, FreeTask
    <3>6. \A q \in Procs : \A j \in TasksOf(q) : j # i /\ task'[j] = task[j]
      BY <3>1, <3>2, LifeAssumption DEF TasksOf, FreeTask
    <3>7. \A q \in Procs : q # p => Untouched(q)' = Untouched(q)
      BY <3>5, <1>5, Zenon DEF Untouched
    <3> HIDE DEF p
    <3>8. ProcessStages'
      BY <3>4, <3>5, <3>6, <3>7, <1>2, <1>3, <1>5 DEF LifeInv, ProcessStages, Untouched
    <3>9. TasksRun'
      BY <3>4, <1>1, Zenon DEF LifeInv, TasksRun
    <3> QED BY <3>8, <3>9, Zenon
  <2> QED BY <2>1, <2>2, <1>1, Zenon
<1> QED BY <1>8, <1>9, <1>10, <1>11, Zenon DEF LifeInv

\* The invariant of the process model is inductive when one task starts threads.
THEOREM LifeInvariant ==
    OneStarter => (LifeSpec => []LifeInv)
<1> SUFFICES ASSUME OneStarter PROVE LifeSpec => []LifeInv
  BY Zenon
<1>1. LifeInit => LifeInv
  BY LifeInitInv, Zenon
<1>2. LifeInv /\ [LifeNext]_plVars => LifeInv'
  <2> SUFFICES ASSUME LifeInv, [LifeNext]_plVars PROVE LifeInv'
    BY Zenon
  <2>1. CASE LifeNext
    <3>1. CASE \E p \in Procs : CreateProcess(p) \/ SpawnFromElf(p) \/ CloseProcessHandle(p)
      BY <3>1, CreateStep, CloseHandleStep, Zenon
    <3>2. CASE \E t \in Threads : ThreadCreate(t) \/ \E c \in Starters : BeginStart(c, t)
      BY <3>2, ThreadCreateStep, BeginStartStep, Zenon
    <3>3. CASE \E c \in Starters :
                 \/ CheckCreated(c) \/ ReserveStart(c) \/ InstallBootstrap(c) \/ CopyOutAndCheck(c)
                 \/ AddTask(c) \/ QueueEntry(c) \/ Rollback(c) \/ UndoProcess(c) \/ UndoThread(c)
      BY <3>3, StartStep, CopyOutStep, AddTaskStep, Zenon
    <3>4. CASE \E cpu \in ProcCpus :
                 \/ Schedule(cpu) \/ Trampoline(cpu) \/ CloseBootstrap(cpu) \/ LeaveUserspace(cpu)
                 \/ FinishTask(cpu) \/ RecordExit(cpu) \/ MarkTasks(cpu) \/ HandToReaper(cpu)
      BY <3>4, ScheduleStep, CpuStep, CloseBootstrapStep, FinishStep, RecordExitStep, Zenon
    <3>5. CASE TakeBatch \/ ReapTask \/ TearDown \/ ReapRecords
      BY <3>5, BatchStep, ReapTaskStep, TearDownStep, Zenon
    <3> QED BY <2>1, <3>1, <3>2, <3>3, <3>4, <3>5, Zenon DEF LifeNext
  <2>2. CASE UNCHANGED plVars
    <3>1. /\ UNCHANGED <<pstate, runtime, tstate, spc, sthread, startReserved, bootSlot, task, current>>
          /\ UNCHANGED <<xpc, teardown, tearing, known>>
      BY <2>2, Zenon DEF plVars, plStart, plProc, plTask, plReap
    <3>2. Dying' = Dying /\ TasksRun'
      BY <3>1, Zenon DEF Dying, LifeInv, TasksRun, Runs
    <3>3. xpc' \in [ProcCpus -> ExitPoints] /\ teardown' \in Seq(Procs) /\ tearing' \in Seq(Procs)
      BY <3>1, Zenon DEF LifeInv, LifeType
    <3> QED BY <3>1, <3>2, <3>3, LifeKept, Zenon
  <2> QED BY <2>1, <2>2, Zenon
<1> QED BY <1>1, <1>2, PTL DEF LifeSpec

\* However starts, exits, faults, CPUs and the reaper interleave, as long as no two
\* tasks call thread_start at once: an address space is destroyed only when no CPU
\* runs in it and no runnable task of it is left, and a thread_start that fails
\* before the process runs leaves no trace in it.
THEOREM LivesSound ==
    OneStarter => (LifeSpec => []LifeSound)
<1>1. LifeInv => LifeSound
  <2> SUFFICES ASSUME LifeInv PROVE TornDownUnused
    BY Zenon DEF LifeInv, LifeSound
  <2> QED BY Zenon DEF LifeInv, ProcessStages, TornDownUnused, TasksOf
<1> QED BY <1>1, LifeInvariant, PTL
=============================================================================
