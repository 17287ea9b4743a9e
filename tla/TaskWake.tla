------------------------------- MODULE TaskWake -------------------------------
(***************************************************************************)
(* Parking, waking, exiting and reaping tasks on the per-CPU schedulers of *)
(* HuesOS (huesos-kernel/src/scheduler.rs).                                *)
(*                                                                         *)
(* This module composes the two lock-free structures that have modules of  *)
(* their own.  A directory lookup, publication, retirement or flag update  *)
(* is one step here; TaskDirectory shows what those steps may assume.  A   *)
(* post to a CPU's inbox is one step; TaskInbox implements Mailbox, which  *)
(* says exactly that.  A section under a scheduler lock is one step, and   *)
(* everything that happens with the lock dropped is a step of its own.     *)
(*                                                                         *)
(* Index 0 of a CPU is its idle task and stands for all tasks that are not *)
(* in the model.  The order in which tick() takes fair tasks is left open. *)
(***************************************************************************)
EXTENDS Integers, FiniteSets

CONSTANTS Cpus,            \* CPU indexes
          Slots,           \* global task slots
          Indices,         \* local task indexes of a CPU, without 0
          MaxGen,          \* bound: generations of a slot
          Workers, CpuOf,  \* threads that wake, spawn and reap, and their CPUs
          None             \* no task, no location

ASSUME WakeAssumption ==
    /\ IsFiniteSet(Cpus) /\ IsFiniteSet(Slots)
    /\ Indices \subseteq Nat \ {0} /\ MaxGen \in Nat
    /\ CpuOf \in [Workers -> Cpus]
    /\ None \notin (Slots \X (1 .. MaxGen)) \cup (Cpus \X Indices)

VARIABLES
    generation, allocated,  \* TASK_SLOTS: last generation of a slot, slots in use
    where,                  \* TASK_DIRECTORY: published id and location of a slot
    flag,                   \* pending_operations of a slot: WAKE is set
    inbox,                  \* per CPU: bits of its TaskInbox
    tasks,                  \* per CPU and index: the Task
    fair,                   \* per CPU: ids with a key in fair_queue
    current, on,            \* per CPU: scheduler.current, and whose stack it runs on
    phase,                  \* per CPU: what its scheduler code is doing
    todo, hand,             \* per CPU: bits a drain has taken, the id it works on
    reapQueue, reapPending, \* REAP_QUEUE, REAP_PENDING
    pc, target, place,      \* per worker: program point, id and location of a wake
    batch,                  \* per worker: ids a reaper has taken
    asked, owed             \* history: ids ever woken; wakes begun and not applied

identity == <<generation, allocated, where>>
cpu == <<current, on, phase, hand, todo>>
reaper == <<reapQueue, reapPending, batch>>
waker == <<pc, target, place>>
vars == <<identity, flag, inbox, tasks, fair, cpu, reaper, waker, asked, owed>>

Ids == Slots \X (1 .. MaxGen)
SlotOf(i) == i[1]
Places == Cpus \X Indices
Task == [id : Ids, blocked : BOOLEAN, pending : BOOLEAN, finished : BOOLEAN, reaped : BOOLEAN]
Entry == [id : Ids, place : Places]

ASSUME NoneAssumption == None \notin Task /\ None \notin Entry

TypeOK ==
    /\ generation \in [Slots -> 0 .. MaxGen] /\ allocated \subseteq Slots
    /\ where \in [Slots -> Entry \cup {None}]
    /\ flag \in [Slots -> BOOLEAN]
    /\ inbox \in [Cpus -> SUBSET Slots]
    /\ tasks \in [Places -> Task \cup {None}]
    /\ fair \in [Cpus -> SUBSET Ids]
    /\ current \in [Cpus -> Indices \cup {0}] /\ on \in [Cpus -> Indices \cup {0}]
    /\ phase \in [Cpus -> {"run", "drain", "tick", "switch", "exit"}]
    /\ todo \in [Cpus -> SUBSET Slots] /\ hand \in [Cpus -> Ids \cup {None}]
    /\ reapQueue \subseteq Ids /\ reapPending \in BOOLEAN
    /\ pc \in [Workers -> {"idle", "located", "post", "take", "reap"}]
    /\ target \in [Workers -> Ids \cup {None}] /\ place \in [Workers -> Places \cup {None}]
    /\ batch \in [Workers -> SUBSET Ids]
    /\ asked \subseteq Ids /\ owed \subseteq asked

Init ==
    /\ generation = [s \in Slots |-> 0] /\ allocated = {}
    /\ where = [s \in Slots |-> None] /\ flag = [s \in Slots |-> FALSE]
    /\ inbox = [c \in Cpus |-> {}]
    /\ tasks = [p \in Places |-> None] /\ fair = [c \in Cpus |-> {}]
    /\ current = [c \in Cpus |-> 0] /\ on = [c \in Cpus |-> 0]
    /\ phase = [c \in Cpus |-> "run"] /\ hand = [c \in Cpus |-> None]
    /\ todo = [c \in Cpus |-> {}]
    /\ reapQueue = {} /\ reapPending = FALSE
    /\ pc = [w \in Workers |-> "idle"]
    /\ target = [w \in Workers |-> None] /\ place = [w \in Workers |-> None]
    /\ batch = [w \in Workers |-> {}]
    /\ asked = {} /\ owed = {}

-----------------------------------------------------------------------------
(* Helpers *)

Located(i) == where[SlotOf(i)] # None /\ where[SlotOf(i)].id = i

\* The task at p exists and its storage is not free for reuse.
Live(p) == tasks[p] # None /\ ~tasks[p].reaped
Runnable(p) == tasks[p] # None /\ ~tasks[p].finished /\ ~tasks[p].blocked

\* Under the lock of c: the directory places i on c, and i is what is there.
TaskMatches(c, i) ==
    /\ Located(i)
    /\ LET p == where[SlotOf(i)].place
       IN  p[1] = c /\ tasks[p] # None /\ tasks[p].id = i

\* A worker runs while the scheduler code of its CPU does not.  The timer handler
\* also wakes expired waiters between its tick and its context switch.
At(w, p) == pc[w] = p /\ phase[CpuOf[w]] \in {"run", "switch"}

-----------------------------------------------------------------------------
(* apply_local_wake, under the lock of the task's CPU *)

ApplyWakeUnqueued(i) ==
    LET p == where[SlotOf(i)].place
    IN  /\ tasks' = [tasks EXCEPT ![p].blocked = FALSE,
                                  ![p].pending = ~tasks[p].finished /\ ~tasks[p].blocked]
        /\ owed' = owed \ {i}
        /\ UNCHANGED fair
ApplyWake(i) ==
    LET p == where[SlotOf(i)].place
        t == tasks[p]
    IN  /\ tasks' = [tasks EXCEPT ![p].blocked = FALSE,
                                  ![p].pending = ~t.finished /\ ~t.blocked]
        /\ fair' = IF ~t.finished /\ t.blocked
                   THEN [fair EXCEPT ![p[1]] = @ \cup {i}]
                   ELSE fair
        /\ owed' = owed \ {i}

Skip == UNCHANGED <<tasks, fair, owed>>

-----------------------------------------------------------------------------
(* spawn_user_thread_on_cpu: add_task under the lock and the runqueue token of c *)

\* A reaped local slot is reused before the task vector grows.
FreshPlace(c, p) ==
    /\ p[1] = c
    /\ IF \E q \in Places : q[1] = c /\ tasks[q] # None /\ tasks[q].reaped
       THEN tasks[p] # None /\ tasks[p].reaped
       ELSE tasks[p] = None /\ \A q \in Places : q[1] = c /\ q[2] < p[2] => tasks[q] # None

\* A slot whose generations are used up is retired for good.
SlotFree(s) == s \notin allocated /\ generation[s] < MaxGen

Spawn(w, c) ==
    /\ At(w, "idle")
    /\ phase[CpuOf[w]] = "run" /\ phase[c] = "run"
    /\ \E s \in Slots, p \in Places :
         /\ SlotFree(s) /\ FreshPlace(c, p)
         /\ LET i == <<s, generation[s] + 1>>
            IN  /\ generation' = [generation EXCEPT ![s] = @ + 1]
                /\ allocated' = allocated \cup {s}
                /\ where' = [where EXCEPT ![s] = [id |-> i, place |-> p]]
                /\ flag' = [flag EXCEPT ![s] = FALSE]
                /\ tasks' = [tasks EXCEPT ![p] = [id |-> i, blocked |-> FALSE, pending |-> FALSE,
                                                  finished |-> FALSE, reaped |-> FALSE]]
                /\ fair' = [fair EXCEPT ![c] = @ \cup {i}]
    /\ UNCHANGED <<inbox, cpu, reaper, waker, asked, owed>>

-----------------------------------------------------------------------------
(* wake_task *)

\* Waiters keep ids for as long as they like, so any id ever issued may be woken.
Locate(w) ==
    /\ At(w, "idle")
    /\ \E i \in Ids :
         /\ i[2] <= generation[SlotOf(i)]
         /\ Located(i)
         /\ target' = [target EXCEPT ![w] = i]
         /\ place' = [place EXCEPT ![w] = where[SlotOf(i)].place]
         /\ asked' = asked \cup {i}
         /\ owed' = owed \cup {i}
    /\ pc' = [pc EXCEPT ![w] = "located"]
    /\ UNCHANGED <<identity, flag, inbox, tasks, fair, cpu, reaper>>

Return(w) ==
    /\ pc' = [pc EXCEPT ![w] = "idle"]
    /\ target' = [target EXCEPT ![w] = None]
    /\ place' = [place EXCEPT ![w] = None]

WakeLocal(w) ==
    /\ At(w, "located")
    /\ place[w][1] = CpuOf[w]
    /\ IF TaskMatches(CpuOf[w], target[w]) THEN ApplyWake(target[w]) ELSE Skip
    /\ Return(w)
    /\ UNCHANGED <<identity, flag, inbox, cpu, reaper, asked>>

\* publish_operations refuses an id that is no longer the published one.
PublishUntagged(w) ==
    /\ At(w, "located")
    /\ place[w][1] # CpuOf[w]
    /\ flag' = [flag EXCEPT ![SlotOf(target[w])] = TRUE]
    /\ pc' = [pc EXCEPT ![w] = "post"]
    /\ UNCHANGED <<identity, inbox, tasks, fair, cpu, reaper, target, place, asked, owed>>
PublishWake(w) ==
    /\ At(w, "located")
    /\ place[w][1] # CpuOf[w]
    /\ IF Located(target[w])
       THEN /\ flag' = [flag EXCEPT ![SlotOf(target[w])] = TRUE]
            /\ pc' = [pc EXCEPT ![w] = "post"]
            /\ UNCHANGED <<target, place>>
       ELSE Return(w) /\ UNCHANGED flag
    /\ UNCHANGED <<identity, inbox, tasks, fair, cpu, reaper, asked, owed>>

\* The bit goes to the CPU that the lookup found.
PostToCaller(w) ==
    /\ At(w, "post")
    /\ inbox' = [inbox EXCEPT ![CpuOf[w]] = @ \cup {SlotOf(target[w])}]
    /\ Return(w)
    /\ UNCHANGED <<identity, flag, tasks, fair, cpu, reaper, asked, owed>>
Post(w) ==
    /\ At(w, "post")
    /\ inbox' = [inbox EXCEPT ![place[w][1]] = @ \cup {SlotOf(target[w])}]
    /\ Return(w)
    /\ UNCHANGED <<identity, flag, tasks, fair, cpu, reaper, asked, owed>>

-----------------------------------------------------------------------------
(* The scheduler interrupt and yield_now: drain the inbox, tick, switch *)

Enter(c) ==
    /\ phase[c] = "run"
    /\ phase' = [phase EXCEPT ![c] = "drain"]
    /\ todo' = [todo EXCEPT ![c] = inbox[c]]
    /\ inbox' = [inbox EXCEPT ![c] = {}]
    /\ UNCHANGED <<identity, flag, tasks, fair, current, on, hand, reaper, waker, asked, owed>>

\* Bits that arrive during the drain: it may come to their word later, or go round again.
DrainMore(c) ==
    /\ phase[c] = "drain" /\ hand[c] = None /\ inbox[c] # {}
    /\ todo' = [todo EXCEPT ![c] = @ \cup inbox[c]]
    /\ inbox' = [inbox EXCEPT ![c] = {}]
    /\ UNCHANGED <<identity, flag, tasks, fair, current, on, phase, hand, reaper, waker, asked, owed>>

\* One bit is served: the id of its slot is read without the lock.
DrainTake(c) ==
    /\ phase[c] = "drain" /\ hand[c] = None
    /\ \E s \in todo[c] :
         /\ todo' = [todo EXCEPT ![c] = @ \ {s}]
         /\ hand' = [hand EXCEPT ![c] = IF where[s] = None THEN None ELSE where[s].id]
    /\ UNCHANGED <<identity, flag, inbox, tasks, fair, current, on, phase, reaper, waker, asked, owed>>

\* process_inbox_task under the lock: a stale bit must not consume another CPU's flag.
DrainApplyUnchecked(c) ==
    /\ phase[c] = "drain" /\ hand[c] # None
    /\ flag' = [flag EXCEPT ![SlotOf(hand[c])] = FALSE]
    /\ IF TaskMatches(c, hand[c]) /\ flag[SlotOf(hand[c])] THEN ApplyWake(hand[c]) ELSE Skip
    /\ hand' = [hand EXCEPT ![c] = None]
    /\ UNCHANGED <<identity, inbox, current, on, phase, todo, reaper, waker, asked>>
DrainApply(c) ==
    /\ phase[c] = "drain" /\ hand[c] # None
    /\ IF TaskMatches(c, hand[c]) /\ flag[SlotOf(hand[c])]
       THEN ApplyWake(hand[c]) /\ flag' = [flag EXCEPT ![SlotOf(hand[c])] = FALSE]
       ELSE Skip /\ UNCHANGED flag
    /\ hand' = [hand EXCEPT ![c] = None]
    /\ UNCHANGED <<identity, inbox, current, on, phase, todo, reaper, waker, asked>>

DrainEnd(c) ==
    /\ phase[c] = "drain" /\ hand[c] = None /\ todo[c] = {}
    /\ phase' = [phase EXCEPT ![c] = "tick"]
    /\ UNCHANGED <<identity, flag, inbox, tasks, fair, current, on, hand, todo, reaper, waker, asked, owed>>

\* tick with tasks ts and queue q of c: a runnable current task is queued again, and
\* the least key whose task can run is taken, with the stale keys before it.
PickNext(c, ts, q) ==
    LET CanRun(i) == /\ Located(i) /\ where[SlotOf(i)].place[1] = c
                     /\ LET t == ts[where[SlotOf(i)].place]
                        IN  t # None /\ t.id = i /\ ~t.finished /\ ~t.blocked
        mine == IF current[c] = 0 THEN None ELSE ts[<<c, current[c]>>]
        keys == IF mine # None /\ ~mine.finished /\ ~mine.blocked THEN q \cup {mine.id} ELSE q
        ready == {i \in keys : CanRun(i)}
        Run(n, rest) == /\ current' = [current EXCEPT ![c] = n]
                        /\ fair' = [fair EXCEPT ![c] = rest]
                        /\ phase' = [phase EXCEPT ![c] = IF n = current[c] THEN "run" ELSE "switch"]
    IN  \/ ready = {} /\ Run(0, {})
        \/ \E i \in ready, stale \in SUBSET (keys \ ready) :
             Run(where[SlotOf(i)].place[2], keys \ (stale \cup {i}))

Tick(c) ==
    /\ phase[c] = "tick"
    /\ PickNext(c, tasks, fair[c])
    /\ UNCHANGED <<identity, flag, inbox, tasks, on, hand, todo, reaper, waker, asked, owed>>

\* perform_context_switch, after the lock is dropped.
Switch(c) ==
    /\ phase[c] = "switch"
    /\ on' = [on EXCEPT ![c] = current[c]]
    /\ phase' = [phase EXCEPT ![c] = "run"]
    /\ UNCHANGED <<identity, flag, inbox, tasks, fair, current, hand, todo, reaper, waker, asked, owed>>

-----------------------------------------------------------------------------
(* What the running task does to itself *)

\* park_current: a pending wake is consumed and the task goes on running.
Park(c) ==
    LET p == <<c, current[c]>>
        i == tasks[p].id
        parked == [tasks EXCEPT ![p].blocked = TRUE]
    IN  /\ phase[c] = "run" /\ current[c] # 0
        /\ IF tasks[p].pending
           THEN /\ tasks' = [tasks EXCEPT ![p].pending = FALSE]
                /\ fair' = [fair EXCEPT ![c] = @ \ {i}]
                /\ UNCHANGED <<current, phase>>
           ELSE tasks' = parked /\ PickNext(c, parked, fair[c] \ {i})
        /\ UNCHANGED <<identity, flag, inbox, on, hand, todo, reaper, waker, asked, owed>>

\* exit_current_task, under the lock; then, without it, the push for the reaper.
Exit(c) ==
    LET p == <<c, current[c]>>
    IN  /\ phase[c] = "run" /\ current[c] # 0
        /\ tasks' = [tasks EXCEPT ![p].finished = TRUE, ![p].blocked = FALSE]
        /\ fair' = [fair EXCEPT ![c] = @ \ {tasks[p].id}]
        /\ phase' = [phase EXCEPT ![c] = "exit"]
        /\ UNCHANGED <<identity, flag, inbox, current, on, hand, todo, reaper, waker, asked, owed>>

QueueForReaper(c) ==
    /\ phase[c] = "exit"
    /\ reapQueue' = reapQueue \cup {tasks[<<c, current[c]>>].id}
    /\ reapPending' = TRUE
    /\ phase' = [phase EXCEPT ![c] = "tick"]
    /\ UNCHANGED <<identity, flag, inbox, tasks, fair, current, on, hand, todo, batch, waker, asked, owed>>

-----------------------------------------------------------------------------
(* reap_if_pending and reap_finished_tasks *)

ReapBegin(w) ==
    /\ At(w, "idle") /\ phase[CpuOf[w]] = "run"
    /\ reapPending
    /\ reapPending' = FALSE
    /\ pc' = [pc EXCEPT ![w] = "take"]
    /\ UNCHANGED <<identity, flag, inbox, tasks, fair, cpu, reapQueue, batch, target, place, asked, owed>>

ReapTake(w) ==
    /\ At(w, "take") /\ phase[CpuOf[w]] = "run"
    /\ batch' = [batch EXCEPT ![w] = reapQueue]
    /\ reapQueue' = {}
    /\ pc' = [pc EXCEPT ![w] = "reap"]
    /\ UNCHANGED <<identity, flag, inbox, tasks, fair, cpu, reapPending, target, place, asked, owed>>

\* One id of the batch, under the lock of its CPU.
ReapOneDropping(w) ==
    /\ At(w, "reap") /\ phase[CpuOf[w]] = "run"
    /\ \E i \in batch[w] :
         LET p == where[SlotOf(i)].place
         IN  /\ batch' = [batch EXCEPT ![w] = @ \ {i}]
             /\ IF Located(i) /\ TaskMatches(p[1], i) /\ current[p[1]] # p[2]
                   /\ tasks[p].finished /\ ~tasks[p].reaped
                THEN /\ tasks' = [tasks EXCEPT ![p].reaped = TRUE]
                     /\ where' = [where EXCEPT ![SlotOf(i)] = None]
                     /\ flag' = [flag EXCEPT ![SlotOf(i)] = FALSE]
                     /\ allocated' = allocated \ {SlotOf(i)}
                     /\ owed' = owed \ {i}
                ELSE UNCHANGED <<allocated, where, flag, tasks, owed>>
    /\ UNCHANGED <<generation, inbox, fair, cpu, reapQueue, reapPending, waker, asked>>
ReapOne(w) ==
    /\ At(w, "reap") /\ phase[CpuOf[w]] = "run"
    /\ \E i \in batch[w] :
         LET p == where[SlotOf(i)].place
             mine == Located(i) /\ TaskMatches(p[1], i)
             running == mine /\ current[p[1]] = p[2]
         IN  /\ batch' = [batch EXCEPT ![w] = @ \ {i}]
             /\ reapQueue' = IF running THEN reapQueue \cup {i} ELSE reapQueue
             /\ reapPending' = (reapPending \/ running)
             /\ IF mine /\ ~running /\ tasks[p].finished /\ ~tasks[p].reaped
                THEN /\ where' = [where EXCEPT ![SlotOf(i)] = None]
                     /\ flag' = [flag EXCEPT ![SlotOf(i)] = FALSE]
                     /\ tasks' = [tasks EXCEPT ![p].reaped = TRUE]
                     /\ allocated' = allocated \ {SlotOf(i)}
                     /\ owed' = owed \ {i}
                ELSE UNCHANGED <<allocated, where, flag, tasks, owed>>
    /\ UNCHANGED <<generation, inbox, fair, cpu, waker, asked>>

ReapEnd(w) ==
    /\ At(w, "reap") /\ batch[w] = {}
    /\ Return(w)
    /\ UNCHANGED <<identity, flag, inbox, tasks, fair, cpu, reaper, asked, owed>>

-----------------------------------------------------------------------------
(* The specification *)

\* A worker begins a call, and goes on with the one it has begun.
Start(w) == Locate(w) \/ ReapBegin(w) \/ \E c \in Cpus : Spawn(w, c)
Finish(w) == WakeLocal(w) \/ PublishWake(w) \/ Post(w) \/ ReapTake(w) \/ ReapOne(w) \/ ReapEnd(w)
SchedStep(c) == Enter(c) \/ DrainTake(c) \/ DrainApply(c) \/ DrainEnd(c) \/ Tick(c) \/ Switch(c)
                \/ QueueForReaper(c)
TaskStep(c) == Park(c) \/ Exit(c)

Next ==
    \/ \E w \in Workers : Start(w) \/ Finish(w)
    \/ \E c \in Cpus : SchedStep(c) \/ DrainMore(c) \/ TaskStep(c)

Spec == Init /\ [][Next]_vars

\* Timer interrupts keep coming on every CPU and scheduler code runs to its end.  A
\* drain goes round again only when it meets a producer between two of its steps, so it
\* does not do so for ever.  A worker that has begun a call is scheduled again and again, though its CPU may be
\* in scheduler code whenever it is looked at.  Somebody keeps returning from system
\* calls or idling, which is when the reaper is called.
Fairness ==
    /\ \A c \in Cpus : WF_vars(SchedStep(c)) /\ SF_vars(DrainEnd(c))
    /\ \A w \in Workers : SF_vars(Finish(w)) /\ SF_vars(ReapBegin(w))

FairSpec == Spec /\ Fairness

-----------------------------------------------------------------------------
(* Properties *)

\* The fair queue of a CPU holds exactly its runnable tasks other than the current one:
\* tick, park, wake, exit and add_task never strand a runnable task or queue one that
\* cannot run (scheduler.rs:418, 516, 831, 919, 1281).
RunqueueExact ==
    \A c \in Cpus :
        fair[c] = {tasks[p].id : p \in {q \in Places : q[1] = c /\ Runnable(q) /\ q[2] # current[c]}}

\* A wake_task call that found its task is never lost: until the wake is applied or the
\* task is reaped, the caller still carries it, or the task's flag is set and a bit that
\* will make the owner look at it is set, about to be set, or being served.
WakeOnItsWay ==
    \A i \in owed :
        \/ \E w \in Workers : pc[w] = "located" /\ target[w] = i
        \/ /\ Located(i) /\ flag[SlotOf(i)]
           /\ LET c == where[SlotOf(i)].place[1]
              IN  \/ SlotOf(i) \in inbox[c] \cup todo[c] \/ hand[c] = i
                  \/ \E w \in Workers : pc[w] = "post" /\ target[w] = i /\ place[w][1] = c

\* Only a wake_task call for its own id, or its own exit, ends the sleep of a parked
\* task: neither a flag nor a bit left by an earlier generation of the slot does.
NoStrayUnblock ==
    [][\A p \in Places :
         (tasks[p] # None /\ tasks[p].blocked /\ tasks'[p].id = tasks[p].id /\ ~tasks'[p].blocked)
            => tasks[p].id \in asked]_vars

\* Every wake that found its task is applied, or its task is reaped.
WakeDelivered == \A i \in Ids : i \in owed ~> i \notin owed

\* Every task that exits is reaped in the end, also when a reaper meets it while it is
\* still current on its CPU.
FinishedReaped ==
    \A p \in Places : (Live(p) /\ tasks[p].finished) ~> ~(Live(p) /\ tasks[p].finished)

=============================================================================
