---------------------------- MODULE KernelEvents ----------------------------
(***************************************************************************)
(* What a HuesOS task can wait for besides a channel: a port, a signal     *)
(* object and the exit of a process, alone or together in a wait set       *)
(* (huesos-object port.rs, signal.rs, process.rs and wait.rs, huesos-      *)
(* waitset, huesos-proclife, and the port, signal, wait-set and process    *)
(* wait syscalls).                                                         *)
(*                                                                         *)
(* Every lock section and every lone atomic access is one step: a wait set *)
(* looks at its objects one at a time, a port packet is queued in one step *)
(* and its wake decided in another, a decided wake is applied in a third.  *)
(***************************************************************************)
EXTENDS Integers, Sequences, FiniteSets, Functions

CONSTANTS Waiters,        \* tasks that make waiting calls
          WaitCalls,      \* the calls each of them makes
          MaxPortPackets, \* MAX_PORT_PACKETS, and the port's memory quota
          MaxExitPorts,   \* MAX_EXIT_PORTS
          WaitTicks,      \* timeout_ticks of a timed call
          MaxTick,        \* bound on the tick counter
          MaxOwed,        \* bound on wakes of one object decided and not yet made
          MaxWaking,      \* bound on wakes of one task on their way
          ExitKeys        \* keys under which the exit port is bound

Sources == {"port", "signal", "process"}

ASSUME EventsAssumption ==
    \A w \in Waiters : \A c \in WaitCalls[w] :
        /\ c.kind \in {"set", "port", "process"} /\ c.all \in BOOLEAN
        /\ c.watch \in Seq(Sources) /\ c.watch # <<>>
        /\ c.kind # "set" => c.watch = <<c.kind>> /\ ~c.all

Never == MaxTick + 1

VARIABLES packets,     \* Port.packets, each packet its key
          portUsed,    \* Port.quota, in packets
          signaled,    \* Signal.signaled
          procState, exitWaiters,  \* ProcessLifecycle.state and .waiters
          exitPorts,   \* Process.exit_ports, keys in binding order
          waitQueue,   \* the WaitQueue of each source
          owed,        \* wake_one / wake_all calls decided but not yet made
          waking,      \* per task: wake_task calls on their way
          asleep, wakeFlag,    \* Task.blocked, Task.wake_pending
          armedUntil,  \* TIMEOUTS: the deadline armed for a task, or Never
          tick,
          wpoint, wcall, visited, seen, due, answer,  \* per task: its call
          exitTodo,    \* keys of the snapshot in queue_exit_packets
          exitPoint,   \* where set_exit_code stands
          registered,  \* tasks whose add_exit_waiter succeeded
          binding      \* keys whose bind_exit_port has passed its check

evObjects == <<packets, portUsed, signaled, procState, exitWaiters, exitPorts>>
evWakes == <<owed, waking, asleep, wakeFlag>>
evCall == <<wpoint, wcall, visited, seen, due, answer, registered>>
evExit == <<exitTodo, exitPoint, binding>>
evVars == <<evObjects, waitQueue, evWakes, armedUntil, tick, evCall, evExit>>

Idle == [kind |-> "none", watch |-> <<>>, timed |-> FALSE, all |-> FALSE]

EventsInit ==
    /\ packets = <<>> /\ portUsed = 0
    /\ signaled = FALSE
    /\ procState = "running" /\ exitWaiters = 0 /\ exitPorts = <<>>
    /\ waitQueue = [o \in Sources |-> <<>>]
    /\ owed = [o \in Sources |-> 0]
    /\ waking = [w \in Waiters |-> 0]
    /\ asleep = [w \in Waiters |-> FALSE]
    /\ wakeFlag = [w \in Waiters |-> FALSE]
    /\ armedUntil = [w \in Waiters |-> Never]
    /\ tick = 0
    /\ wpoint = [w \in Waiters |-> "idle"]
    /\ wcall = [w \in Waiters |-> Idle]
    /\ visited = [w \in Waiters |-> 0]
    /\ seen = [w \in Waiters |-> {}]
    /\ due = [w \in Waiters |-> Never]
    /\ answer = [w \in Waiters |-> "none"]
    /\ registered = {}
    /\ exitTodo = <<>> /\ exitPoint = "alive" /\ binding = {}

-----------------------------------------------------------------------------
(* Ports, signals, processes *)

\* Port::queue under the packet and quota locks: a full port drops the packet
\* (its count of dropped packets is left out).
PortPush(key) ==
    IF Len(packets) < MaxPortPackets /\ portUsed < MaxPortPackets
    THEN /\ packets' = Append(packets, key)
         /\ portUsed' = portUsed + 1
         /\ owed' = [owed EXCEPT !["port"] = @ + 1]
    ELSE UNCHANGED <<packets, portUsed, owed>>

Exited == procState \in {"exited", "reaped"}

\* has_pending, is_signaled, exit_code: what a wait set asks of an object.
Ready(o) == CASE o = "port" -> packets # <<>>
              [] o = "signal" -> signaled
              [] o = "process" -> Exited

PortQueue ==
    /\ owed["port"] < MaxOwed
    /\ PortPush("user")
    /\ UNCHANGED <<signaled, procState, exitWaiters, exitPorts, waitQueue, waking, asleep,
                   wakeFlag, armedUntil, tick, evCall, evExit>>

\* Signal::set stores and then wakes everybody; clear only stores.
SignalSet ==
    /\ ~signaled /\ owed["signal"] < MaxOwed
    /\ signaled' = TRUE
    /\ owed' = [owed EXCEPT !["signal"] = @ + 1]
    /\ UNCHANGED <<packets, portUsed, procState, exitWaiters, exitPorts, waitQueue,
                   waking, asleep, wakeFlag, armedUntil, tick, evCall, evExit>>

SignalClear ==
    /\ signaled
    /\ signaled' = FALSE
    /\ UNCHANGED <<packets, portUsed, procState, exitWaiters, exitPorts, waitQueue,
                   evWakes, armedUntil, tick, evCall, evExit>>

\* Process::set_exit_code under the lifecycle lock.  With no registered waiter
\* the lifecycle goes straight on to reaped, and the exit stays observable.
SetExitCode ==
    /\ ~Exited
    /\ procState' = IF exitWaiters = 0 THEN "reaped" ELSE "exited"
    /\ exitPoint' = "snapshot"
    /\ UNCHANGED <<packets, portUsed, signaled, exitWaiters, exitPorts, waitQueue,
                   evWakes, armedUntil, tick, evCall, exitTodo, binding>>

SnapshotExitPorts ==
    /\ exitPoint = "snapshot"
    /\ exitTodo' = exitPorts
    /\ exitPoint' = "packets"
    /\ UNCHANGED <<evObjects, waitQueue, evWakes, armedUntil, tick, evCall, binding>>

\* One packet of queue_exit_packets, and after the last one exit_waiters.wake_all.
QueueExitPacket ==
    /\ exitPoint = "packets"
    /\ \/ /\ exitTodo # <<>>
          /\ PortPush(Head(exitTodo))
          /\ exitTodo' = Tail(exitTodo)
          /\ UNCHANGED exitPoint
       \/ /\ exitTodo = <<>>
          /\ owed' = [owed EXCEPT !["process"] = @ + 1]
          /\ exitPoint' = "done"
          /\ UNCHANGED <<packets, portUsed, exitTodo>>
    /\ UNCHANGED <<signaled, procState, exitWaiters, exitPorts, waitQueue, waking, asleep,
                   wakeFlag, armedUntil, tick, evCall, binding>>

\* bind_exit_port: the exit test, and on another lock the insertion.
BindExitPort(key) ==
    /\ key \notin binding \cup Range(exitPorts)
    /\ owed["port"] < MaxOwed
    /\ IF Exited
       THEN PortPush(key) /\ UNCHANGED binding
       ELSE /\ binding' = binding \cup {key}
            /\ UNCHANGED <<packets, portUsed, owed>>
    /\ UNCHANGED <<signaled, procState, exitWaiters, exitPorts, waitQueue, waking, asleep,
                   wakeFlag, armedUntil, tick, evCall, exitTodo, exitPoint>>

InsertExitPort(key) ==
    /\ key \in binding
    /\ binding' = binding \ {key}
    /\ exitPorts' = IF Len(exitPorts) < MaxExitPorts THEN Append(exitPorts, key) ELSE exitPorts
    /\ UNCHANGED <<packets, portUsed, signaled, procState, exitWaiters, waitQueue,
                   evWakes, armedUntil, tick, evCall, exitTodo, exitPoint>>

-----------------------------------------------------------------------------
(* wait.rs *)

\* retain(|&t| t != task); enqueue keeps the queue free of duplicates.
Unqueued(q, w) ==
    IF w \in Range(q)
    THEN LET i == CHOOSE i \in 1 .. Len(q) : q[i] = w
         IN [j \in 1 .. Len(q) - 1 |-> q[IF j < i THEN j ELSE j + 1]]
    ELSE q

\* wake_one takes the first waiter out of the queue, wake_all all of them; the
\* tasks are woken after the queue lock is dropped.
TakenOut(o) == CASE o # "port" -> Range(waitQueue[o])
                 [] o = "port" /\ waitQueue[o] = <<>> -> {}
                 [] o = "port" /\ waitQueue[o] # <<>> -> {Head(waitQueue[o])}
LeftIn(o) == IF o = "port" /\ waitQueue[o] # <<>> THEN Tail(waitQueue[o]) ELSE <<>>
TakeWaiters(o) ==
    /\ owed[o] > 0
    /\ \A w \in Waiters : waking[w] < MaxWaking
    /\ owed' = [owed EXCEPT ![o] = @ - 1]
    /\ waking' = [w \in Waiters |-> waking[w] + IF w \in TakenOut(o) THEN 1 ELSE 0]
    /\ waitQueue' = [waitQueue EXCEPT ![o] = LeftIn(o)]
    /\ UNCHANGED <<evObjects, asleep, wakeFlag, armedUntil, tick, evCall, evExit>>

\* wake_task: a sleeping task becomes runnable, a running one keeps the wake for
\* its next park.
WakeWaiter(w) ==
    /\ waking[w] > 0
    /\ waking' = [waking EXCEPT ![w] = @ - 1]
    /\ asleep' = [asleep EXCEPT ![w] = FALSE]
    /\ wakeFlag' = [wakeFlag EXCEPT ![w] = ~asleep[w]]
    /\ UNCHANGED <<evObjects, waitQueue, owed, armedUntil, tick, evCall, evExit>>

\* The timer interrupt: notify_tick drops every expired entry and wakes its task.
EventTick ==
    /\ tick < MaxTick
    /\ tick' = tick + 1
    /\ LET expired == {w \in Waiters : armedUntil[w] <= tick'}
       IN /\ armedUntil' = [w \in Waiters |-> IF w \in expired THEN Never ELSE armedUntil[w]]
          /\ waking' = [w \in Waiters |-> waking[w] + IF w \in expired THEN 1 ELSE 0]
    /\ UNCHANGED <<evObjects, waitQueue, owed, asleep, wakeFlag, evCall, evExit>>

-----------------------------------------------------------------------------
(* The waiting calls *)

EvAt(w, p) == wpoint[w] = p
EvGoto(w, p) ==
    /\ wpoint' = [wpoint EXCEPT ![w] = p]
    /\ visited' = [visited EXCEPT ![w] = 0]
    /\ seen' = [seen EXCEPT ![w] = {}]
\* The call goes on at p with what it knows so far; a call that returns leaves
\* no locals behind.
EvFinish(w, p, result) ==
    /\ EvGoto(w, p)
    /\ answer' = [answer EXCEPT ![w] = IF p = "idle" THEN "none" ELSE result]
    /\ wcall' = [wcall EXCEPT ![w] = IF p = "idle" THEN Idle ELSE @]
    /\ due' = [due EXCEPT ![w] = IF p = "idle" THEN Never ELSE @]
    /\ UNCHANGED registered
EvMove(w, p) == EvFinish(w, p, answer[w])

Kind(w) == wcall[w].kind
Watched(w) == wcall[w].watch
NextWatched(w) == Watched(w)[visited[w] + 1]
AtLast(w) == visited[w] + 1 = Len(Watched(w))
OutOfTime(w) == due[w] <= tick

\* sys_waitset_wait up to its loop, read_blocking_timeout, sys_process_wait.
BeginWait(w) ==
    /\ EvAt(w, "idle") /\ w \notin registered
    /\ \E c \in WaitCalls[w] :
         /\ wcall' = [wcall EXCEPT ![w] = c]
         /\ EvGoto(w, IF c.kind = "set" THEN "poll" ELSE "enqueue")
         /\ due' = [due EXCEPT ![w] = IF c.kind = "set" /\ c.timed THEN tick + WaitTicks
                                       ELSE Never]
         /\ LET adds == c.kind = "process" /\ ~Exited
            IN /\ exitWaiters' = exitWaiters + IF adds THEN 1 ELSE 0
               /\ registered' = IF adds THEN registered \cup {w} ELSE registered
    /\ answer' = [answer EXCEPT ![w] = "none"]
    /\ UNCHANGED <<packets, portUsed, signaled, procState, exitPorts, waitQueue,
                   evWakes, armedUntil, tick, evExit>>

\* WaitSet::poll_at on what update_waitset_signals saw.
Satisfied(w, set) == IF wcall[w].all THEN Range(Watched(w)) \subseteq set ELSE set # {}

\* One object of update_waitset_signals, before queueing ("poll") or after
\* ("recheck"); behind the last one the outcome.
PollNext(w) ==
    /\ Kind(w) = "set" /\ (EvAt(w, "poll") \/ EvAt(w, "recheck"))
    /\ LET now == seen[w] \cup (IF Ready(NextWatched(w)) THEN {NextWatched(w)} ELSE {})
           leave == IF EvAt(w, "poll") THEN "idle" ELSE "leave"
       IN \/ /\ ~AtLast(w)
             /\ visited' = [visited EXCEPT ![w] = @ + 1]
             /\ seen' = [seen EXCEPT ![w] = now]
             /\ UNCHANGED <<wpoint, wcall, due, answer, registered>>
          \/ AtLast(w) /\ Satisfied(w, now) /\ EvFinish(w, leave, "signaled")
          \/ AtLast(w) /\ ~Satisfied(w, now) /\ OutOfTime(w) /\ EvFinish(w, leave, "timeout")
          \/ /\ AtLast(w) /\ ~Satisfied(w, now) /\ ~OutOfTime(w)
             /\ EvMove(w, IF EvAt(w, "poll") THEN "enqueue" ELSE "park")
    /\ UNCHANGED <<evObjects, waitQueue, evWakes, armedUntil, tick, evExit>>

\* Mutant: the wait set goes to sleep on what it saw before it queued.
EnqueueThenPark(w) ==
    /\ EvAt(w, "enqueue")
    /\ waitQueue' = [waitQueue EXCEPT ![NextWatched(w)] =
                        IF w \in Range(@) THEN @ ELSE Append(@, w)]
    /\ \/ /\ ~AtLast(w)
          /\ visited' = [visited EXCEPT ![w] = @ + 1]
          /\ UNCHANGED <<wpoint, wcall, seen, due, answer, registered>>
       \/ AtLast(w) /\ EvMove(w, IF Kind(w) = "set" THEN "park" ELSE "recheck")
    /\ UNCHANGED <<evObjects, evWakes, armedUntil, tick, evExit>>

\* WaitQueue::enqueue on each watched object, from prepare or enqueue_waiters.
EnqueueNext(w) ==
    /\ EvAt(w, "enqueue")
    /\ waitQueue' = [waitQueue EXCEPT ![NextWatched(w)] =
                        IF w \in Range(@) THEN @ ELSE Append(@, w)]
    /\ \/ /\ ~AtLast(w)
          /\ visited' = [visited EXCEPT ![w] = @ + 1]
          /\ UNCHANGED <<wpoint, wcall, seen, due, answer, registered>>
       \/ AtLast(w) /\ EvMove(w, "recheck")
    /\ UNCHANGED <<evObjects, evWakes, armedUntil, tick, evExit>>

\* Port::read: the pop; the quota is given back under its own lock afterwards.
PortPop(w, some, none) ==
    \/ packets # <<>> /\ packets' = Tail(packets) /\ EvFinish(w, some, "signaled")
    \/ packets = <<>> /\ packets' = packets /\ none

\* read_blocking_timeout while it stands in the queue, and its last read after
\* the time ran out.
ReadPort(w) ==
    /\ Kind(w) = "port"
    /\ \/ EvAt(w, "recheck") /\ PortPop(w, "release", EvMove(w, "park"))
       \/ EvAt(w, "final") /\ PortPop(w, "release_final", EvFinish(w, "idle", "timeout"))
    /\ UNCHANGED <<portUsed, signaled, procState, exitWaiters, exitPorts, waitQueue,
                   evWakes, armedUntil, tick, evExit>>

ReleaseQuota(w) ==
    /\ \/ EvAt(w, "release") /\ EvMove(w, "leave")
       \/ EvAt(w, "release_final") /\ EvMove(w, "idle")
    /\ portUsed' = portUsed - 1
    /\ UNCHANGED <<packets, signaled, procState, exitWaiters, exitPorts, waitQueue,
                   evWakes, armedUntil, tick, evExit>>

\* sys_process_wait while it stands in the queue.
CheckExit(w) ==
    /\ Kind(w) = "process" /\ EvAt(w, "recheck")
    /\ IF Exited THEN EvFinish(w, "leave", "signaled") ELSE EvMove(w, "park")
    /\ UNCHANGED <<evObjects, waitQueue, evWakes, armedUntil, tick, evExit>>

\* Where a timed wait arms: park_timeout counts from here, park_current_until
\* has its deadline already and does not sleep past it.
ArmTimeout(w) ==
    /\ EvAt(w, "park")
    /\ LET deadline == IF wcall[w].timed /\ Kind(w) = "port" THEN tick + WaitTicks ELSE due[w]
       IN IF deadline <= tick
          THEN EvFinish(w, "leave", "timeout") /\ UNCHANGED armedUntil
          ELSE /\ EvGoto(w, "sleep")
               /\ due' = [due EXCEPT ![w] = deadline]
               /\ armedUntil' = [armedUntil EXCEPT ![w] = deadline]
               /\ UNCHANGED <<wcall, answer, registered>>
    /\ UNCHANGED <<evObjects, waitQueue, evWakes, tick, evExit>>

\* park_current: a wake that came before it is used up instead of sleeping.
ParkCurrent(w) ==
    /\ EvAt(w, "sleep")
    /\ asleep' = [asleep EXCEPT ![w] = ~wakeFlag[w]]
    /\ wakeFlag' = [wakeFlag EXCEPT ![w] = FALSE]
    /\ EvMove(w, "parked")
    /\ UNCHANGED <<evObjects, waitQueue, owed, waking, armedUntil, tick, evExit>>

\* The task runs again and takes its timeout out of the table.
ResumeWait(w) ==
    /\ EvAt(w, "parked") /\ ~asleep[w]
    /\ armedUntil' = [armedUntil EXCEPT ![w] = Never]
    /\ EvFinish(w, "leave", IF OutOfTime(w) THEN "timeout" ELSE "woken")
    /\ UNCHANGED <<evObjects, waitQueue, evWakes, tick, evExit>>

\* Where a call continues once it has left every queue.
AfterLeave(w) == CASE answer[w] = "woken" -> IF Kind(w) = "set" THEN "poll" ELSE "enqueue"
                   [] answer[w] = "timeout" /\ Kind(w) = "port" -> "final"
                   [] OTHER -> "idle"

\* WaitQueue::remove on each watched object: cancel, the tail of park, or
\* remove_waiters.
LeaveNext(w) ==
    /\ EvAt(w, "leave")
    /\ waitQueue' = [waitQueue EXCEPT ![NextWatched(w)] = Unqueued(@, w)]
    /\ \/ /\ ~AtLast(w)
          /\ visited' = [visited EXCEPT ![w] = @ + 1]
          /\ UNCHANGED <<wpoint, wcall, seen, due, answer, registered>>
       \/ AtLast(w) /\ EvMove(w, AfterLeave(w))
    /\ UNCHANGED <<evObjects, evWakes, armedUntil, tick, evExit>>

\* remove_exit_waiter: the last registered waiter of an exited process reaps it.
RemoveExitWaiter(w) ==
    /\ EvAt(w, "idle") /\ w \in registered
    /\ registered' = registered \ {w}
    /\ exitWaiters' = exitWaiters - 1
    /\ procState' = IF procState = "exited" /\ exitWaiters' = 0 THEN "reaped" ELSE procState
    /\ UNCHANGED <<packets, portUsed, signaled, exitPorts, waitQueue, evWakes,
                   armedUntil, tick, wpoint, wcall, visited, seen, due, answer, evExit>>

-----------------------------------------------------------------------------
EventsNext ==
    \/ PortQueue \/ SignalSet \/ SignalClear
    \/ SetExitCode \/ SnapshotExitPorts \/ QueueExitPacket
    \/ \E k \in ExitKeys : BindExitPort(k) \/ InsertExitPort(k)
    \/ \E o \in Sources : TakeWaiters(o)
    \/ EventTick
    \/ \E w \in Waiters :
         \/ WakeWaiter(w) \/ BeginWait(w) \/ PollNext(w) \/ EnqueueNext(w) \/ ReadPort(w)
         \/ ReleaseQuota(w) \/ CheckExit(w) \/ ArmTimeout(w) \/ ParkCurrent(w) \/ ResumeWait(w)
         \/ LeaveNext(w) \/ RemoveExitWaiter(w)

EventsSpec == EventsInit /\ [][EventsNext]_evVars

\* What the call of w waits for has happened.
Due(w) == Satisfied(w, {o \in Range(Watched(w)) : Ready(o)})

\* A task is never left asleep over an event: if a port holds a packet, a signal
\* is set, a process has exited, or (for an all-mode wait set) all of them have,
\* every task that waits for exactly that is awake or has a wake coming, from
\* wake_one, wake_all or the timer.
SatisfiedNotAsleep ==
    \A w \in Waiters :
        (asleep[w] /\ Due(w)) =>
            \/ waking[w] > 0
            \/ \E o \in Range(Watched(w)) : owed[o] > 0 /\ w \in Range(waitQueue[o])
            \/ exitPoint \in {"snapshot", "packets"} /\ "process" \in Range(Watched(w))

=============================================================================
