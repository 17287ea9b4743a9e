---------------------------- MODULE ChannelWait ----------------------------
(***************************************************************************)
(* One direction of a HuesOS channel: the bounded inbox of the reading     *)
(* endpoint, its reader wait queue, and the park/wake handshake with the   *)
(* scheduler (huesos-object channel.rs and wait.rs, the channel syscalls,  *)
(* park_current and apply_local_wake of the kernel scheduler).             *)
(*                                                                         *)
(* Every critical section (inbox lock, wait-queue lock, scheduler lock)    *)
(* and every lone atomic access is one step.  A message is its sequence    *)
(* number, which is also its cookie.                                       *)
(***************************************************************************)
EXTENDS Integers, Sequences, FiniteSets, Functions

CONSTANTS Readers,      \* threads that read from this endpoint
          Senders,      \* threads that write to its peer endpoint
          Closer,       \* the thread that drops the peer / closes reader handles
          Timer,        \* the timer interrupt that runs notify_tick
          CpuOf,        \* the CPU on which each of them runs
          Calls,        \* the receive calls the readers make
          BigMessages,  \* sequence numbers of messages a small buffer cannot hold
          Capacity,     \* MAX_CHANNEL_QUEUE_MESSAGES and the byte/handle quota
          MaxSends,     \* bound on next_seq
          MaxHandleCloses \* bound on closes of further handles to the endpoint

Wakers == Senders \cup {Closer, Timer}
Ops == {"fits", "status", "peek"}

ASSUME CallsAssumption == Calls \subseteq [op : Ops, timed : BOOLEAN, room : BOOLEAN]
ASSUME ActorsAssumption == /\ Closer \notin Senders /\ Timer \notin Senders
                           /\ Closer # Timer
ASSUME BoundsAssumption == /\ Capacity \in Nat /\ MaxSends \in Nat
                           /\ MaxHandleCloses \in Nat

VARIABLES queue,       \* MessageQueue.messages
          nextSeq,     \* MessageQueue.next_seq
          peerAlive,   \* the writing endpoint lives (the reader's peer_alive)
          readerAlive, \* the reading endpoint lives (the senders' peer_alive)
          waiters,     \* WaitQueue.waiters of the reading endpoint
          pc, call, outcome, cookie,  \* per reader: program point, arguments, result
          blocked, wakePending,       \* per reader: Task.blocked, Task.wake_pending
          armed,       \* tasks in the TIMEOUTS table
          expired,     \* per reader: now_ticks() has reached its deadline
          remoteWake,  \* tasks with a published WAKE operation not yet drained
          wpc, toWake, \* per waker: program point, tasks popped but not yet woken
          closes       \* handle closes so far

channel == <<queue, nextSeq, peerAlive, readerAlive>>
reader == <<pc, call, outcome, cookie>>
task == <<blocked, wakePending, remoteWake>>
timeouts == <<armed, expired>>
waker == <<wpc, toWake, closes>>
vars == <<channel, waiters, reader, task, timeouts, waker>>

NoCall == [op |-> "none", timed |-> FALSE, room |-> FALSE]
Points == {"idle", "precheck", "prepare", "check", "peer", "arm", "park", "parked",
           "unqueue", "cancel", "final", "final_peer"}
Outcomes == {"none", "message", "closed", "too_small", "timeout", "should_wait", "stale"}

NoDuplicates(q) == \A i, j \in 1 .. Len(q) : q[i] = q[j] => i = j

TypeOK ==
    /\ queue \in Seq(Nat) /\ Len(queue) <= Capacity
    /\ nextSeq \in 0 .. MaxSends
    /\ peerAlive \in BOOLEAN /\ readerAlive \in BOOLEAN
    /\ waiters \in Seq(Readers)
    /\ NoDuplicates(waiters)
    /\ pc \in [Readers -> Points]
    /\ call \in [Readers -> Calls \cup {NoCall}]
    /\ outcome \in [Readers -> Outcomes]
    /\ cookie \in [Readers -> Nat \cup {-1}]
    /\ blocked \in [Readers -> BOOLEAN] /\ wakePending \in [Readers -> BOOLEAN]
    /\ armed \subseteq Readers /\ expired \in [Readers -> BOOLEAN]
    /\ remoteWake \subseteq Readers
    /\ wpc \in [Wakers -> {"idle", "enqueue", "wake_one", "wake_all"}]
    /\ toWake \in [Wakers -> SUBSET Readers]
    /\ closes \in 0 .. MaxHandleCloses

Init ==
    /\ queue = <<>> /\ nextSeq = 0
    /\ peerAlive = TRUE /\ readerAlive = TRUE
    /\ waiters = <<>>
    /\ pc = [r \in Readers |-> "idle"]
    /\ call = [r \in Readers |-> NoCall]
    /\ outcome = [r \in Readers |-> "none"]
    /\ cookie = [r \in Readers |-> -1]
    /\ blocked = [r \in Readers |-> FALSE]
    /\ wakePending = [r \in Readers |-> FALSE]
    /\ armed = {} /\ expired = [r \in Readers |-> FALSE]
    /\ remoteWake = {}
    /\ wpc = [w \in Wakers |-> "idle"]
    /\ toWake = [w \in Wakers |-> {}]
    /\ closes = 0

-----------------------------------------------------------------------------
(* WaitQueue *)

Waiting(r) == r \in Range(waiters)

Enqueued(q, r) == IF r \in Range(q) THEN q ELSE Append(q, r)

\* retain(|&t| t != task); enqueue keeps the queue free of duplicates.
Removed(q, r) ==
    IF r \in Range(q)
    THEN LET i == CHOOSE i \in 1 .. Len(q) : q[i] = r
         IN [j \in 1 .. Len(q) - 1 |-> q[IF j < i THEN j ELSE j + 1]]
    ELSE q

-----------------------------------------------------------------------------
(* Readers: the receive calls *)

At(r, p) == pc[r] = p
Goto(r, p) == pc' = [pc EXCEPT ![r] = p]
\* The reader moves to point p and nothing but its own record changes.
Move(r, p) == Goto(r, p) /\ UNCHANGED <<call, outcome, cookie>>
\* The call ends (or, via cancel, is about to end) with result o.
Finish(r, p, o) ==
    Goto(r, p) /\ outcome' = [outcome EXCEPT ![r] = o] /\ UNCHANGED <<call, cookie>>

Op(r) == call[r].op
Fits(r) == call[r].room \/ Head(queue) \notin BigMessages
\* Where the loop of a call starts: sys_channel_peek and the timed
\* sys_channel_read look before they queue up, the others queue up first.
LoopStart(c) == IF c.op = "peek" \/ (c.op = "fits" /\ c.timed) THEN "precheck" ELSE "prepare"

\* A call that may wait, or a peek or recv_status that only looks.
BeginCall(r) ==
    /\ At(r, "idle")
    /\ readerAlive
    /\ \E c \in Calls :
         /\ call' = [call EXCEPT ![r] = c]
         /\ Goto(r, LoopStart(c)) \/ (c.op # "fits" /\ Goto(r, "final"))
    /\ outcome' = [outcome EXCEPT ![r] = "none"]
    /\ UNCHANGED <<cookie, channel, waiters, task, timeouts, waker>>

\* Mutant: the closed test comes first.
RecvClosedFirst(r, done, none) ==
    \/ ~peerAlive /\ queue' = queue /\ Finish(r, done, "closed")
    \/ peerAlive /\ queue # <<>> /\ queue' = Tail(queue) /\ Finish(r, done, "message")
    \/ peerAlive /\ queue = <<>> /\ queue' = queue /\ Move(r, none)

\* consume_if_fits on what the inbox lock protects: an answer for the caller.
\* done is where the call continues when it has it.
RecvAnswer(r, done) ==
    \/ /\ queue # <<>> /\ Fits(r)
       /\ queue' = Tail(queue)
       /\ Finish(r, done, "message")
    \/ /\ queue # <<>> /\ ~Fits(r)
       /\ queue' = queue
       /\ Finish(r, done, "too_small")
    \/ /\ queue = <<>> /\ ~peerAlive
       /\ queue' = queue
       /\ Finish(r, done, "closed")

\* recv_if_fits under the inbox lock: the closed test is inside the lock.
RecvIfFits(r, done, none) ==
    \/ RecvAnswer(r, done)
    \/ queue = <<>> /\ peerAlive /\ queue' = queue /\ Move(r, none)

\* sys_channel_read without waiting.
Poll(r) ==
    /\ At(r, "idle") /\ readerAlive
    /\ \/ RecvAnswer(r, "idle")
       \/ queue = <<>> /\ peerAlive /\ queue' = queue /\ Finish(r, "idle", "should_wait")
    /\ UNCHANGED <<nextSeq, peerAlive, readerAlive, waiters, task, timeouts, waker>>

\* Channel::peek under the inbox lock.
Peek(r, some, none) ==
    /\ \/ queue # <<>> /\ Move(r, some)
       \/ queue = <<>> /\ ~peerAlive /\ Finish(r, "idle", "closed")
       \/ queue = <<>> /\ peerAlive /\ Move(r, none)
    /\ queue' = queue

Precheck(r) ==
    /\ At(r, "precheck")
    /\ \/ Op(r) = "fits" /\ RecvIfFits(r, "idle", "prepare")
       \/ Op(r) = "peek" /\ Peek(r, "final", "prepare")
    /\ UNCHANGED <<nextSeq, peerAlive, readerAlive, waiters, task, timeouts, waker>>

\* Mutant: the reader looks once and goes to sleep without a re-check.
PrepareNoRecheck(r) ==
    /\ At(r, "prepare")
    /\ waiters' = Enqueued(waiters, r)
    /\ Move(r, IF call[r].timed THEN "arm" ELSE "park")
    /\ UNCHANGED <<channel, task, timeouts, waker>>

\* WaitQueue::prepare: visible to wakers before the condition is checked.
Prepare(r) ==
    /\ At(r, "prepare")
    /\ waiters' = Enqueued(waiters, r)
    /\ Move(r, "check")
    /\ UNCHANGED <<channel, task, timeouts, waker>>

Sleep(r) == IF call[r].timed THEN "arm" ELSE "park"

\* The re-check while queued.  recv_blocking_status dequeues under the lock and
\* tests the peer afterwards; a closed peer ends it, and ends a peek, without
\* cancelling the prepared wait.
Check(r) ==
    /\ At(r, "check")
    /\ \/ Op(r) = "fits" /\ RecvIfFits(r, "cancel", Sleep(r))
       \/ Op(r) = "peek" /\ Peek(r, "cancel", Sleep(r))
       \/ /\ Op(r) = "status" /\ queue # <<>>
          /\ queue' = Tail(queue)
          /\ Finish(r, "cancel", "message")
       \/ /\ Op(r) = "status" /\ queue = <<>>
          /\ queue' = queue
          /\ Move(r, "peer")
    /\ UNCHANGED <<nextSeq, peerAlive, readerAlive, waiters, task, timeouts, waker>>

PeerCheck(r) ==
    /\ At(r, "peer")
    /\ \/ peerAlive /\ Move(r, Sleep(r))
       \/ ~peerAlive /\ Finish(r, "idle", "closed")
    /\ UNCHANGED <<channel, waiters, task, timeouts, waker>>

\* arm_timeout(task, now + ticks)
Arm(r) ==
    /\ At(r, "arm")
    /\ armed' = armed \cup {r}
    /\ expired' = [expired EXCEPT ![r] = FALSE]
    /\ Move(r, "park")
    /\ UNCHANGED <<channel, waiters, task, waker>>

\* Mutant: park_current ignores a wake that arrived before it.
ParkDeaf(r) ==
    /\ At(r, "park")
    /\ blocked' = [blocked EXCEPT ![r] = TRUE]
    /\ Move(r, "parked")
    /\ UNCHANGED <<channel, waiters, wakePending, remoteWake, timeouts, waker>>

\* park_current, under the scheduler lock: a pending wake is consumed instead of
\* going to sleep.
Park(r) ==
    /\ At(r, "park")
    /\ wakePending' = [wakePending EXCEPT ![r] = FALSE]
    /\ blocked' = [blocked EXCEPT ![r] = ~wakePending[r]]
    /\ Move(r, "parked")
    /\ UNCHANGED <<channel, waiters, remoteWake, timeouts, waker>>

\* The task runs again; a timed wait first takes its entry out of TIMEOUTS.
Resume(r) ==
    /\ At(r, "parked")
    /\ ~blocked[r]
    /\ armed' = armed \ {r}
    /\ Move(r, "unqueue")
    /\ UNCHANGED <<channel, waiters, task, expired, waker>>

\* The tail of PreparedWait::park / park_timeout and the caller's reaction: a
\* timed-out sys_channel_read or peek returns, recv_blocking_timeout_status
\* looks once more, a woken call loops.
Unqueue(r) ==
    /\ At(r, "unqueue")
    /\ waiters' = Removed(waiters, r)
    /\ LET timedOut == call[r].timed /\ expired[r]
       IN \/ timedOut /\ Op(r) # "status" /\ Finish(r, "idle", "timeout")
          \/ timedOut /\ Op(r) = "status" /\ Move(r, "final")
          \/ ~timedOut /\ Move(r, LoopStart(call[r]))
    /\ UNCHANGED <<channel, task, timeouts, waker>>

\* PreparedWait::cancel
Cancel(r) ==
    /\ At(r, "cancel")
    /\ waiters' = Removed(waiters, r)
    /\ Move(r, IF Op(r) = "peek" THEN "final" ELSE "idle")
    /\ UNCHANGED <<channel, task, timeouts, waker>>

\* The last look of sys_channel_peek and of recv_blocking_timeout_status.
Final(r) ==
    /\ At(r, "final")
    /\ \/ /\ Op(r) = "peek" /\ queue # <<>>
          /\ cookie' = [cookie EXCEPT ![r] = Head(queue)]
          /\ outcome' = [outcome EXCEPT ![r] = "message"]
          /\ Goto(r, "idle")
          /\ UNCHANGED <<call, queue>>
       \/ /\ Op(r) = "peek" /\ queue = <<>>
          /\ Finish(r, "idle", IF peerAlive THEN "should_wait" ELSE "closed")
          /\ UNCHANGED queue
       \/ /\ Op(r) = "status" /\ queue # <<>>
          /\ queue' = Tail(queue)
          /\ Finish(r, "idle", "message")
       \/ /\ Op(r) = "status" /\ queue = <<>>
          /\ Move(r, "final_peer")
          /\ UNCHANGED queue
    /\ UNCHANGED <<nextSeq, peerAlive, readerAlive, waiters, task, timeouts, waker>>

FinalPeer(r) ==
    /\ At(r, "final_peer")
    /\ Finish(r, "idle", IF peerAlive THEN "timeout" ELSE "closed")
    /\ UNCHANGED <<channel, waiters, task, timeouts, waker>>

\* sys_channel_consume: dequeue the peeked message if it is still in front and
\* the buffer given now can hold it.
Consume(r) ==
    /\ At(r, "idle")
    /\ readerAlive /\ cookie[r] # -1
    /\ IF queue = <<>> \/ Head(queue) # cookie[r]
       THEN queue' = queue /\ outcome' = [outcome EXCEPT ![r] = "stale"]
       ELSE \/ queue' = Tail(queue) /\ outcome' = [outcome EXCEPT ![r] = "message"]
            \/ /\ Head(queue) \in BigMessages
               /\ queue' = queue /\ outcome' = [outcome EXCEPT ![r] = "too_small"]
    /\ cookie' = [cookie EXCEPT ![r] = IF outcome'[r] = "too_small" THEN @ ELSE -1]
    /\ UNCHANGED <<pc, call, nextSeq, peerAlive, readerAlive, waiters, task, timeouts, waker>>

-----------------------------------------------------------------------------
(* Wakers *)

WGoto(w, p) == wpc' = [wpc EXCEPT ![w] = p]

\* Channel::send: the liveness test, the enqueue under the outbox lock, wake_one.
BeginSend(s) ==
    /\ wpc[s] = "idle" /\ toWake[s] = {}
    /\ peerAlive /\ readerAlive
    /\ nextSeq < MaxSends
    /\ WGoto(s, "enqueue")
    /\ UNCHANGED <<channel, waiters, reader, task, timeouts, toWake, closes>>

Enqueue(s) ==
    /\ wpc[s] = "enqueue"
    /\ \/ /\ Len(queue) < Capacity /\ nextSeq < MaxSends
          /\ queue' = Append(queue, nextSeq)
          /\ nextSeq' = nextSeq + 1
          /\ WGoto(s, "wake_one")
       \/ /\ Len(queue) >= Capacity \/ nextSeq >= MaxSends
          /\ WGoto(s, "idle")
          /\ UNCHANGED <<queue, nextSeq>>
    /\ UNCHANGED <<peerAlive, readerAlive, waiters, reader, task, timeouts, toWake, closes>>

\* The oldest waiter is popped under the wait-queue lock ...
WakeOne(s) ==
    /\ wpc[s] = "wake_one"
    /\ \/ /\ waiters # <<>>
          /\ toWake' = [toWake EXCEPT ![s] = {Head(waiters)}]
          /\ waiters' = Tail(waiters)
       \/ waiters = <<>> /\ UNCHANGED <<toWake, waiters>>
    /\ WGoto(s, "idle")
    /\ UNCHANGED <<channel, reader, task, timeouts, closes>>

\* apply_local_wake under the scheduler lock of the task's CPU.
ApplyWake(r) ==
    /\ blocked' = [blocked EXCEPT ![r] = FALSE]
    /\ wakePending' = [wakePending EXCEPT ![r] = ~blocked[r]]

\* ... and woken outside it: wake_task applies a same-CPU wake at once and
\* publishes a WAKE operation to another CPU.  A batch is woken in any order.
WakeTask(w, r) ==
    /\ r \in toWake[w]
    /\ \/ CpuOf[w] = CpuOf[r] /\ ApplyWake(r) /\ UNCHANGED remoteWake
       \/ /\ CpuOf[w] # CpuOf[r]
          /\ remoteWake' = remoteWake \cup {r}
          /\ UNCHANGED <<blocked, wakePending>>
    /\ toWake' = [toWake EXCEPT ![w] = @ \ {r}]
    /\ UNCHANGED <<channel, waiters, reader, timeouts, wpc, closes>>

\* process_inbox_task on the task's CPU.
DrainWake(r) ==
    /\ r \in remoteWake
    /\ remoteWake' = remoteWake \ {r}
    /\ ApplyWake(r)
    /\ UNCHANGED <<channel, waiters, reader, timeouts, waker>>

\* Mutant: the drop only clears the flag.
PeerDropSilent ==
    /\ peerAlive
    /\ \A s \in Senders : wpc[s] = "idle" /\ toWake[s] = {}
    /\ peerAlive' = FALSE
    /\ UNCHANGED <<queue, nextSeq, readerAlive, waiters, reader, task, timeouts, waker>>

\* Drop of the peer endpoint: senders hold a reference while they send.
PeerDrop ==
    /\ wpc[Closer] = "idle" /\ toWake[Closer] = {}
    /\ peerAlive
    /\ \A s \in Senders : wpc[s] = "idle" /\ toWake[s] = {}
    /\ peerAlive' = FALSE
    /\ WGoto(Closer, "wake_all")
    /\ UNCHANGED <<queue, nextSeq, readerAlive, waiters, reader, task, timeouts, toWake, closes>>

\* Closing or transferring another handle to the reading endpoint wakes its
\* waiters so that they look at their handle table again (wake_object_waiters).
HandleRemoved ==
    /\ wpc[Closer] = "idle" /\ toWake[Closer] = {}
    /\ readerAlive
    /\ closes < MaxHandleCloses
    /\ closes' = closes + 1
    /\ WGoto(Closer, "wake_all")
    /\ UNCHANGED <<channel, waiters, reader, task, timeouts, toWake>>


WakeAll ==
    /\ wpc[Closer] = "wake_all"
    /\ toWake' = [toWake EXCEPT ![Closer] = Range(waiters)]
    /\ waiters' = <<>>
    /\ WGoto(Closer, "idle")
    /\ UNCHANGED <<channel, reader, task, timeouts, closes>>

\* The reading endpoint goes away when no reader holds it.
ReaderDrop ==
    /\ readerAlive
    /\ \A r \in Readers : At(r, "idle")
    /\ readerAlive' = FALSE
    /\ UNCHANGED <<queue, nextSeq, peerAlive, waiters, reader, task, timeouts, waker>>

\* Time reaches the deadline of an armed wait; notify_tick then takes every
\* expired entry out of TIMEOUTS and wakes its task.
DeadlinePasses(r) ==
    /\ r \in armed /\ ~expired[r]
    /\ expired' = [expired EXCEPT ![r] = TRUE]
    /\ UNCHANGED <<channel, waiters, reader, task, armed, waker>>


\* Mutant: expired entries are dropped without a wake.
NotifyTickSilent ==
    /\ \E r \in armed : expired[r]
    /\ armed' = {r \in armed : ~expired[r]}
    /\ UNCHANGED <<channel, waiters, reader, task, expired, waker>>

NotifyTick ==
    /\ toWake[Timer] = {}
    /\ LET due == {r \in armed : expired[r]}
       IN due # {} /\ toWake' = [toWake EXCEPT ![Timer] = due] /\ armed' = armed \ due
    /\ UNCHANGED <<channel, waiters, reader, task, expired, wpc, closes>>

-----------------------------------------------------------------------------
ReaderStep(r) ==
    \/ Precheck(r) \/ Prepare(r) \/ Check(r) \/ PeerCheck(r) \/ Arm(r) \/ Park(r)
    \/ Resume(r) \/ Unqueue(r) \/ Cancel(r) \/ Final(r) \/ FinalPeer(r)
SenderStep(s) == Enqueue(s) \/ WakeOne(s)

Next ==
    \/ \E r \in Readers : \/ BeginCall(r) \/ ReaderStep(r) \/ Poll(r) \/ Consume(r)
                           \/ DrainWake(r) \/ DeadlinePasses(r)
    \/ \E s \in Senders : BeginSend(s) \/ SenderStep(s)
    \/ \E w \in Wakers, r \in Readers : WakeTask(w, r)
    \/ PeerDrop \/ HandleRemoved \/ WakeAll \/ ReaderDrop \/ NotifyTick

\* Threads that are inside a call or a wake keep running, reschedule IPIs are
\* served, and time passes.  Nobody is obliged to start a call or to close.
Fairness ==
    /\ \A r \in Readers : /\ WF_vars(ReaderStep(r)) /\ WF_vars(DrainWake(r))
                          /\ WF_vars(DeadlinePasses(r))
    /\ \A s \in Senders : WF_vars(SenderStep(s))
    /\ \A w \in Wakers, r \in Readers : WF_vars(WakeTask(w, r))
    /\ WF_vars(WakeAll) /\ WF_vars(NotifyTick)

Spec == Init /\ [][Next]_vars
FairSpec == Spec /\ Fairness

-----------------------------------------------------------------------------
(* Properties *)

\* A wake for r has been decided but not applied yet.
WakeInFlight(r) ==
    \/ r \in remoteWake
    \/ \E w \in Wakers : r \in toWake[w]

\* A thread asleep in a receive can always be found by a waker: it is in the
\* wait queue, or somebody has popped it and its wake is on the way.  This is the
\* handshake between WaitQueue::prepare, park_current and apply_local_wake.
SleeperReachable ==
    \A r \in Readers : blocked[r] => Waiting(r) \/ WakeInFlight(r)

\* The drop of the peer leaves nobody asleep: a sleeping reader of a closed
\* channel has a wake on the way, or the dropping thread has yet to run wake_all.
ClosedSleeperWakes ==
    ~peerAlive => \A r \in Readers :
        blocked[r] => \/ WakeInFlight(r)
                      \/ wpc[Closer] = "wake_all" /\ Waiting(r)

\* Channel::send wakes a reader for what it enqueues: nobody sleeps on a
\* non-empty inbox once the sends under way have finished waking.
MessageWakesSleeper ==
    queue # <<>> => \A r \in Readers :
        blocked[r] => \/ \E u \in Readers : WakeInFlight(u)
                      \/ \E s \in Senders : wpc[s] = "wake_one"
                      \/ \E u \in Readers : pc[u] # "idle" /\ ~blocked[u]

\* ChannelRecvError::PeerClosed means what its doc comment says: the peer is
\* closed and the queue is empty.  recv_status is exempt: it tests the peer after
\* it has let go of the inbox lock.
ClosedMeansDrained ==
    \A r \in Readers :
        outcome[r] = "closed" /\ Op(r) # "status" => ~peerAlive /\ queue = <<>>

\* With a closed peer every receive call returns.
CloseEndsCalls ==
    \A r \in Readers : ~peerAlive ~> At(r, "idle")

\* A timed receive returns even if nobody ever sends.
TimedCallReturns ==
    \A r \in Readers : (call[r].timed /\ ~At(r, "idle")) ~> At(r, "idle")

=============================================================================
