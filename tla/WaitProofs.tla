----------------------------- MODULE WaitProofs -----------------------------
(***************************************************************************)
(* No wake is lost, for any number of tasks, messages and packets: a       *)
(* reader asleep on a channel is in the wait queue or its wake is on the   *)
(* way, and after the peer's drop its wake is on the way (ChannelWait); a  *)
(* task asleep on a port, a signal object or a process exit that happened  *)
(* has its wake on the way (KernelEvents).                                 *)
(***************************************************************************)
EXTENDS ChannelWait, KernelEvents, TLAPS

\* The points of a receive call between prepare and the end of the wait.
Registered == {"check", "peer", "arm", "park"}

\* A registered reader cannot be forgotten: a waker finds it in the queue, has
\* popped it, or has left its mark in wake_pending, which park_current reads.
ReaderSafe(r) ==
    /\ blocked[r] => At(r, "parked")
    /\ pc[r] \in Registered => Waiting(r) \/ WakeInFlight(r) \/ wakePending[r]
    /\ blocked[r] => Waiting(r) \/ WakeInFlight(r)

\* The same once the peer is gone, for readers that still saw it alive.
CloseSafe(r) ==
    ~peerAlive =>
        /\ pc[r] \in {"arm", "park"} =>
               WakeInFlight(r) \/ wakePending[r] \/ (wpc[Closer] = "wake_all" /\ Waiting(r))
        /\ blocked[r] =>
               WakeInFlight(r) \/ (wpc[Closer] = "wake_all" /\ Waiting(r))

\* A waker in the middle of an operation has no popped task left to wake, and
\* notify_tick takes its batch in one step.
WakerSafe(w) ==
    /\ wpc[w] # "idle" => toWake[w] = {}
    /\ w = Timer => wpc[w] = "idle"

ReadersSafe == \A r \in Readers : ReaderSafe(r) /\ CloseSafe(r)

Ind ==
    /\ TypeOK
    /\ ReadersSafe
    /\ \A w \in Wakers : WakerSafe(w)

-----------------------------------------------------------------------------
(* The wait queue as a set *)

\* A queue as the set of its elements.
LEMMA SetOfSequence ==
    ASSUME NEW S, NEW s \in Seq(S)
    PROVE  Range(s) = {s[i] : i \in 1 .. Len(s)}
BY DEF Range

\* enqueue adds exactly the task and keeps the queue free of duplicates.
LEMMA EnqueuedQueue ==
    ASSUME NEW S, NEW q \in Seq(S), NEW r \in S, NoDuplicates(q)
    PROVE  /\ Enqueued(q, r) \in Seq(S)
           /\ NoDuplicates(Enqueued(q, r))
           /\ Range(Enqueued(q, r)) = Range(q) \cup {r}
<1>1. CASE r \in Range(q)
  BY <1>1, Zenon DEF Enqueued
<1>2. CASE r \notin Range(q)
  <2> DEFINE p == Append(q, r)
  <2>1. p \in Seq(S) /\ Len(p) = Len(q) + 1 /\ p[Len(q) + 1] = r
    OBVIOUS
  <2>2. \A i \in 1 .. Len(q) : p[i] = q[i]
    OBVIOUS
  <2>3. NoDuplicates(p)
    BY <1>2, <2>1, <2>2 DEF NoDuplicates, Range
  <2>4. Range(p) = Range(q) \cup {r}
    BY <2>1, <2>2 DEF Range
  <2> QED BY <1>2, <2>1, <2>3, <2>4, Zenon DEF Enqueued
<1> QED BY <1>1, <1>2, Zenon

\* cancel and park take exactly the task out of the queue.
LEMMA RemovedQueue ==
    ASSUME NEW S, NEW q \in Seq(S), NEW r \in S, NoDuplicates(q)
    PROVE  /\ Removed(q, r) \in Seq(S)
           /\ NoDuplicates(Removed(q, r))
           /\ Range(Removed(q, r)) = Range(q) \ {r}
<1>1. CASE r \notin Range(q)
  BY <1>1, Zenon DEF Removed
<1>2. CASE r \in Range(q)
  <2> DEFINE i == CHOOSE i \in 1 .. Len(q) : q[i] = r
             n == Len(q) - 1
             p == [j \in 1 .. n |-> q[IF j < i THEN j ELSE j + 1]]
  <2>0. Range(q) = {q[j] : j \in 1 .. Len(q)}
    BY SetOfSequence, Zenon
  <2>1. i \in 1 .. Len(q) /\ q[i] = r
    BY <1>2, <2>0, Zenon
  <2>2. Removed(q, r) = p
    BY <1>2, Zenon DEF Removed
  <2> HIDE DEF i
  <2>3. n \in Nat /\ Len(q) = n + 1
    BY <2>1
  <2>4. \A j \in 1 .. n : (IF j < i THEN j ELSE j + 1) \in 1 .. Len(q)
    BY <2>1, <2>3
  <2>5. p \in Seq(S)
    <3>1. p \in [1 .. n -> S]
      BY <2>4
    <3> QED BY <3>1, <2>3
  <2>6. Len(p) = n /\ \A j \in 1 .. n : p[j] = q[IF j < i THEN j ELSE j + 1]
    BY <2>3, <2>5
  <2> HIDE DEF p
  <2>7. NoDuplicates(p)
    BY <2>1, <2>3, <2>4, <2>6 DEF NoDuplicates
  <2>a. Range(p) = {p[j] : j \in 1 .. n}
    BY <2>5, <2>6, SetOfSequence, Zenon
  <2>8. Range(p) \subseteq Range(q) \ {r}
    BY <2>0, <2>a, <2>1, <2>3, <2>4, <2>6 DEF NoDuplicates
  <2>9. ASSUME NEW x \in Range(q), x # r
        PROVE  x \in Range(p)
    <3>1. PICK k \in 1 .. Len(q) : q[k] = x
      BY <2>0, <2>9, Zenon
    <3>2. k # i
      BY <3>1, <2>1, <2>9, Zenon
    <3>3. CASE k < i
      <4>1. k \in 1 .. n /\ p[k] = x
        BY <3>1, <3>3, <2>1, <2>3, <2>6
      <4> QED BY <4>1, <2>a, Zenon
    <3>4. CASE k > i
      <4>1. k - 1 \in 1 .. n /\ ~(k - 1 < i) /\ (k - 1) + 1 = k
        BY <3>4, <2>1, <2>3
      <4>2. p[k - 1] = x
        BY <4>1, <3>1, <2>6, Zenon
      <4> QED BY <4>1, <4>2, <2>a, Zenon
    <3> QED BY <3>2, <3>3, <3>4, <2>1
  <2> QED BY <2>2, <2>5, <2>7, <2>8, <2>9, Zenon
<1> QED BY <1>1, <1>2, Zenon

\* wake_one pops exactly the oldest waiter.
LEMMA PoppedQueue ==
    ASSUME NEW S, NEW q \in Seq(S), NoDuplicates(q), q # <<>>
    PROVE  /\ Head(q) \in S /\ Tail(q) \in Seq(S)
           /\ NoDuplicates(Tail(q))
           /\ Range(Tail(q)) = Range(q) \ {Head(q)}
<1>1. Head(q) \in S /\ Head(q) = q[1] /\ Tail(q) \in Seq(S) /\ Len(Tail(q)) = Len(q) - 1
  OBVIOUS
<1>2. \A i \in 1 .. Len(q) - 1 : Tail(q)[i] = q[i + 1]
  OBVIOUS
<1>3. Len(q) \in Nat /\ Len(q) > 0
  OBVIOUS
<1>4. NoDuplicates(Tail(q))
  BY <1>1, <1>2, <1>3 DEF NoDuplicates
<1>0. Range(q) = {q[j] : j \in 1 .. Len(q)} /\ Range(Tail(q)) = {Tail(q)[j] : j \in 1 .. Len(q) - 1}
  BY <1>1, SetOfSequence, Zenon
<1>5. Range(Tail(q)) \subseteq Range(q) \ {Head(q)}
  BY <1>0, <1>1, <1>2, <1>3 DEF NoDuplicates
<1>6. ASSUME NEW x \in Range(q), x # Head(q)
      PROVE  x \in Range(Tail(q))
  <2>1. PICK k \in 1 .. Len(q) : q[k] = x
    BY <1>0, <1>6, Zenon
  <2>2. k - 1 \in 1 .. Len(q) - 1 /\ Tail(q)[k - 1] = x
    BY <2>1, <1>1, <1>2, <1>3, <1>6
  <2> QED BY <2>2, <1>0, Zenon
<1> QED BY <1>1, <1>4, <1>5, <1>6, Zenon

-----------------------------------------------------------------------------
(* Type correctness *)

\* Taking the front message keeps the inbox within its capacity.
LEMMA ShorterInbox ==
    ASSUME NEW q \in Seq(Nat), Len(q) <= Capacity, q # <<>>
    PROVE  Tail(q) \in Seq(Nat) /\ Len(Tail(q)) <= Capacity /\ Head(q) \in Nat
  BY BoundsAssumption

\* A reader's own moves keep the types of its program point and its result.
LEMMA MoveTypes ==
    ASSUME pc \in [Readers -> Points], outcome \in [Readers -> Outcomes],
           NEW r \in Readers, NEW p \in Points
    PROVE  /\ Move(r, p) => pc' \in [Readers -> Points] /\ outcome' \in [Readers -> Outcomes]
           /\ \A o \in Outcomes :
                Finish(r, p, o) => pc' \in [Readers -> Points] /\ outcome' \in [Readers -> Outcomes]
  BY Zenon DEF Move, Finish, Goto

\* No step of the code leaves the types.
LEMMA TypeStep == TypeOK /\ [Next]_vars => TypeOK'
<1> SUFFICES ASSUME TypeOK, [Next]_vars PROVE TypeOK'
  BY Zenon
<1> USE DEF TypeOK, Points, Outcomes, channel, reader, task, timeouts, waker, vars
<1>1. CASE UNCHANGED vars
  BY <1>1, Zenon
<1>2. ASSUME NEW r \in Readers, BeginCall(r)
      PROVE  TypeOK'
  <2>1. call' \in [Readers -> Calls \cup {NoCall}] /\ pc' \in [Readers -> Points]
    <3>1. PICK c \in Calls : /\ call' = [call EXCEPT ![r] = c]
                             /\ Goto(r, LoopStart(c)) \/ Goto(r, "final")
      BY <1>2, Zenon DEF BeginCall
    <3>2. LoopStart(c) \in Points /\ "final" \in Points
      BY Zenon DEF LoopStart
    <3>3. PICK p \in Points : pc' = [pc EXCEPT ![r] = p]
      BY <3>1, <3>2, Zenon DEF Goto
    <3>4. pc \in [Readers -> Points] /\ call \in [Readers -> Calls \cup {NoCall}]
      BY Zenon
    <3> HIDE DEF Points, TypeOK
    <3> QED BY <3>1, <3>3, <3>4, Zenon
  <2>2. outcome' \in [Readers -> Outcomes] /\ UNCHANGED <<cookie, channel, waiters, task, timeouts, waker>>
    BY <1>2, Zenon DEF BeginCall
  <2> QED BY <2>1, <2>2, Zenon
<1>3. ASSUME NEW r \in Readers, ReaderStep(r)
      PROVE  TypeOK'
  <2>1. CASE Precheck(r)
    <3>1. queue' \in Seq(Nat) /\ Len(queue') <= Capacity
      BY <2>1, ShorterInbox, Zenon DEF Precheck, RecvIfFits, RecvAnswer, Peek
    <3>2. pc' \in [Readers -> Points] /\ outcome' \in [Readers -> Outcomes]
      BY <2>1, MoveTypes, Zenon DEF Precheck, RecvIfFits, RecvAnswer, Peek
    <3>3. UNCHANGED <<nextSeq, peerAlive, readerAlive, waiters, call, cookie, task, timeouts, waker>>
      BY <2>1, Zenon DEF Precheck, RecvIfFits, RecvAnswer, Peek, Move, Finish
    <3> QED BY <3>1, <3>2, <3>3, Zenon
  <2>2. CASE Prepare(r)
    BY <2>2, EnqueuedQueue, Zenon DEF Prepare, At, Goto, Move
  <2>3. CASE Check(r)
    <3>1. queue' \in Seq(Nat) /\ Len(queue') <= Capacity
      BY <2>3, ShorterInbox, Zenon DEF Check, RecvIfFits, RecvAnswer, Peek
    <3>2. pc' \in [Readers -> Points] /\ outcome' \in [Readers -> Outcomes]
      <4>1. Sleep(r) \in Points
        BY Zenon DEF Sleep
      <4> QED BY <2>3, <4>1, MoveTypes, Zenon DEF Check, RecvIfFits, RecvAnswer, Peek
    <3>3. UNCHANGED <<nextSeq, peerAlive, readerAlive, waiters, call, cookie, task, timeouts, waker>>
      BY <2>3, Zenon DEF Check, RecvIfFits, RecvAnswer, Peek, Move, Finish
    <3> QED BY <3>1, <3>2, <3>3, Zenon
  <2>4. CASE PeerCheck(r)
    BY <2>4, Zenon DEF PeerCheck, At, Goto, Move, Finish, Sleep
  <2>5. CASE Arm(r)
    BY <2>5, Zenon DEF Arm, At, Goto, Move
  <2>6. CASE Park(r)
    BY <2>6, Zenon DEF Park, At, Goto, Move
  <2>7. CASE Resume(r)
    BY <2>7, Zenon DEF Resume, At, Goto, Move
  <2>8. CASE Unqueue(r)
    <3>1. waiters' \in Seq(Readers) /\ NoDuplicates(waiters')
      BY <2>8, RemovedQueue, Zenon DEF Unqueue
    <3>2. pc' \in [Readers -> Points] /\ outcome' \in [Readers -> Outcomes]
      BY <2>8 DEF Unqueue, Goto, Move, Finish, LoopStart
    <3>3. UNCHANGED <<channel, call, cookie, task, timeouts, waker>>
      BY <2>8, Zenon DEF Unqueue, Move, Finish
    <3> QED BY <3>1, <3>2, <3>3, Zenon
  <2>9. CASE Cancel(r)
    BY <2>9, RemovedQueue, Zenon DEF Cancel, At, Goto, Move, Op
  <2>10. CASE Final(r)
    <3>1. queue' \in Seq(Nat) /\ Len(queue') <= Capacity
      BY <2>10, ShorterInbox, Zenon DEF Final
    <3>2. pc' \in [Readers -> Points] /\ outcome' \in [Readers -> Outcomes]
      <4>1. CASE Op(r) = "peek" /\ queue # <<>> /\ outcome' = [outcome EXCEPT ![r] = "message"] /\ Goto(r, "idle")
        BY <4>1, Zenon DEF Goto
      <4> QED BY <2>10, <4>1, MoveTypes, Zenon DEF Final
    <3>3. cookie' \in [Readers -> Nat \cup {-1}]
      BY <2>10, ShorterInbox DEF Final, Move, Finish
    <3>4. UNCHANGED <<nextSeq, peerAlive, readerAlive, waiters, call, task, timeouts, waker>>
      BY <2>10, Zenon DEF Final, Move, Finish
    <3> QED BY <3>1, <3>2, <3>3, <3>4, Zenon
  <2>11. CASE FinalPeer(r)
    BY <2>11, Zenon DEF FinalPeer, At, Goto, Move, Finish
  <2> QED BY <1>3, <2>1, <2>2, <2>3, <2>4, <2>5, <2>6, <2>7, <2>8, <2>9, <2>10, <2>11, Zenon DEF ReaderStep
<1>4. ASSUME NEW r \in Readers, Poll(r) \/ Consume(r) \/ DrainWake(r) \/ DeadlinePasses(r)
      PROVE  TypeOK'
  <2>1. CASE Consume(r)
    <3>1. queue' \in Seq(Nat) /\ Len(queue') <= Capacity
      BY <2>1, ShorterInbox, Zenon DEF Consume
    <3>2. outcome' \in [Readers -> Outcomes] /\ cookie' \in [Readers -> Nat \cup {-1}]
      BY <2>1 DEF Consume
    <3> QED BY <2>1, <3>1, <3>2, Zenon DEF Consume
  <2>2. CASE DrainWake(r)
    BY <2>2, Zenon DEF DrainWake, ApplyWake
  <2>3. CASE DeadlinePasses(r)
    BY <2>3, Zenon DEF DeadlinePasses
  <2>4. CASE Poll(r)
    <3>1. queue' \in Seq(Nat) /\ Len(queue') <= Capacity
      BY <2>4, ShorterInbox, Zenon DEF Poll, RecvIfFits, RecvAnswer
    <3>2. pc' \in [Readers -> Points] /\ outcome' \in [Readers -> Outcomes]
      BY <2>4, MoveTypes, Zenon DEF Poll, RecvIfFits, RecvAnswer
    <3>3. UNCHANGED <<nextSeq, peerAlive, readerAlive, waiters, call, cookie, task, timeouts, waker>>
      BY <2>4, Zenon DEF Poll, RecvIfFits, RecvAnswer, Move, Finish
    <3> QED BY <3>1, <3>2, <3>3, Zenon
  <2> QED BY <1>4, <2>1, <2>2, <2>3, <2>4, Zenon
<1>5. ASSUME NEW s \in Senders, BeginSend(s) \/ SenderStep(s)
      PROVE  TypeOK'
  <2>1. s \in Wakers
    BY Zenon DEF Wakers
  <2>2. CASE BeginSend(s)
    BY <2>1, <2>2, Zenon DEF BeginSend, WGoto
  <2>3. CASE Enqueue(s)
    <3>1. queue' \in Seq(Nat) /\ Len(queue') <= Capacity /\ nextSeq' \in 0 .. MaxSends
      <4>1. CASE UNCHANGED <<queue, nextSeq>>
        BY <4>1, Zenon
      <4>2. CASE Len(queue) < Capacity /\ nextSeq < MaxSends /\ queue' = Append(queue, nextSeq) /\ nextSeq' = nextSeq + 1
        BY <4>2, BoundsAssumption
      <4> QED BY <2>3, <4>1, <4>2, Zenon DEF Enqueue
    <3>2. wpc' \in [Wakers -> {"idle", "enqueue", "wake_one", "wake_all"}]
      BY <2>1, <2>3, Zenon DEF Enqueue, WGoto
    <3> QED BY <2>3, <3>1, <3>2, Zenon DEF Enqueue
  <2>4. CASE WakeOne(s)
    <3>1. waiters' \in Seq(Readers) /\ NoDuplicates(waiters')
      <4>1. CASE waiters # <<>> /\ waiters' = Tail(waiters)
        BY <4>1, PoppedQueue, Zenon
      <4>2. CASE UNCHANGED waiters
        BY <4>2, Zenon
      <4> QED BY <2>4, <4>1, <4>2, Zenon DEF WakeOne
    <3>2. toWake' \in [Wakers -> SUBSET Readers]
      BY <2>1, <2>4, PoppedQueue DEF WakeOne
    <3> QED BY <2>1, <2>4, <3>1, <3>2, Zenon DEF WakeOne, WGoto
  <2> QED BY <1>5, <2>2, <2>3, <2>4, Zenon DEF SenderStep
<1>6. ASSUME NEW w \in Wakers, NEW r \in Readers, WakeTask(w, r)
      PROVE  TypeOK'
  BY <1>6, Zenon DEF WakeTask, ApplyWake
<1>7. CASE PeerDrop \/ HandleRemoved
  <2>1. closes' \in 0 .. MaxHandleCloses
    BY <1>7, BoundsAssumption DEF PeerDrop, HandleRemoved
  <2>2. Closer \in Wakers
    BY Zenon DEF Wakers
  <2> QED BY <1>7, <2>1, <2>2, Zenon DEF PeerDrop, HandleRemoved, WGoto
<1>8. CASE WakeAll
  <2>1. NoDuplicates(<<>>) /\ Range(waiters) \subseteq Readers
    BY DEF NoDuplicates, Range
  <2>2. toWake' \in [Wakers -> SUBSET Readers]
    BY <1>8, <2>1, Zenon DEF WakeAll
  <2>3. waiters' \in Seq(Readers) /\ NoDuplicates(waiters')
    BY <1>8, <2>1 DEF WakeAll
  <2> QED BY <1>8, <2>2, <2>3, Zenon DEF WakeAll, WGoto
<1>9. CASE ReaderDrop \/ NotifyTick
  BY <1>9, ZenonT(40) DEF ReaderDrop, NotifyTick
<1> QED BY <1>1, <1>2, <1>3, <1>4, <1>5, <1>6, <1>7, <1>8, <1>9, Zenon DEF Next

-----------------------------------------------------------------------------
(* The inductive step *)

\* A step of an awake reader that keeps the queue and does not put it to sleep.
LEMMA MoveInd ==
    ASSUME Ind, NEW r \in Readers, ~blocked[r],
           UNCHANGED <<waiters, blocked, wakePending, remoteWake, peerAlive, wpc, toWake>>,
           NEW p, pc' = [pc EXCEPT ![r] = p],
           p \in Registered => pc[r] \in Registered,
           p \in {"arm", "park"} => peerAlive \/ pc[r] \in {"arm", "park"}
    PROVE  ReadersSafe'
<1>1. pc \in [Readers -> Points]
  BY Zenon DEF Ind, TypeOK
<1> QED BY <1>1, Zenon DEF Ind, ReadersSafe, ReaderSafe, CloseSafe, Waiting, WakeInFlight, Registered, At

\* A step that takes an awake reader out of the queue when it no longer waits.
LEMMA LeaveInd ==
    ASSUME Ind, NEW r \in Readers, ~blocked[r],
           UNCHANGED <<blocked, wakePending, remoteWake, peerAlive, wpc, toWake>>,
           waiters' = Removed(waiters, r),
           NEW p, pc' = [pc EXCEPT ![r] = p], p \notin Registered
    PROVE  ReadersSafe'
<1>1. pc \in [Readers -> Points] /\ waiters \in Seq(Readers) /\ NoDuplicates(waiters)
  BY Zenon DEF Ind, TypeOK
<1>2. Range(waiters') = Range(waiters) \ {r}
  BY <1>1, RemovedQueue
<1> QED BY <1>1, <1>2, Zenon
        DEF Ind, ReadersSafe, ReaderSafe, CloseSafe, Waiting, WakeInFlight, Registered, At

\* A step of a receive call.
LEMMA ReaderStepInd ==
    ASSUME Ind, NEW r \in Readers, BeginCall(r) \/ ReaderStep(r) \/ Poll(r) \/ Consume(r)
    PROVE  ReadersSafe' /\ \A w \in Wakers : WakerSafe(w)'
<1> USE DEF At, Registered
<1>1. /\ waiters \in Seq(Readers) /\ NoDuplicates(waiters)
      /\ pc \in [Readers -> Points]
      /\ blocked \in [Readers -> BOOLEAN] /\ wakePending \in [Readers -> BOOLEAN]
  BY Zenon DEF Ind, TypeOK
<1>2. UNCHANGED <<wpc, toWake, peerAlive, remoteWake>>
  BY Zenon DEF BeginCall, ReaderStep, Precheck, Prepare, Check, PeerCheck, Arm, Park, Resume,
         Unqueue, Cancel, Final, FinalPeer, Poll, Consume, channel, task, waker
<1>3. \A w \in Wakers : WakerSafe(w)'
  BY <1>2, Zenon DEF Ind, WakerSafe
<1> SUFFICES ReadersSafe'
  BY <1>3, Zenon
<1>4. blocked[r] => pc[r] = "parked"
  BY Zenon DEF Ind, ReadersSafe, ReaderSafe
<1>6. CASE BeginCall(r)
  <2>1. \E p \in {"precheck", "prepare", "final"} : pc' = [pc EXCEPT ![r] = p]
    BY <1>6, Zenon DEF BeginCall, Goto, LoopStart
  <2> QED BY <1>6, <2>1, <1>2, <1>4, MoveInd, Zenon DEF BeginCall, task
<1>7. CASE Precheck(r)
  <2>1. \E p \in {"idle", "prepare", "final"} : pc' = [pc EXCEPT ![r] = p]
    BY <1>7, Zenon DEF Precheck, RecvIfFits, RecvAnswer, Peek, Move, Finish, Goto
  <2> QED BY <1>7, <2>1, <1>2, <1>4, MoveInd, Zenon DEF Precheck, task
<1>8. CASE Prepare(r)
  <2>1. Range(waiters') = Range(waiters) \cup {r}
    BY <1>8, <1>1, EnqueuedQueue DEF Prepare
  <2> QED BY <1>8, <2>1, <1>1, <1>2 , Zenon
         DEF Prepare, Move, Goto, task, Ind, ReadersSafe, ReaderSafe, CloseSafe, Waiting, WakeInFlight
<1>9. CASE Check(r)
  <2>1. \E p \in {"idle", "cancel", "peer", "arm", "park"} :
           /\ pc' = [pc EXCEPT ![r] = p]
           /\ p \in {"arm", "park"} => peerAlive
    BY <1>9, Zenon DEF Check, RecvIfFits, RecvAnswer, Peek, Move, Finish, Goto, Sleep
  <2> QED BY <1>9, <2>1, <1>2, <1>4, MoveInd, Zenon DEF Check, task
<1>10. CASE PeerCheck(r)
  <2>1. \E p \in {"idle", "arm", "park"} :
           /\ pc' = [pc EXCEPT ![r] = p]
           /\ p \in {"arm", "park"} => peerAlive
    BY <1>10, Zenon DEF PeerCheck, Move, Finish, Goto, Sleep
  <2> QED BY <1>10, <2>1, <1>2, <1>4, MoveInd, Zenon DEF PeerCheck, task
<1>11. CASE Arm(r)
  BY <1>11, <1>2, <1>4, MoveInd, Zenon DEF Arm, Move, Goto, task
<1>12. CASE Park(r)
  BY <1>12, <1>1, <1>2, Zenon DEF Park, Move, Goto, Ind, ReadersSafe, ReaderSafe, CloseSafe, Waiting, WakeInFlight
<1>13. CASE Resume(r)
  BY <1>13, <1>2, <1>4, MoveInd, Zenon DEF Resume, Move, Goto, task
<1>14. CASE Unqueue(r)
  <2>1. \E p \in {"idle", "final", "precheck", "prepare"} : pc' = [pc EXCEPT ![r] = p]
    BY <1>14, Zenon DEF Unqueue, Move, Finish, Goto, LoopStart
  <2> QED BY <1>14, <2>1, <1>2, <1>4, LeaveInd, Zenon DEF Unqueue, task
<1>15. CASE Cancel(r)
  BY <1>15, <1>2, <1>4, LeaveInd, Zenon DEF Cancel, Move, Goto, task
<1>16. CASE Final(r) \/ FinalPeer(r)
  <2>1. \E p \in {"idle", "final_peer"} : pc' = [pc EXCEPT ![r] = p]
    BY <1>16, Zenon DEF Final, FinalPeer, Move, Finish, Goto
  <2> QED BY <1>16, <2>1, <1>2, <1>4, MoveInd, Zenon DEF Final, FinalPeer, task
<1>17. CASE Consume(r)
  <2>1. pc[r] = "idle" /\ pc' = [pc EXCEPT ![r] = "idle"] /\ UNCHANGED <<waiters, blocked, wakePending>>
    BY <1>17, <1>1, Zenon DEF Consume, task
  <2> QED BY <2>1, <1>2, <1>4, MoveInd, Zenon
<1>18. CASE Poll(r)
  <2>1. pc[r] = "idle" /\ pc' = [pc EXCEPT ![r] = "idle"] /\ UNCHANGED <<waiters, blocked, wakePending>>
    BY <1>18, Zenon DEF Poll, RecvIfFits, RecvAnswer, Finish, Move, Goto, task
  <2> QED BY <2>1, <1>2, <1>4, MoveInd, Zenon
<1> QED BY <1>6, <1>7, <1>8, <1>9, <1>10, <1>11, <1>12, <1>13, <1>14, <1>15, <1>16, <1>17, <1>18, Zenon
        DEF ReaderStep

\* Applying a wake unblocks the task or leaves wake_pending behind.
LEMMA ApplyWakeInd ==
    ASSUME Ind, NEW r \in Readers, ApplyWake(r),
           UNCHANGED <<waiters, pc, peerAlive, wpc>>,
           \A u \in Readers \ {r} : WakeInFlight(u) => WakeInFlight(u)'
    PROVE  ReadersSafe'
<1>1. /\ pc \in [Readers -> Points]
      /\ blocked \in [Readers -> BOOLEAN] /\ wakePending \in [Readers -> BOOLEAN]
  BY Zenon DEF Ind, TypeOK
<1>2. /\ ~blocked'[r]
      /\ pc[r] # "parked" => wakePending'[r]
      /\ \A u \in Readers \ {r} : blocked'[u] = blocked[u] /\ wakePending'[u] = wakePending[u]
  BY <1>1, Zenon DEF ApplyWake, Ind, ReadersSafe, ReaderSafe, At
<1> HIDE DEF WakeInFlight
<1> QED BY <1>1, <1>2, Zenon DEF Ind, ReadersSafe, ReaderSafe, CloseSafe, Waiting, At, Registered

\* A step that only moves tasks from the queue to wakes in flight.
LEMMA PopInd ==
    ASSUME Ind, UNCHANGED <<pc, blocked, wakePending, peerAlive>>,
           \A u \in Readers : WakeInFlight(u) => WakeInFlight(u)',
           \A u \in Readers : Waiting(u) => Waiting(u)' \/ WakeInFlight(u)',
           wpc[Closer] = "wake_all" =>
               \A u \in Readers : Waiting(u) => (wpc'[Closer] = "wake_all" /\ Waiting(u)') \/ WakeInFlight(u)'
    PROVE  ReadersSafe'
  BY Zenon DEF Ind, ReadersSafe, ReaderSafe, CloseSafe, At, Registered

\* A step of a waker, of the timer or of the reader's CPU.
LEMMA WakerStepInd ==
    ASSUME Ind,
           \/ \E r \in Readers : DrainWake(r) \/ DeadlinePasses(r)
           \/ \E w \in Wakers, r \in Readers : WakeTask(w, r)
           \/ \E s \in Senders : BeginSend(s) \/ SenderStep(s)
           \/ PeerDrop \/ HandleRemoved \/ WakeAll \/ ReaderDrop \/ NotifyTick
    PROVE  ReadersSafe' /\ \A v \in Wakers : WakerSafe(v)'
<1> DEFINE Goal == ReadersSafe' /\ \A v \in Wakers : WakerSafe(v)'
<1> USE DEF WakeInFlight, Waiting
<1>1. /\ waiters \in Seq(Readers) /\ NoDuplicates(waiters)
      /\ wpc \in [Wakers -> {"idle", "enqueue", "wake_one", "wake_all"}]
      /\ toWake \in [Wakers -> SUBSET Readers]
      /\ Closer \in Wakers /\ Timer \in Wakers
      /\ \A v \in Wakers : wpc[v] # "idle" => toWake[v] = {}
      /\ wpc[Timer] = "idle" /\ Closer # Timer /\ Timer \notin Senders
  BY ActorsAssumption, Zenon DEF Ind, TypeOK, Wakers, WakerSafe
<1>2. ASSUME NEW r \in Readers, DrainWake(r) PROVE Goal
  <2>1. UNCHANGED <<waiters, pc, peerAlive, wpc, toWake>>
    BY <1>2, Zenon DEF DrainWake, channel, reader, waker
  <2> QED BY <1>2, <2>1, <1>1, ApplyWakeInd, Zenon DEF DrainWake, WakerSafe
<1>3. ASSUME (\E r \in Readers : DeadlinePasses(r)) \/ ReaderDrop PROVE Goal
  <2>1. UNCHANGED <<waiters, pc, blocked, wakePending, remoteWake, peerAlive, wpc, toWake>>
    BY <1>3, Zenon DEF DeadlinePasses, ReaderDrop, channel, reader, task, waker
  <2> QED BY <2>1, <1>1, PopInd, Zenon DEF WakerSafe
<1>4. ASSUME NEW w \in Wakers, NEW r \in Readers, WakeTask(w, r) PROVE Goal
  <2>1. UNCHANGED <<waiters, pc, peerAlive, wpc>>
    BY <1>4, Zenon DEF WakeTask, channel, reader
  <2>2. toWake' = [toWake EXCEPT ![w] = @ \ {r}]
    BY <1>4, Zenon DEF WakeTask
  <2>3. \A v \in Wakers : WakerSafe(v)'
    BY <2>1, <2>2, <1>1, Zenon DEF WakerSafe
  <2>4. CASE ApplyWake(r) /\ UNCHANGED remoteWake
    BY <2>1, <2>2, <2>3, <2>4, <1>1, ApplyWakeInd, Zenon
  <2>5. CASE remoteWake' = remoteWake \cup {r} /\ UNCHANGED <<blocked, wakePending>>
    BY <2>1, <2>2, <2>3, <2>5, <1>1, PopInd, Zenon
  <2> QED BY <1>4, <2>4, <2>5, Zenon DEF WakeTask
<1>5. ASSUME NEW w \in Senders, BeginSend(w) \/ Enqueue(w) PROVE Goal
  <2>1. /\ UNCHANGED <<waiters, pc, blocked, wakePending, remoteWake, peerAlive, toWake>>
        /\ w # Closer /\ toWake[w] = {}
        /\ w \in Wakers /\ w # Timer
        /\ \E p : wpc' = [wpc EXCEPT ![w] = p]
    BY <1>5, <1>1, ActorsAssumption, Zenon
       DEF Wakers, BeginSend, Enqueue, WGoto, channel, reader, task
  <2> QED BY <2>1, <1>1, PopInd, Zenon DEF WakerSafe
<1>6. ASSUME NEW w \in Senders, WakeOne(w) PROVE Goal
  <2>1. /\ UNCHANGED <<pc, blocked, wakePending, remoteWake, peerAlive>>
        /\ w # Closer /\ toWake[w] = {}
        /\ w \in Wakers
        /\ wpc' = [wpc EXCEPT ![w] = "idle"]
    BY <1>6, <1>1, ActorsAssumption, Zenon DEF Wakers, WakeOne, WGoto, channel, reader, task
  <2>2. CASE UNCHANGED <<toWake, waiters>>
    BY <2>1, <2>2, <1>1, PopInd, Zenon DEF WakerSafe
  <2>3. CASE /\ waiters # <<>> /\ waiters' = Tail(waiters)
             /\ toWake' = [toWake EXCEPT ![w] = {Head(waiters)}]
    <3>1. Range(waiters') = Range(waiters) \ {Head(waiters)}
      BY <2>3, <1>1, PoppedQueue, Zenon
    <3>2. \A u \in Readers : /\ WakeInFlight(u) => WakeInFlight(u)'
                             /\ Waiting(u) => Waiting(u)' \/ WakeInFlight(u)'
      BY <3>1, <2>1, <2>3, <1>1, Zenon
    <3>3. \A v \in Wakers : WakerSafe(v)'
      BY <2>1, <2>3, <1>1, Zenon DEF WakerSafe
    <3> HIDE DEF WakeInFlight, Waiting
    <3> QED BY <3>2, <3>3, <2>1, <1>1, PopInd, Zenon
  <2> QED BY <1>6, <2>2, <2>3, Zenon DEF WakeOne
<1>7. CASE PeerDrop \/ HandleRemoved
  <2>1. /\ UNCHANGED <<waiters, pc, blocked, wakePending, remoteWake, toWake>>
        /\ toWake[Closer] = {} /\ wpc[Closer] = "idle"
        /\ wpc' = [wpc EXCEPT ![Closer] = "wake_all"]
    BY <1>7, Zenon DEF PeerDrop, HandleRemoved, WGoto, channel, reader, task
  <2>2. peerAlive \/ peerAlive' = peerAlive
    BY <1>7, Zenon DEF PeerDrop, HandleRemoved, channel
  <2>3. ReadersSafe'
    <3>1. /\ wpc'[Closer] = "wake_all"
          /\ \A u \in Readers : (Waiting(u)' <=> Waiting(u)) /\ (WakeInFlight(u)' <=> WakeInFlight(u))
      BY <2>1, <1>1, Zenon DEF Wakers
    <3>2. \A u \in Readers : ReaderSafe(u)'
      BY <3>1, <2>1, Zenon DEF Ind, ReadersSafe, ReaderSafe, At
    <3>3. \A u \in Readers : CloseSafe(u)'
      BY <3>1, <2>1, <2>2, Zenon DEF Ind, ReadersSafe, ReaderSafe, CloseSafe, At, Registered
    <3> QED BY <3>2, <3>3, Zenon DEF ReadersSafe
  <2> QED BY <2>1, <2>3, <1>1, Zenon DEF WakerSafe
<1>8. CASE WakeAll
  <2>1. /\ UNCHANGED <<pc, blocked, wakePending, remoteWake, peerAlive>>
        /\ wpc[Closer] = "wake_all"
        /\ wpc' = [wpc EXCEPT ![Closer] = "idle"]
        /\ toWake' = [toWake EXCEPT ![Closer] = Range(waiters)]
    BY <1>8, Zenon DEF WakeAll, WGoto, channel, reader, task
  <2>2. \A u \in Readers : WakeInFlight(u) \/ Waiting(u) => WakeInFlight(u)'
    BY <2>1, <1>1, Zenon
  <2>3. \A v \in Wakers : WakerSafe(v)'
    BY <2>1, <1>1, Zenon DEF WakerSafe
  <2> HIDE DEF WakeInFlight, Waiting
  <2> QED BY <2>1, <2>2, <2>3, PopInd, Zenon
<1>9. CASE NotifyTick
  <2>1. /\ UNCHANGED <<waiters, pc, blocked, wakePending, remoteWake, peerAlive, wpc>>
        /\ toWake[Timer] = {}
        /\ \E late : toWake' = [toWake EXCEPT ![Timer] = late]
    BY <1>9, Zenon DEF NotifyTick, channel, reader, task
  <2> QED BY <2>1, <1>1, PopInd, Zenon DEF WakerSafe
<1> QED BY <1>2, <1>3, <1>4, <1>5, <1>6, <1>7, <1>8, <1>9, Zenon DEF SenderStep

-----------------------------------------------------------------------------
(* Theorems *)

\* The initial state satisfies the inductive invariant.
LEMMA InitInd == Init => Ind
<1> SUFFICES ASSUME Init PROVE Ind
  BY Zenon
<1>1. TypeOK
  BY BoundsAssumption DEF Init, TypeOK, Points, Outcomes, NoDuplicates, NoCall
<1>2. ReadersSafe
  BY Zenon DEF Init, ReadersSafe, ReaderSafe, CloseSafe, Registered, At
<1>3. \A w \in Wakers : WakerSafe(w)
  BY Zenon DEF Init, WakerSafe, Wakers
<1> QED BY <1>1, <1>2, <1>3, Zenon DEF Ind

\* Every step preserves it.
LEMMA NextInd == Ind /\ [Next]_vars => Ind'
<1> SUFFICES ASSUME Ind, [Next]_vars PROVE Ind'
  BY Zenon
<1>1. TypeOK'
  BY TypeStep, Zenon DEF Ind
<1>2. CASE UNCHANGED vars
  BY <1>1, <1>2, Zenon DEF Ind, vars, channel, reader, task, timeouts, waker, ReadersSafe, ReaderSafe,
                    CloseSafe, WakerSafe, Waiting, WakeInFlight, At
<1>3. CASE \E r \in Readers : BeginCall(r) \/ ReaderStep(r) \/ Poll(r) \/ Consume(r)
  BY <1>1, <1>3, ReaderStepInd, Zenon DEF Ind
<1>4. CASE \/ \E r \in Readers : DrainWake(r) \/ DeadlinePasses(r)
           \/ \E w \in Wakers, r \in Readers : WakeTask(w, r)
           \/ \E s \in Senders : BeginSend(s) \/ SenderStep(s)
           \/ PeerDrop \/ HandleRemoved \/ WakeAll \/ ReaderDrop \/ NotifyTick
  BY <1>1, <1>4, WakerStepInd, Zenon DEF Ind
<1> QED BY <1>2, <1>3, <1>4, Zenon DEF Next

-----------------------------------------------------------------------------
(* What a receive call reports *)

\* Nobody is in the middle of a send once the peer is gone, and only recv_status
\* tests the peer outside the inbox lock.
DrainedSafe ==
    /\ ~peerAlive => \A s \in Senders : wpc[s] = "idle"
    /\ \A r \in Readers : pc[r] \in {"peer", "final_peer"} => Op(r) = "status"
    /\ ClosedMeansDrained

\* A message enqueued behind the back of the only reader is announced to it before
\* and after it falls asleep: the send has yet to run wake_one, or its wake is on
\* the way, or it is in wake_pending.
Announced(r) == WakeInFlight(r) \/ \E s \in Senders : wpc[s] = "wake_one"
MessageSafe(r) ==
    queue # <<>> =>
        /\ pc[r] \in {"peer", "arm", "park"} => Announced(r) \/ wakePending[r]
        /\ blocked[r] => Announced(r)

SoleReader == \A r, q \in Readers : r = q

\* The initial state reports nothing.
LEMMA InitDrained == Init => DrainedSafe
  BY Zenon DEF Init, DrainedSafe, ClosedMeansDrained, Wakers

\* recv_if_fits and peek test the peer inside the inbox lock, and nothing is
\* enqueued once the peer is gone.
LEMMA DrainedStep == Ind /\ DrainedSafe /\ [Next]_vars => DrainedSafe'
<1> SUFFICES ASSUME Ind, DrainedSafe, [Next]_vars PROVE DrainedSafe'
  BY Zenon
<1>1. /\ pc \in [Readers -> Points] /\ outcome \in [Readers -> Outcomes]
      /\ call \in [Readers -> Calls \cup {NoCall}]
      /\ wpc \in [Wakers -> {"idle", "enqueue", "wake_one", "wake_all"}]
  BY Zenon DEF Ind, TypeOK
<1>2. Closer \in Wakers /\ Senders \subseteq Wakers /\ Closer \notin Senders
  BY ActorsAssumption, Zenon DEF Wakers
<1>3. CASE \E r \in Readers : BeginCall(r) \/ ReaderStep(r) \/ Poll(r) \/ Consume(r)
  <2>1. PICK r \in Readers : BeginCall(r) \/ ReaderStep(r) \/ Poll(r) \/ Consume(r)
    BY <1>3, Zenon
  <2>2. UNCHANGED <<peerAlive, wpc>>
    BY <2>1, Zenon DEF BeginCall, ReaderStep, Precheck, Prepare, Check, PeerCheck, Arm, Park, Resume,
         Unqueue, Cancel, Final, FinalPeer, Poll, Consume, channel, waker
  <2>3. queue = <<>> => queue' = <<>>
    BY <2>1, Zenon DEF BeginCall, ReaderStep, Precheck, Prepare, Check, PeerCheck, Arm, Park, Resume,
         Unqueue, Cancel, Final, FinalPeer, Poll, Consume, channel, RecvIfFits, RecvAnswer, Peek
  <2>4. \A q \in Readers \ {r} : pc'[q] = pc[q] /\ call'[q] = call[q] /\ outcome'[q] = outcome[q]
    BY <2>1, <1>1, Zenon DEF BeginCall, ReaderStep, Precheck, Prepare, Check, PeerCheck, Arm, Park, Resume,
         Unqueue, Cancel, Final, FinalPeer, Poll, Consume, RecvIfFits, RecvAnswer, Peek, Move, Finish, Goto
  <2>5. /\ pc'[r] \in {"peer", "final_peer"} => call'[r].op = "status"
        /\ outcome'[r] = "closed" /\ call'[r].op # "status" => ~peerAlive /\ queue' = <<>>
    <3>1. CASE BeginCall(r)
      BY <3>1, <1>1, Zenon DEF BeginCall, Goto, LoopStart
    <3>2. CASE Precheck(r)
      BY <3>2, <1>1, <2>3, Zenon DEF Precheck, RecvIfFits, RecvAnswer, Peek, Move, Finish, Goto, DrainedSafe, ClosedMeansDrained, Op
    <3>3. CASE Check(r)
      BY <3>3, <1>1, <2>3, Zenon DEF Check, RecvIfFits, RecvAnswer, Peek, Move, Finish, Goto, DrainedSafe, ClosedMeansDrained, Op, Sleep
    <3>4. CASE PeerCheck(r) \/ FinalPeer(r)
      BY <3>4, <1>1, <2>3, Zenon DEF PeerCheck, FinalPeer, Move, Finish, Goto, DrainedSafe, ClosedMeansDrained, Op, Sleep, At, channel
    <3>5. CASE Prepare(r) \/ Arm(r) \/ Park(r) \/ Resume(r) \/ Cancel(r)
      BY <3>5, <1>1, <2>3, Zenon DEF Prepare, Arm, Park, Resume, Cancel, Move, Goto, DrainedSafe, ClosedMeansDrained, Op, channel
    <3>6. CASE Unqueue(r)
      BY <3>6, <1>1, <2>3, Zenon DEF Unqueue, Move, Finish, Goto, LoopStart, DrainedSafe, ClosedMeansDrained, Op, channel
    <3>7. CASE Final(r)
      BY <3>7, <1>1, <2>3, Zenon DEF Final, Move, Finish, Goto, DrainedSafe, ClosedMeansDrained, Op
    <3>8. CASE Poll(r)
      BY <3>8, <1>1, <2>3, Zenon DEF Poll, RecvAnswer, Move, Finish, Goto, DrainedSafe, ClosedMeansDrained, Op
    <3>9. CASE Consume(r)
      BY <3>9, <1>1, <2>3, Zenon DEF Consume, DrainedSafe, ClosedMeansDrained, Op, At
    <3> QED BY <2>1, <3>1, <3>2, <3>3, <3>4, <3>5, <3>6, <3>7, <3>8, <3>9, Zenon DEF ReaderStep
  <2> QED BY <2>2, <2>3, <2>4, <2>5, <1>1, Zenon DEF DrainedSafe, ClosedMeansDrained, Op
<1>4. CASE \E s \in Senders : BeginSend(s) \/ SenderStep(s)
  <2>1. PICK s \in Senders : BeginSend(s) \/ Enqueue(s) \/ WakeOne(s)
    BY <1>4, Zenon DEF SenderStep
  <2>2. peerAlive
    BY <2>1, Zenon DEF BeginSend, Enqueue, WakeOne, DrainedSafe
  <2>3. UNCHANGED <<peerAlive, reader>>
    BY <2>1, Zenon DEF BeginSend, Enqueue, WakeOne, channel
  <2> QED BY <2>2, <2>3, Zenon DEF DrainedSafe, ClosedMeansDrained, Op, reader
<1>5. CASE PeerDrop \/ HandleRemoved \/ WakeAll
  <2>1. UNCHANGED <<queue, reader>> /\ (~peerAlive => ~peerAlive')
    BY <1>5 DEF PeerDrop, HandleRemoved, WakeAll, channel
  <2>2. /\ \E p : wpc' = [wpc EXCEPT ![Closer] = p]
        /\ ~peerAlive' /\ peerAlive => \A s \in Senders : wpc[s] = "idle"
    BY <1>5 DEF PeerDrop, HandleRemoved, WakeAll, WGoto, channel
  <2>3. \A s \in Senders : wpc'[s] = wpc[s]
    BY <2>2, <1>1, <1>2, Zenon
  <2> QED BY <2>1, <2>2, <2>3, Zenon DEF DrainedSafe, ClosedMeansDrained, Op, reader
<1>6. CASE \/ \E r \in Readers : DrainWake(r) \/ DeadlinePasses(r)
           \/ \E w \in Wakers, r \in Readers : WakeTask(w, r)
           \/ ReaderDrop \/ NotifyTick \/ UNCHANGED vars
  <2>1. UNCHANGED <<queue, peerAlive, reader, wpc>>
    BY <1>6, Zenon DEF DrainWake, DeadlinePasses, WakeTask, ReaderDrop, NotifyTick, channel, waker, vars
  <2> QED BY <2>1, Zenon DEF DrainedSafe, ClosedMeansDrained, Op, reader
<1> QED BY <1>3, <1>4, <1>5, <1>6, Zenon DEF Next

\* The initial inbox is empty.
LEMMA InitMessage == Init => \A r \in Readers : MessageSafe(r)
  BY Zenon DEF Init, MessageSafe

\* With one reader, wake_one cannot spend its wake on anybody else.
LEMMA MessageStep ==
    SoleReader /\ Ind /\ (\A r \in Readers : MessageSafe(r)) /\ [Next]_vars
        => \A r \in Readers : MessageSafe(r)'
<1> SUFFICES ASSUME SoleReader, Ind, \A q \in Readers : MessageSafe(q), [Next]_vars,
                    NEW r \in Readers
             PROVE  MessageSafe(r)'
  BY Zenon
<1>1. /\ pc \in [Readers -> Points] /\ waiters \in Seq(Readers) /\ NoDuplicates(waiters)
      /\ blocked \in [Readers -> BOOLEAN] /\ wakePending \in [Readers -> BOOLEAN]
      /\ wpc \in [Wakers -> {"idle", "enqueue", "wake_one", "wake_all"}]
      /\ toWake \in [Wakers -> SUBSET Readers]
  BY Zenon DEF Ind, TypeOK
<1>2. /\ Closer \in Wakers /\ Timer \in Wakers /\ Senders \subseteq Wakers
      /\ Closer \notin Senders /\ Timer \notin Senders
  BY ActorsAssumption, Zenon DEF Wakers
<1>3. /\ MessageSafe(r) /\ \A q \in Readers : q = r
      /\ blocked[r] => pc[r] = "parked"
      /\ pc[r] \in Registered => Waiting(r) \/ WakeInFlight(r) \/ wakePending[r]
      /\ blocked[r] => Waiting(r) \/ WakeInFlight(r)
  BY Zenon DEF SoleReader, Ind, ReadersSafe, ReaderSafe, At
<1>4. ASSUME BeginCall(r) \/ ReaderStep(r) \/ Poll(r) \/ Consume(r)
      PROVE  MessageSafe(r)'
  <2>1. UNCHANGED <<wpc, toWake, remoteWake>>
    BY <1>4, Zenon DEF BeginCall, ReaderStep, Precheck, Prepare, Check, PeerCheck, Arm, Park, Resume,
           Unqueue, Cancel, Final, FinalPeer, Poll, Consume, channel, task, waker
  <2>2. Announced(r)' <=> Announced(r)
    BY <2>1, Zenon DEF Announced, WakeInFlight
  <2>3. queue = <<>> => queue' = <<>>
    BY <1>4, Zenon DEF BeginCall, ReaderStep, Precheck, Prepare, Check, PeerCheck, Arm, Park, Resume,
         Unqueue, Cancel, Final, FinalPeer, Poll, Consume, channel, RecvIfFits, RecvAnswer, Peek
  <2>4. CASE Park(r)
    BY <2>2, <2>4, <1>1, <1>3, Zenon DEF Park, Move, Goto, MessageSafe, channel, At
  <2>5. CASE Arm(r) \/ PeerCheck(r)
    <3>1. /\ UNCHANGED <<queue, blocked, wakePending>>
          /\ pc[r] \in {"peer", "arm", "park"} /\ pc'[r] \in {"idle", "arm", "park"}
      BY <2>5, <1>1, Zenon DEF Arm, PeerCheck, Move, Finish, Goto, Sleep, At, channel, task
    <3> QED BY <3>1, <2>2, <1>3, Zenon DEF MessageSafe
  <2>6. CASE Check(r)
    <3>1. /\ UNCHANGED <<blocked, wakePending>> /\ pc[r] = "check"
          /\ pc'[r] \in {"peer", "arm", "park"} => queue' = <<>>
      BY <2>6, <1>1, Zenon DEF Check, RecvIfFits, RecvAnswer, Peek, Move, Finish, Goto, Sleep, At, task
    <3> QED BY <3>1, <1>3, Zenon DEF MessageSafe
  <2>7. CASE \/ BeginCall(r) \/ Precheck(r) \/ Prepare(r) \/ Resume(r) \/ Unqueue(r) \/ Cancel(r)
             \/ Final(r) \/ FinalPeer(r) \/ Poll(r) \/ Consume(r)
    <3>1. UNCHANGED <<blocked, wakePending>>
      BY <2>7, Zenon DEF BeginCall, Precheck, Prepare, Resume, Unqueue, Cancel, Final, FinalPeer, Poll, Consume, task
    <3>2. pc'[r] \notin {"peer", "arm", "park"}
      BY <2>7, <1>1, Zenon DEF BeginCall, Precheck, Prepare, Resume, Unqueue, Cancel, Final, FinalPeer, Poll, Consume,
             RecvIfFits, RecvAnswer, Peek, Move, Finish, Goto, LoopStart, At
    <3>3. queue # <<>> \/ queue' = <<>>
      BY <2>3, Zenon
    <3> QED BY <3>1, <3>2, <3>3, <2>2, <1>3, Zenon DEF MessageSafe
  <2> QED BY <1>4, <2>4, <2>5, <2>6, <2>7, Zenon DEF ReaderStep
<1>5. ASSUME UNCHANGED <<pc, blocked, wakePending>>,
             queue' # <<>> => queue # <<>>,
             Announced(r) => Announced(r)'
      PROVE  MessageSafe(r)'
  BY <1>5, <1>3, Zenon DEF MessageSafe
<1>6. ASSUME ApplyWake(r), UNCHANGED <<pc, queue>>
      PROVE  MessageSafe(r)'
  BY <1>6, <1>1, <1>3, Zenon DEF MessageSafe, ApplyWake
<1>7. ASSUME DrainWake(r) PROVE MessageSafe(r)'
  BY <1>7, <1>6, Zenon DEF DrainWake, channel, reader
<1>8. ASSUME NEW w \in Wakers, WakeTask(w, r) PROVE MessageSafe(r)'
  <2>1. CASE ApplyWake(r)
    BY <1>8, <2>1, <1>6, Zenon DEF WakeTask, channel, reader
  <2>2. CASE remoteWake' = remoteWake \cup {r} /\ UNCHANGED <<blocked, wakePending>>
    BY <1>8, <2>2, <1>5, Zenon DEF WakeTask, channel, reader, Announced, WakeInFlight
  <2> QED BY <1>8, <2>1, <2>2, Zenon DEF WakeTask
<1>9. ASSUME NEW s \in Senders, BeginSend(s) \/ Enqueue(s)
      PROVE  MessageSafe(r)'
  <2>1. UNCHANGED <<pc, blocked, wakePending, remoteWake, toWake>>
    BY <1>9, Zenon DEF BeginSend, Enqueue, reader, task
  <2>2. CASE UNCHANGED queue
    <3>1. \A v \in Senders : wpc[v] = "wake_one" => wpc'[v] = "wake_one"
      BY <1>9, <1>1, <1>2, Zenon DEF BeginSend, Enqueue, WGoto
    <3> QED BY <2>1, <2>2, <3>1, <1>5, Zenon DEF Announced, WakeInFlight
  <2>3. CASE wpc' = [wpc EXCEPT ![s] = "wake_one"]
    <3>1. Announced(r)'
      BY <2>3, <1>1, <1>2, Zenon DEF Announced
    <3> QED BY <3>1, Zenon DEF MessageSafe
  <2> QED BY <1>9, <2>2, <2>3, Zenon DEF BeginSend, Enqueue, WGoto, channel
<1>10. ASSUME NEW s \in Senders, WakeOne(s) PROVE MessageSafe(r)'
  <2>1. UNCHANGED <<pc, blocked, wakePending, remoteWake, queue>>
    BY <1>10, Zenon DEF WakeOne, channel, reader, task
  <2>2. CASE waiters # <<>> /\ toWake' = [toWake EXCEPT ![s] = {Head(waiters)}]
    <3>1. Head(waiters) = r
      BY <2>2, <1>1, <1>3, PoppedQueue, Zenon
    <3>2. Announced(r)'
      BY <2>2, <3>1, <1>1, <1>2, Zenon DEF Announced, WakeInFlight
    <3> QED BY <3>2, Zenon DEF MessageSafe
  <2>3. CASE waiters = <<>> /\ UNCHANGED toWake
    <3>1. ~Waiting(r)
      BY <2>3 DEF Waiting, Range
    <3>2. WakeInFlight(r) => Announced(r)'
      BY <2>1, <2>3, Zenon DEF Announced, WakeInFlight
    <3> QED BY <2>1, <3>1, <3>2, <1>3, Zenon DEF MessageSafe, Registered
  <2> QED BY <1>10, <2>2, <2>3, Zenon DEF WakeOne
<1>11. ASSUME PeerDrop \/ HandleRemoved \/ ReaderDrop \/ DeadlinePasses(r) \/ UNCHANGED vars
       PROVE  MessageSafe(r)'
  <2>1. UNCHANGED <<pc, blocked, wakePending, remoteWake, queue, toWake>>
    BY <1>11, Zenon DEF PeerDrop, HandleRemoved, ReaderDrop, DeadlinePasses, vars, channel, reader, task, waker
  <2>2. \A s \in Senders : wpc'[s] = wpc[s]
    BY <1>11, <1>1, <1>2, Zenon
       DEF PeerDrop, HandleRemoved, ReaderDrop, DeadlinePasses, WGoto, vars, waker
  <2> QED BY <2>1, <2>2, <1>5, Zenon DEF Announced, WakeInFlight
<1>12. ASSUME WakeAll PROVE MessageSafe(r)'
  <2>1. /\ UNCHANGED <<pc, blocked, wakePending, remoteWake, queue>>
        /\ wpc' = [wpc EXCEPT ![Closer] = "idle"]
        /\ toWake' = [toWake EXCEPT ![Closer] = Range(waiters)] /\ wpc[Closer] = "wake_all"
    BY <1>12, Zenon DEF WakeAll, WGoto, channel, reader, task
  <2>2. toWake[Closer] = {}
    BY <2>1, <1>2, Zenon DEF Ind, WakerSafe
  <2> QED BY <2>1, <2>2, <1>1, <1>2, <1>5, Zenon DEF Announced, WakeInFlight
<1>13. ASSUME NotifyTick PROVE MessageSafe(r)'
  <2>1. /\ UNCHANGED <<pc, blocked, wakePending, remoteWake, queue, wpc>>
        /\ toWake[Timer] = {}
        /\ \E late : toWake' = [toWake EXCEPT ![Timer] = late]
    BY <1>13, Zenon DEF NotifyTick, channel, reader, task
  <2> QED BY <2>1, <1>1, <1>2, <1>5, Zenon DEF Announced, WakeInFlight
<1> QED BY <1>3, <1>4, <1>7, <1>8, <1>9, <1>10, <1>11, <1>12, <1>13, Zenon DEF Next, SenderStep

-----------------------------------------------------------------------------
(* What follows from them *)

\* Channel::send, the receive calls and the wakers keep the invariant for ever.
THEOREM ChannelInvariant == Spec => []Ind
  BY InitInd, NextInd, PTL DEF Spec

\* The model never leaves its types; in particular the wait queue never holds a
\* task twice and the inbox never exceeds its capacity.
THEOREM ChannelTypeCorrect == Spec => []TypeOK
<1>1. Ind => TypeOK
  BY Zenon DEF Ind
<1> QED BY ChannelInvariant, <1>1, PTL

\* WaitQueue::prepare before the condition check, and wake_pending in
\* park_current, make every sleeping reader reachable, however many readers,
\* senders, closes and timeouts interleave.
THEOREM SleeperAlwaysReachable == Spec => []SleeperReachable
<1>1. Ind => SleeperReachable
  BY Zenon DEF Ind, ReadersSafe, ReaderSafe, SleeperReachable
<1> QED BY ChannelInvariant, <1>1, PTL

\* Drop for Channel clears peer_alive before wake_all: no reader of a closed
\* channel stays asleep without a wake on its way.
THEOREM CloseWakesSleepers == Spec => []ClosedSleeperWakes
<1>1. Ind => ClosedSleeperWakes
  BY Zenon DEF Ind, ReadersSafe, CloseSafe, ClosedSleeperWakes
<1> QED BY ChannelInvariant, <1>1, PTL

\* ChannelRecvError::PeerClosed means what its doc comment says for every call that
\* tests the peer under the inbox lock: the peer is gone and no message is left,
\* then and from then on.
THEOREM ClosedIsDrained == Spec => []ClosedMeansDrained
<1>1. DrainedSafe => ClosedMeansDrained
  BY Zenon DEF DrainedSafe
<1> QED BY ChannelInvariant, InitDrained, DrainedStep, <1>1, PTL DEF Spec

\* On an endpoint that one task reads, Channel::send never leaves the reader asleep
\* over a message, for any number of senders, messages, closes and timeouts.  The
\* hypothesis is needed: with two readers wake_one can pop one that no longer waits.
THEOREM SoleReaderWakes == SoleReader => (Spec => []MessageWakesSleeper)
<1> SUFFICES ASSUME SoleReader PROVE Spec => []MessageWakesSleeper
  BY Zenon
<1>1. (\A r \in Readers : MessageSafe(r)) => MessageWakesSleeper
  BY Zenon DEF MessageSafe, MessageWakesSleeper, Announced
<1>2. Ind /\ (\A r \in Readers : MessageSafe(r)) /\ [Next]_vars => (\A r \in Readers : MessageSafe(r))'
  BY MessageStep, Zenon
<1> QED BY ChannelInvariant, InitMessage, <1>1, <1>2, PTL DEF Spec

\* What the queues of processes to tear down hold after an append and a pop.
LEMMA QueueFacts ==
    ASSUME NEW S, NEW s \in Seq(S)
    PROVE  /\ \A x \in S : /\ Append(s, x) \in Seq(S)
                           /\ Range(Append(s, x)) = Range(s) \cup {x}
           /\ s # <<>> => /\ Head(s) \in S /\ Tail(s) \in Seq(S)
                          /\ Range(s) = {Head(s)} \cup Range(Tail(s))
           /\ Range(<<>>) = {} /\ <<>> \in Seq(S)
<1>1. ASSUME NEW x \in S
      PROVE  Append(s, x) \in Seq(S) /\ Range(Append(s, x)) = Range(s) \cup {x}
  <2>1. /\ Append(s, x) \in Seq(S) /\ Len(Append(s, x)) = Len(s) + 1 /\ Len(s) \in Nat
        /\ Append(s, x)[Len(s) + 1] = x
        /\ \A i \in 1 .. Len(s) : Append(s, x)[i] = s[i]
    OBVIOUS
  <2>2. 1 .. Len(s) + 1 = (1 .. Len(s)) \cup {Len(s) + 1}
    BY <2>1
  <2>3. Range(s) = {s[i] : i \in 1 .. Len(s)}
    BY DEF Range
  <2>4. Range(Append(s, x)) = {Append(s, x)[i] : i \in 1 .. Len(s) + 1}
    BY <2>1 DEF Range
  <2>5. \A y : y \in Range(Append(s, x)) <=> y \in Range(s) \cup {x}
    <3> TAKE y
    <3>1. ASSUME y \in Range(s) PROVE y \in Range(Append(s, x))
      BY <3>1, <2>1, <2>2, <2>3, <2>4, Zenon
    <3>2. x \in Range(Append(s, x))
      <4>1. Len(s) + 1 \in 1 .. Len(s) + 1
        BY <2>1
      <4> QED BY <4>1, <2>1, <2>4, Zenon
    <3>3. ASSUME y \in Range(Append(s, x)) PROVE y \in Range(s) \cup {x}
      <4>1. PICK i \in 1 .. Len(s) + 1 : y = Append(s, x)[i]
        BY <3>3, <2>4, Zenon
      <4>2. CASE i = Len(s) + 1
        BY <4>1, <4>2, <2>1, Zenon
      <4>3. CASE i \in 1 .. Len(s)
        BY <4>1, <4>3, <2>1, <2>3, Zenon
      <4> QED BY <4>1, <4>2, <4>3, <2>2, Zenon
    <3> QED BY <3>1, <3>2, <3>3, Zenon
  <2>6. Range(Append(s, x)) = Range(s) \cup {x}
    BY <2>5, Zenon
  <2> QED BY <2>1, <2>6, Zenon
<1>2. ASSUME s # <<>>
      PROVE  /\ Head(s) \in S /\ Tail(s) \in Seq(S)
             /\ Range(s) = {Head(s)} \cup Range(Tail(s))
  <2>1. /\ Head(s) \in S /\ Tail(s) \in Seq(S) /\ Len(s) \in Nat /\ Len(s) > 0
        /\ Head(s) = s[1] /\ Len(Tail(s)) = Len(s) - 1
        /\ \A i \in 1 .. Len(s) - 1 : Tail(s)[i] = s[i + 1]
    BY <1>2
  <2>a. Range(s) = {s[i] : i \in 1 .. Len(s)}
    BY DEF Range
  <2>b. Range(Tail(s)) = {Tail(s)[i] : i \in 1 .. Len(Tail(s))}
    BY <2>1, SetOfSequence, Zenon
  <2>2. /\ Range(s) = {s[i] : i \in 1 .. Len(s)}
        /\ Range(Tail(s)) = {Tail(s)[i] : i \in 1 .. Len(s) - 1}
    BY <2>a, <2>b, <2>1, Zenon
  <2>3. \A y : y \in Range(s) <=> y \in {Head(s)} \cup Range(Tail(s))
    <3> TAKE y
    <3>1. ASSUME y \in Range(s) PROVE y \in {Head(s)} \cup Range(Tail(s))
      <4>1. PICK i \in 1 .. Len(s) : y = s[i]
        BY <3>1, <2>2, Zenon
      <4>2. CASE i = 1
        BY <4>1, <4>2, <2>1, Zenon
      <4>3. CASE i # 1
        <5>1. i - 1 \in 1 .. Len(s) - 1 /\ Tail(s)[i - 1] = y
          BY <4>1, <4>3, <2>1
        <5> QED BY <5>1, <2>2, Zenon
      <4> QED BY <4>2, <4>3, Zenon
    <3>2. ASSUME y \in Range(Tail(s)) PROVE y \in Range(s)
      <4>1. PICK i \in 1 .. Len(s) - 1 : y = Tail(s)[i]
        BY <3>2, <2>2, Zenon
      <4>2. i + 1 \in 1 .. Len(s) /\ s[i + 1] = y
        BY <4>1, <2>1
      <4> QED BY <4>2, <2>2, Zenon
    <3>3. Head(s) \in Range(s)
      <4>1. 1 \in 1 .. Len(s)
        BY <2>1
      <4> QED BY <4>1, <2>1, <2>2, Zenon
    <3> QED BY <3>1, <3>2, <3>3, Zenon
  <2>4. Range(s) = {Head(s)} \cup Range(Tail(s))
    BY <2>3, Zenon
  <2> QED BY <2>1, <2>4, Zenon
<1>3. Range(<<>>) = {} /\ <<>> \in Seq(S)
  BY DEF Range
<1> QED BY <1>1, <1>2, <1>3, Zenon

-----------------------------------------------------------------------------
(* KernelEvents *)

\* Only one task waits on the port: wake_one serves the oldest waiter only.
WatchesPort(w) == \E c \in WaitCalls[w] : "port" \in Range(c.watch)
OnePortWaiter == \A v, w \in Waiters : WatchesPort(v) /\ WatchesPort(w) => v = w

EventsType ==
    /\ waitQueue \in [Sources -> Seq(Waiters)]
    /\ \A w \in Range(waitQueue["port"]) : WatchesPort(w)
    /\ owed \in [Sources -> Nat] /\ waking \in [Waiters -> Nat]
    /\ asleep \in [Waiters -> BOOLEAN] /\ wakeFlag \in [Waiters -> BOOLEAN]
    /\ wpoint = [w \in Waiters |-> wpoint[w]] /\ wcall = [w \in Waiters |-> wcall[w]]
    /\ visited = [w \in Waiters |-> visited[w]] /\ seen = [w \in Waiters |-> seen[w]]

\* A wake of w on its way, or remembered for its next park.
WakeComing(w) == waking[w] > 0 \/ wakeFlag[w]
Stands(w, o) == w \in Range(waitQueue[o]) \/ WakeComing(w)
\* If o is ready, w is told: the object owes its queue a wake and w is in it, or
\* a wake of w is already under way.
Told(w, o) ==
    Ready(o) => \/ WakeComing(w)
                \/ owed[o] > 0 /\ w \in Range(waitQueue[o])
                \/ o = "process" /\ exitPoint \in {"snapshot", "packets"}

\* The call has rechecked its objects and goes to sleep or sleeps.
Settled(w) == wpoint[w] \in {"park", "sleep"} \/ (wpoint[w] = "parked" /\ asleep[w])
Waits(w) == wpoint[w] = "recheck" \/ Settled(w)
Places(w) == 1 .. Len(Watched(w))

WaiterInv(w) ==
    /\ wpoint[w] # "idle" =>
           wcall[w] \in WaitCalls[w] /\ visited[w] \in Nat /\ visited[w] < Len(Watched(w))
    /\ asleep[w] => wpoint[w] = "parked" /\ ~wakeFlag[w]
    /\ Waits(w) => \A i \in Places(w) : Stands(w, Watched(w)[i])
    /\ wpoint[w] = "enqueue" => \A i \in 1 .. visited[w] : Stands(w, Watched(w)[i])
    /\ wpoint[w] = "recheck" =>
           \A i \in 1 .. visited[w] : Watched(w)[i] \notin seen[w] => Told(w, Watched(w)[i])
    /\ Settled(w) => IF wcall[w].all THEN \E i \in Places(w) : Told(w, Watched(w)[i])
                     ELSE \A i \in Places(w) : Told(w, Watched(w)[i])

EventsInv == EventsType /\ \A w \in Waiters : WaiterInv(w)

\* Taking a task out of a queue leaves every other task in it.
LEMMA UnqueuedQueue ==
    ASSUME NEW S, NEW q \in Seq(S), NEW x \in S
    PROVE  /\ Unqueued(q, x) \in Seq(S)
           /\ Range(Unqueued(q, x)) \subseteq Range(q)
           /\ \A y \in Range(q) : y # x => y \in Range(Unqueued(q, x))
<1>0. Range(q) = {q[i] : i \in 1 .. Len(q)}
  BY SetOfSequence, Zenon
<1>1. CASE x \notin Range(q)
  <2>1. Unqueued(q, x) = q
    BY <1>1, Zenon DEF Unqueued
  <2> QED BY <2>1, Zenon
<1>2. CASE x \in Range(q)
  <2> DEFINE i == CHOOSE i \in 1 .. Len(q) : q[i] = x
             n == Len(q) - 1
             p == [j \in 1 .. n |-> q[IF j < i THEN j ELSE j + 1]]
  <2>1. i \in 1 .. Len(q) /\ q[i] = x
    BY <1>0, <1>2, Zenon
  <2>2. Unqueued(q, x) = p
    BY <1>2, Zenon DEF Unqueued
  <2> HIDE DEF i
  <2>3. n \in Nat /\ Len(q) = n + 1
    BY <2>1
  <2>4. \A j \in 1 .. n : (IF j < i THEN j ELSE j + 1) \in 1 .. Len(q)
    BY <2>1, <2>3
  <2>5. p \in Seq(S)
    <3>1. p \in [1 .. n -> S]
      BY <2>4
    <3> QED BY <3>1, <2>3
  <2>6. Len(p) = n /\ \A j \in 1 .. n : p[j] = q[IF j < i THEN j ELSE j + 1]
    BY <2>3, <2>5
  <2> HIDE DEF p
  <2>7. Range(p) = {p[j] : j \in 1 .. n}
    <3>1. Range(p) = {p[j] : j \in 1 .. Len(p)}
      BY <2>5, SetOfSequence, Zenon
    <3> QED BY <3>1, <2>6, Zenon
  <2> HIDE DEF n
  <2>8. Range(p) \subseteq Range(q)
    <3> SUFFICES ASSUME NEW y \in Range(p) PROVE y \in Range(q)
      BY Zenon
    <3>1. PICK j \in 1 .. n : y = p[j]
      BY <2>7, Zenon
    <3>2. PICK k \in 1 .. Len(q) : y = q[k]
      BY <3>1, <2>4, <2>6, Zenon
    <3> QED BY <3>2, <1>0, Zenon
  <2>9. ASSUME NEW y \in Range(q), y # x
        PROVE  y \in Range(p)
    <3>1. PICK k \in 1 .. Len(q) : q[k] = y
      BY <1>0, Zenon
    <3>2. k # i
      BY <3>1, <2>1, <2>9, Zenon
    <3>3. CASE k < i
      <4>1. k \in 1 .. n /\ p[k] = y
        BY <3>1, <3>3, <2>1, <2>3, <2>6
      <4> QED BY <4>1, <2>7, Zenon
    <3>4. CASE k > i
      <4>1. k - 1 \in 1 .. n /\ ~(k - 1 < i) /\ (k - 1) + 1 = k
        BY <3>4, <2>1, <2>3
      <4>2. p[k - 1] = y
        BY <4>1, <3>1, <2>6, Zenon
      <4> QED BY <4>1, <4>2, <2>7, Zenon
    <3> QED BY <3>1, <3>2, <3>3, <3>4, <2>1
  <2> QED BY <2>2, <2>5, <2>8, <2>9, Zenon
<1> QED BY <1>1, <1>2, Zenon

\* The invariant holds before anybody waits.
LEMMA EventsInitInv ==
    EventsInit => EventsInv
<1> SUFFICES ASSUME EventsInit PROVE EventsInv
  BY Zenon
<1>1. Range(waitQueue["port"]) = {} /\ waitQueue \in [Sources -> Seq(Waiters)]
  <2>1. Range(<<>>) = {}
    BY DEF Range
  <2> QED BY <2>1 DEF EventsInit, Sources
<1>2. EventsType
  BY <1>1, Zenon DEF EventsInit, EventsType
<1>3. ASSUME NEW w \in Waiters PROVE WaiterInv(w)
  BY Zenon DEF EventsInit, WaiterInv, Waits, Settled
<1> QED BY <1>2, <1>3, Zenon DEF EventsInv

\* The positions of a sequence that a call goes through one by one.
LEMMA Counting ==
    ASSUME NEW n \in Nat, NEW m \in Nat, n < m
    PROVE  /\ 1 .. n \subseteq 1 .. m /\ n + 1 \in 1 .. m /\ 0 < m /\ 1 .. 0 = {} /\ 1 \in 1 .. m /\ n + 1 \in Nat
           /\ n + 1 # m => n + 1 < m
           /\ \A i \in 1 .. n + 1 : i \in 1 .. m /\ (i # n + 1 => i \in 1 .. n)
OBVIOUS

\* What a sequence of objects holds.
LEMMA Elements ==
    ASSUME NEW S, NEW s \in Seq(S)
    PROVE  /\ Len(s) \in Nat /\ (s # <<>> => 0 < Len(s))
           /\ \A i \in 1 .. Len(s) : s[i] \in S
OBVIOUS

\* A call watches at least one object.
LEMMA WatchedFacts ==
    ASSUME NEW w \in Waiters
    PROVE  /\ 0 \in Nat
           /\ wcall[w] \in WaitCalls[w] =>
                  /\ Watched(w) \in Seq(Sources) /\ Len(Watched(w)) \in Nat /\ 0 < Len(Watched(w))
                  /\ \A i \in Places(w) : Watched(w)[i] \in Sources
           /\ wcall'[w] \in WaitCalls[w] => Len(Watched(w)') \in Nat /\ 0 < Len(Watched(w)')
<1>1. wcall[w] \in WaitCalls[w] => Watched(w) \in Seq(Sources) /\ Watched(w) # <<>>
  BY EventsAssumption, Zenon DEF Watched
<1>2. wcall'[w] \in WaitCalls[w] => Watched(w)' \in Seq(Sources) /\ Watched(w)' # <<>>
  BY EventsAssumption, Zenon DEF Watched
<1>3. 0 \in Nat
  OBVIOUS
<1> QED BY <1>1, <1>2, <1>3, Elements, Zenon DEF Places

\* What the objects and the other tasks do keeps the invariant of a waiter as long
\* as it stays queued, or woken, and keeps being told.
LEMMA WaiterKept ==
    ASSUME NEW w \in Waiters, WaiterInv(w),
           wpoint'[w] = wpoint[w], wcall'[w] = wcall[w], visited'[w] = visited[w],
           seen'[w] = seen[w], asleep'[w] => asleep[w] /\ ~wakeFlag'[w],
           \A o \in Sources :
               Waits(w)' \/ wpoint[w] = "enqueue" =>
                   /\ Stands(w, o) => Stands(w, o)'
                   /\ Stands(w, o) /\ Told(w, o) => Told(w, o)'
    PROVE  WaiterInv(w)'
<1>1. Watched(w)' = Watched(w) /\ Places(w)' = Places(w)
  BY Zenon DEF Watched, Places
<1>2. (Waits(w)' => Waits(w)) /\ (Settled(w)' => Settled(w))
  BY Zenon DEF Waits, Settled
<1>3. wpoint[w] # "idle" => \A i \in Places(w) : Watched(w)[i] \in Sources
  BY WatchedFacts, Zenon DEF WaiterInv
<1>4. Waits(w)' => \A i \in Places(w) : Stands(w, Watched(w)[i])'
  <2>1. Waits(w) => wpoint[w] # "idle"
    BY Zenon DEF Waits, Settled
  <2> QED BY <2>1, <1>1, <1>2, <1>3, Zenon DEF WaiterInv
<1>5. wpoint[w] = "enqueue" \/ wpoint[w] = "recheck" => 1 .. visited[w] \subseteq Places(w)
  <2>1. ASSUME wpoint[w] # "idle" PROVE 1 .. visited[w] \subseteq Places(w)
    BY <2>1, WatchedFacts, Counting, Zenon DEF WaiterInv, Places
  <2> QED BY <2>1, Zenon
<1>6. wpoint[w] = "enqueue" => \A i \in 1 .. visited[w] : Stands(w, Watched(w)[i])'
  BY <1>1, <1>3, <1>5, Zenon DEF WaiterInv
<1>7. wpoint[w] = "recheck" =>
         \A i \in 1 .. visited[w] : Watched(w)[i] \notin seen[w] => Told(w, Watched(w)[i])'
  <2>1. wpoint[w] = "recheck" => Waits(w) /\ Waits(w)'
    BY Zenon DEF Waits
  <2> QED BY <2>1, <1>1, <1>3, <1>5, Zenon DEF WaiterInv
<1>8. Settled(w)' => IF wcall[w].all THEN \E i \in Places(w) : Told(w, Watched(w)[i])'
                     ELSE \A i \in Places(w) : Told(w, Watched(w)[i])'
  <2>1. Settled(w)' => Waits(w) /\ Waits(w)' /\ Settled(w) /\ wpoint[w] # "idle"
    BY <1>2, Zenon DEF Waits, Settled
  <2> QED BY <2>1, <1>1, <1>3, Zenon DEF WaiterInv
<1> QED BY <1>1, <1>4, <1>6, <1>7, <1>8, Zenon DEF WaiterInv
\* The objects: whatever becomes ready leaves a wake owed to its queue, or is the
\* exit of a process whose packets are still being queued.
LEMMA ObjectStep ==
    ASSUME EventsInv,
           UNCHANGED <<waitQueue, waking, asleep, wakeFlag, wpoint, wcall, visited, seen>>,
           owed' \in [Sources -> Nat], \A o \in Sources : owed'[o] >= owed[o],
           \A o \in Sources :
               Ready(o)' => \/ Ready(o) \/ owed'[o] > 0
                            \/ o = "process" /\ exitPoint' \in {"snapshot", "packets"},
           exitPoint \in {"snapshot", "packets"} =>
               exitPoint' \in {"snapshot", "packets"} \/ owed'["process"] > 0
    PROVE  EventsInv'
<1>1. EventsType'
  BY Zenon DEF EventsInv, EventsType
<1>2. ASSUME NEW w \in Waiters PROVE WaiterInv(w)'
  <2>1. WaiterInv(w) /\ (asleep[w] => ~wakeFlag[w])
    BY Zenon DEF EventsInv, WaiterInv
  <2>2. ASSUME NEW o \in Sources
        PROVE  /\ Stands(w, o) => Stands(w, o)'
               /\ Stands(w, o) /\ Told(w, o) => Told(w, o)'
    <3>1. owed[o] \in Nat /\ owed'[o] \in Nat
      BY Zenon DEF EventsInv, EventsType
    <3> QED BY <3>1 DEF Stands, Told, WakeComing
  <2> QED BY <2>1, <2>2, WaiterKept, Zenon
<1> QED BY <1>1, <1>2, Zenon DEF EventsInv

\* Queueing a packet, setting or clearing a signal and publishing an exit wake
\* or remember to wake whom they should.
LEMMA ObjectActions ==
    ASSUME EventsInv,
           \/ PortQueue \/ SignalSet \/ SignalClear
           \/ SetExitCode \/ SnapshotExitPorts \/ QueueExitPacket
           \/ \E k \in ExitKeys : BindExitPort(k) \/ InsertExitPort(k)
    PROVE  EventsInv'
<1>0. owed \in [Sources -> Nat] /\ "port" \in Sources /\ "signal" \in Sources /\ "process" \in Sources
  BY Zenon DEF EventsInv, EventsType, Sources
<1>1. ASSUME NEW k, PortPush(k)
      PROVE  /\ owed' \in [Sources -> Nat] /\ \A o \in Sources : owed'[o] >= owed[o]
             /\ owed'["port"] > 0 \/ packets' = packets
  BY <1>0, <1>1 DEF PortPush
<1>2. CASE PortQueue
  <2>1. PortPush("user") /\ UNCHANGED <<signaled, procState, exitPoint>>
        /\ UNCHANGED <<waitQueue, waking, asleep, wakeFlag, wpoint, wcall, visited, seen>>
    BY <1>2, Zenon DEF PortQueue, evCall, evExit
  <2>2. /\ owed' \in [Sources -> Nat] /\ \A o \in Sources : owed'[o] >= owed[o]
        /\ owed'["port"] > 0 \/ packets' = packets
    BY <2>1, <1>1, Zenon
  <2>3. \A o \in Sources : Ready(o)' => Ready(o) \/ owed'[o] > 0
    BY <2>1, <2>2, Zenon DEF Ready, Sources, Exited
  <2> QED BY <2>1, <2>2, <2>3, ObjectStep, Zenon
<1>3. CASE SignalSet \/ SignalClear
  <2>1. /\ UNCHANGED <<packets, procState, exitPoint>>
        /\ UNCHANGED <<waitQueue, waking, asleep, wakeFlag, wpoint, wcall, visited, seen>>
    BY <1>3, Zenon DEF SignalSet, SignalClear, evCall, evExit, evWakes
  <2>2. /\ owed' \in [Sources -> Nat] /\ \A o \in Sources : owed'[o] >= owed[o]
        /\ owed'["signal"] > 0 \/ signaled' = FALSE
    BY <1>0, <1>3 DEF SignalSet, SignalClear, evWakes
  <2>3. \A o \in Sources : Ready(o)' => Ready(o) \/ owed'[o] > 0
    BY <2>1, <2>2, Zenon DEF Ready, Sources, Exited
  <2> QED BY <2>1, <2>2, <2>3, ObjectStep, Zenon
<1>4. CASE SetExitCode \/ SnapshotExitPorts
  <2>1. /\ UNCHANGED <<packets, signaled, owed>>
        /\ UNCHANGED <<waitQueue, waking, asleep, wakeFlag, wpoint, wcall, visited, seen>>
        /\ exitPoint' \in {"snapshot", "packets"}
    BY <1>4, Zenon DEF SetExitCode, SnapshotExitPorts, evCall, evWakes, evObjects
  <2>2. owed' \in [Sources -> Nat] /\ \A o \in Sources : owed'[o] >= owed[o]
    BY <1>0, <2>1
  <2>3. \A o \in Sources : Ready(o)' => Ready(o) \/ o = "process"
    BY <2>1, Zenon DEF Ready, Sources
  <2> QED BY <2>1, <2>2, <2>3, ObjectStep, Zenon
<1>5. CASE QueueExitPacket
  <2>1. /\ UNCHANGED <<signaled, procState>>
        /\ UNCHANGED <<waitQueue, waking, asleep, wakeFlag, wpoint, wcall, visited, seen>>
        /\ exitPoint = "packets"
        /\ \/ PortPush(Head(exitTodo)) /\ UNCHANGED exitPoint
           \/ owed' = [owed EXCEPT !["process"] = @ + 1] /\ UNCHANGED packets
    BY <1>5, Zenon DEF QueueExitPacket, evCall
  <2>2. /\ owed' \in [Sources -> Nat] /\ \A o \in Sources : owed'[o] >= owed[o]
        /\ owed'["port"] > 0 \/ packets' = packets
        /\ exitPoint' = "packets" \/ owed'["process"] > 0
    <3>1. CASE PortPush(Head(exitTodo)) /\ UNCHANGED exitPoint
      BY <3>1, <1>1, <2>1, Zenon
    <3>2. CASE owed' = [owed EXCEPT !["process"] = @ + 1] /\ UNCHANGED packets
      BY <3>2, <1>0
    <3> QED BY <3>1, <3>2, <2>1, Zenon
  <2>3. \A o \in Sources : Ready(o)' => Ready(o) \/ owed'[o] > 0
    BY <2>1, <2>2, Zenon DEF Ready, Sources, Exited
  <2> QED BY <2>1, <2>2, <2>3, ObjectStep, Zenon
<1>6. ASSUME NEW k \in ExitKeys, BindExitPort(k) \/ InsertExitPort(k) PROVE EventsInv'
  <2>1. /\ UNCHANGED <<signaled, procState, exitPoint>>
        /\ UNCHANGED <<waitQueue, waking, asleep, wakeFlag, wpoint, wcall, visited, seen>>
        /\ PortPush(k) \/ UNCHANGED <<owed, packets>>
    BY <1>6, Zenon DEF BindExitPort, InsertExitPort, evCall, evWakes
  <2>2. /\ owed' \in [Sources -> Nat] /\ \A o \in Sources : owed'[o] >= owed[o]
        /\ owed'["port"] > 0 \/ packets' = packets
    <3>1. CASE PortPush(k)
      BY <3>1, <1>1, Zenon
    <3>2. CASE UNCHANGED <<owed, packets>>
      BY <3>2, <1>0
    <3> QED BY <3>1, <3>2, <2>1, Zenon
  <2>3. \A o \in Sources : Ready(o)' => Ready(o) \/ owed'[o] > 0
    BY <2>1, <2>2, Zenon DEF Ready, Sources, Exited
  <2> QED BY <2>1, <2>2, <2>3, ObjectStep, Zenon
<1> QED BY <1>2, <1>3, <1>4, <1>5, <1>6, Zenon

\* wake_one and wake_all: whoever leaves the queue has a wake on its way, and an
\* object's only waiter is the one its wake finds.
LEMMA TakeWaitersStep ==
    ASSUME EventsInv, OnePortWaiter, NEW o \in Sources, TakeWaiters(o)
    PROVE  EventsInv'
<1>1. /\ UNCHANGED <<packets, signaled, procState, asleep, wakeFlag, wpoint, wcall, visited, seen, exitPoint>>
      /\ owed[o] > 0 /\ owed' = [owed EXCEPT ![o] = @ - 1]
      /\ waking' = [w \in Waiters |-> waking[w] + IF w \in TakenOut(o) THEN 1 ELSE 0]
      /\ waitQueue' = [waitQueue EXCEPT ![o] = LeftIn(o)]
  BY Zenon DEF TakeWaiters, evObjects, evCall, evExit
<1>2. /\ waitQueue \in [Sources -> Seq(Waiters)] /\ owed \in [Sources -> Nat] /\ waking \in [Waiters -> Nat]
      /\ \A w \in Range(waitQueue["port"]) : WatchesPort(w)
  BY Zenon DEF EventsInv, EventsType
<1>3. /\ LeftIn(o) \in Seq(Waiters) /\ Range(LeftIn(o)) \subseteq Range(waitQueue[o])
      /\ \A y \in Range(waitQueue[o]) : y \in TakenOut(o) \/ y \in Range(LeftIn(o))
      /\ o # "port" => TakenOut(o) = Range(waitQueue[o])
      /\ o = "port" /\ Range(waitQueue[o]) # {} => Head(waitQueue[o]) \in Range(waitQueue[o])
                                                   /\ Head(waitQueue[o]) \in TakenOut(o)
  <2>1. waitQueue[o] \in Seq(Waiters) /\ Range(<<>>) = {} /\ <<>> \in Seq(Waiters)
    BY <1>2, QueueFacts, Zenon
  <2>2. CASE o = "port" /\ waitQueue[o] # <<>>
    <3>1. LeftIn(o) = Tail(waitQueue[o]) /\ TakenOut(o) = {Head(waitQueue[o])}
      BY <2>2, Zenon DEF LeftIn, TakenOut
    <3>2. /\ Tail(waitQueue[o]) \in Seq(Waiters)
          /\ Range(waitQueue[o]) = {Head(waitQueue[o])} \cup Range(Tail(waitQueue[o]))
      BY <2>1, <2>2, QueueFacts, Zenon
    <3> QED BY <3>1, <3>2, <2>2, Zenon
  <2>3. CASE o = "port" /\ waitQueue[o] = <<>>
    <3>1. LeftIn(o) = <<>> /\ TakenOut(o) = {}
      BY <2>3, Zenon DEF LeftIn, TakenOut
    <3> QED BY <3>1, <2>1, <2>3, Zenon
  <2>4. CASE o # "port"
    <3>1. LeftIn(o) = <<>> /\ TakenOut(o) = Range(waitQueue[o])
      BY <2>4, Zenon DEF LeftIn, TakenOut
    <3> QED BY <3>1, <2>1, <2>4, Zenon
  <2> QED BY <2>2, <2>3, <2>4, Zenon
<1>4. /\ waitQueue' \in [Sources -> Seq(Waiters)] /\ owed' \in [Sources -> Nat] /\ waking' \in [Waiters -> Nat]
      /\ \A w \in Waiters : waking'[w] >= waking[w] /\ (w \in TakenOut(o) => waking'[w] > 0)
      /\ \A p \in Sources : p # o => waitQueue'[p] = waitQueue[p] /\ owed'[p] = owed[p]
      /\ waitQueue'[o] = LeftIn(o)
  BY <1>1, <1>2, <1>3
<1>5. EventsType'
  <2>1. \A w \in Range(waitQueue'["port"]) : w \in Range(waitQueue["port"])
    BY <1>3, <1>4, Zenon DEF Sources
  <2> QED BY <2>1, <1>1, <1>2, <1>4, Zenon DEF EventsInv, EventsType
<1>6. ASSUME NEW w \in Waiters PROVE WaiterInv(w)'
  <2>1. WaiterInv(w) /\ (asleep[w] => ~wakeFlag[w])
    BY Zenon DEF EventsInv, WaiterInv
  <2>2. ASSUME NEW p \in Sources
        PROVE  /\ Stands(w, p) => Stands(w, p)'
               /\ Stands(w, p) /\ Told(w, p) => Told(w, p)'
    <3>0. WakeComing(w) => WakeComing(w)'
      BY <1>1, <1>2, <1>4 DEF WakeComing
    <3>1. CASE p # o
      BY <3>0, <3>1, <1>1, <1>4, Zenon DEF Stands, Told, Ready, Exited
    <3>2. CASE p = o
      <4>1. w \in Range(waitQueue[o]) => w \in TakenOut(o)
        <5>1. CASE o = "port" /\ w \in Range(waitQueue[o])
          <6>1. Head(waitQueue[o]) \in Range(waitQueue["port"]) /\ Head(waitQueue[o]) \in TakenOut(o)
            BY <5>1, <1>3, Zenon
          <6>2. Head(waitQueue[o]) \in Waiters
            BY <5>1, <1>2, QueueFacts, Zenon
          <6> QED BY <6>1, <6>2, <5>1, <1>2, Zenon DEF OnePortWaiter
        <5> QED BY <5>1, <1>3, Zenon
      <4>2. Stands(w, o) => WakeComing(w)'
        BY <4>1, <3>0, <1>4, Zenon DEF Stands, WakeComing
      <4> QED BY <3>2, <4>2, Zenon DEF Stands, Told
    <3> QED BY <3>1, <3>2, Zenon
  <2> QED BY <2>1, <2>2, <1>1, WaiterKept, Zenon
<1> QED BY <1>5, <1>6, Zenon DEF EventsInv

\* wake_task and the timer: a wake that is made ends a sleep or is remembered.
LEMMA WakeStep ==
    ASSUME EventsInv, EventTick \/ \E w \in Waiters : WakeWaiter(w)
    PROVE  EventsInv'
<1>1. /\ UNCHANGED <<packets, signaled, procState, waitQueue, owed, wpoint, wcall, visited, seen, exitPoint>>
  BY Zenon DEF EventTick, WakeWaiter, evObjects, evCall, evExit
<1>2. /\ waking \in [Waiters -> Nat] /\ asleep \in [Waiters -> BOOLEAN] /\ wakeFlag \in [Waiters -> BOOLEAN]
  BY Zenon DEF EventsInv, EventsType
<1>3. /\ waking' \in [Waiters -> Nat] /\ asleep' \in [Waiters -> BOOLEAN] /\ wakeFlag' \in [Waiters -> BOOLEAN]
      /\ \A w \in Waiters : /\ asleep'[w] => asleep[w] /\ wakeFlag'[w] = wakeFlag[w]
                            /\ WakeComing(w) => WakeComing(w)' \/ (asleep[w] /\ ~asleep'[w])
  <2>1. CASE EventTick
    BY <2>1, <1>2 DEF EventTick, WakeComing
  <2>2. ASSUME NEW v \in Waiters, WakeWaiter(v)
        PROVE  /\ waking' \in [Waiters -> Nat]
               /\ asleep' \in [Waiters -> BOOLEAN] /\ wakeFlag' \in [Waiters -> BOOLEAN]
               /\ \A w \in Waiters : /\ asleep'[w] => asleep[w] /\ wakeFlag'[w] = wakeFlag[w]
                                     /\ WakeComing(w) => WakeComing(w)' \/ (asleep[w] /\ ~asleep'[w])
    <3>1. /\ waking[v] > 0 /\ waking' = [waking EXCEPT ![v] = @ - 1]
          /\ asleep' = [asleep EXCEPT ![v] = FALSE]
          /\ wakeFlag' = [wakeFlag EXCEPT ![v] = ~asleep[v]]
      BY <2>2, Zenon DEF WakeWaiter
    <3>2. /\ waking' \in [Waiters -> Nat]
          /\ asleep' \in [Waiters -> BOOLEAN] /\ wakeFlag' \in [Waiters -> BOOLEAN]
      BY <3>1, <1>2
    <3>3. ASSUME NEW w \in Waiters
          PROVE  /\ asleep'[w] => asleep[w] /\ wakeFlag'[w] = wakeFlag[w]
                 /\ WakeComing(w) => WakeComing(w)' \/ (asleep[w] /\ ~asleep'[w])
      <4>1. CASE w = v
        <5>1. asleep'[w] = FALSE /\ wakeFlag'[w] = ~asleep[w]
          BY <4>1, <3>1, <1>2, Zenon
        <5> QED BY <5>1, Zenon DEF WakeComing
      <4>2. CASE w # v
        <5>1. asleep'[w] = asleep[w] /\ wakeFlag'[w] = wakeFlag[w] /\ waking'[w] = waking[w]
          BY <4>2, <3>1, <1>2, Zenon
        <5> QED BY <5>1, Zenon DEF WakeComing
      <4> QED BY <4>1, <4>2, Zenon
    <3> QED BY <3>2, <3>3, Zenon
  <2> QED BY <2>1, <2>2, Zenon
<1>4. EventsType'
  BY <1>1, <1>3, Zenon DEF EventsInv, EventsType
<1>5. ASSUME NEW w \in Waiters PROVE WaiterInv(w)'
  <2>1. WaiterInv(w) /\ (asleep[w] => wpoint[w] = "parked" /\ ~wakeFlag[w])
    BY Zenon DEF EventsInv, WaiterInv
  <2>2. ASSUME NEW p \in Sources, Waits(w)' \/ wpoint[w] = "enqueue"
        PROVE  /\ Stands(w, p) => Stands(w, p)'
               /\ Stands(w, p) /\ Told(w, p) => Told(w, p)'
    <3>1. WakeComing(w) => WakeComing(w)'
      BY <2>1, <2>2, <1>1, <1>3, Zenon DEF Waits, Settled
    <3> QED BY <3>1, <1>1, Zenon DEF Stands, Told, Ready, Exited
  <2> QED BY <2>1, <2>2, <1>1, <1>3, WaiterKept, Zenon
<1> QED BY <1>4, <1>5, Zenon DEF EventsInv
\* A step of one call leaves the calls of the other tasks alone.
CallsApart(w) ==
    /\ \A v \in Waiters \ {w} : /\ wpoint'[v] = wpoint[v] /\ wcall'[v] = wcall[v]
                                /\ visited'[v] = visited[v] /\ seen'[v] = seen[v]
    /\ wpoint' = [v \in Waiters |-> wpoint'[v]] /\ wcall' = [v \in Waiters |-> wcall'[v]]
    /\ visited' = [v \in Waiters |-> visited'[v]] /\ seen' = [v \in Waiters |-> seen'[v]]

\* What a step of the call of w has to establish.
LEMMA CallStep ==
    ASSUME EventsInv, NEW w \in Waiters, CallsApart(w), WaiterInv(w)',
           UNCHANGED <<owed, waking, exitPoint>>,
           asleep' \in [Waiters -> BOOLEAN], wakeFlag' \in [Waiters -> BOOLEAN],
           \A v \in Waiters \ {w} : asleep'[v] = asleep[v] /\ wakeFlag'[v] = wakeFlag[v],
           waitQueue' \in [Sources -> Seq(Waiters)],
           \A o \in Sources : \A v \in Waiters \ {w} :
               v \in Range(waitQueue[o]) => v \in Range(waitQueue'[o]),
           \A v \in Range(waitQueue'["port"]) : v \in Range(waitQueue["port"]) \/ WatchesPort(v),
           \A o \in Sources : Ready(o)' => Ready(o)
    PROVE  EventsInv'
<1>1. EventsType'
  BY Zenon DEF EventsInv, EventsType, CallsApart
<1>2. ASSUME NEW v \in Waiters, v # w PROVE WaiterInv(v)'
  <2>1. WaiterInv(v) /\ (asleep[v] => ~wakeFlag[v])
    BY Zenon DEF EventsInv, WaiterInv
  <2>2. ASSUME NEW o \in Sources
        PROVE  /\ Stands(v, o) => Stands(v, o)'
               /\ Stands(v, o) /\ Told(v, o) => Told(v, o)'
    <3>1. WakeComing(v) = WakeComing(v)'
      BY <1>2, Zenon DEF WakeComing
    <3>2. v \in Range(waitQueue[o]) => v \in Range(waitQueue'[o])
      BY <1>2, Zenon
    <3> QED BY <3>1, <3>2, Zenon DEF Stands, Told
  <2>3. /\ wpoint'[v] = wpoint[v] /\ wcall'[v] = wcall[v] /\ visited'[v] = visited[v] /\ seen'[v] = seen[v]
        /\ asleep'[v] = asleep[v] /\ wakeFlag'[v] = wakeFlag[v]
    BY <1>2, Zenon DEF CallsApart
  <2> QED BY <2>1, <2>2, <2>3, WaiterKept, Zenon
<1>3. \A v \in Waiters : WaiterInv(v)'
  BY <1>2, Zenon
<1> QED BY <1>1, <1>3, Zenon DEF EventsInv

\* A call that moves to its next phase moves alone.
LEMMA MoveFacts ==
    ASSUME EventsInv, NEW w \in Waiters, NEW p, NEW r, EvFinish(w, p, r)
    PROVE  /\ CallsApart(w)
           /\ wpoint'[w] = p /\ visited'[w] = 0 /\ seen'[w] = {}
           /\ p # "idle" => wcall'[w] = wcall[w]
BY Zenon DEF EventsInv, EventsType, EvFinish, EvGoto, CallsApart

\* A call that moves on within its wait.
LEMMA MovesOn ==
    ASSUME EventsInv, NEW w \in Waiters, NEW p, NEW r, EvFinish(w, p, r), p # "idle"
    PROVE  /\ CallsApart(w)
           /\ wpoint'[w] = p /\ visited'[w] = 0 /\ wcall'[w] = wcall[w]
BY MoveFacts, Zenon

\* Where a call neither stands in queues nor goes to sleep.
LEMMA AtRest ==
    ASSUME NEW w \in Waiters, ~asleep'[w],
           wpoint'[w] \in {"poll", "release", "release_final", "final", "leave", "idle"},
           wpoint'[w] # "idle" => /\ wcall'[w] \in WaitCalls[w] /\ visited'[w] \in Nat
                                  /\ visited'[w] < Len(Watched(w)')
    PROVE  WaiterInv(w)'
BY Zenon DEF WaiterInv, Waits, Settled

\* A call that is about to queue itself owes nothing yet.
LEMMA StartsQueueing ==
    ASSUME NEW w \in Waiters, ~asleep'[w], wpoint'[w] = "enqueue",
           wcall'[w] \in WaitCalls[w], visited'[w] = 0
    PROVE  WaiterInv(w)'
<1>1. 0 < Len(Watched(w)') /\ 0 \in Nat /\ 1 .. 0 = {}
  BY WatchedFacts, Counting, Zenon
<1> QED BY <1>1, Zenon DEF WaiterInv, Waits, Settled

\* What is known of a call in progress: the objects it watches and how far it
\* has come.
LEMMA CallFacts ==
    ASSUME EventsInv, NEW w \in Waiters, wpoint[w] # "idle"
    PROVE  /\ wcall[w] \in WaitCalls[w] /\ Watched(w) \in Seq(Sources)
           /\ Len(Watched(w)) \in Nat /\ 0 < Len(Watched(w))
           /\ visited[w] \in Nat /\ visited[w] < Len(Watched(w))
           /\ visited[w] + 1 \in Places(w) /\ NextWatched(w) \in Sources
           /\ ~AtLast(w) => visited[w] + 1 < Len(Watched(w))
           /\ WaiterInv(w)
           /\ wpoint[w] # "parked" => ~asleep[w]
<1>1. /\ WaiterInv(w) /\ wcall[w] \in WaitCalls[w] /\ visited[w] \in Nat /\ visited[w] < Len(Watched(w))
      /\ wpoint[w] # "parked" => ~asleep[w]
  BY Zenon DEF EventsInv, WaiterInv
<1>2. Watched(w) \in Seq(Sources) /\ \A i \in Places(w) : Watched(w)[i] \in Sources
  BY <1>1, WatchedFacts, Zenon
<1>3. Len(Watched(w)) \in Nat /\ 0 < Len(Watched(w))
  BY <1>1, WatchedFacts, Zenon
<1>4. visited[w] + 1 \in Places(w) /\ (~AtLast(w) => visited[w] + 1 < Len(Watched(w)))
  BY <1>1, <1>3, Counting, Zenon DEF Places, AtLast
<1>5. NextWatched(w) \in Sources
  BY <1>2, <1>4, Zenon DEF NextWatched
<1> QED BY <1>1, <1>2, <1>3, <1>4, <1>5, Zenon

\* A call that goes on without touching a queue, an object or its own wake.
LEMMA QuietStep ==
    ASSUME EventsInv, NEW w \in Waiters, CallsApart(w), WaiterInv(w)',
           UNCHANGED <<signaled, waitQueue, owed, waking, asleep, wakeFlag, exitPoint>>,
           packets' # <<>> => packets # <<>>, Exited' = Exited
    PROVE  EventsInv'
<1>1. \A o \in Sources : Ready(o)' => Ready(o)
  BY Zenon DEF Ready, Sources
<1>2. /\ waitQueue' \in [Sources -> Seq(Waiters)]
      /\ asleep' \in [Waiters -> BOOLEAN] /\ wakeFlag' \in [Waiters -> BOOLEAN]
  BY Zenon DEF EventsInv, EventsType
<1> QED BY <1>1, <1>2, CallStep, Zenon

\* A call begins with a look at its objects.
LEMMA BeginWaitStep ==
    ASSUME EventsInv, NEW w \in Waiters, BeginWait(w)
    PROVE  EventsInv'
<1>1. /\ wpoint[w] = "idle"
      /\ UNCHANGED <<packets, signaled, procState, waitQueue, owed, waking, asleep, wakeFlag, exitPoint>>
  BY Zenon DEF BeginWait, EvAt, evWakes, evExit
<1>2. PICK c \in WaitCalls[w] :
           /\ wcall' = [wcall EXCEPT ![w] = c]
           /\ EvGoto(w, IF c.kind = "set" THEN "poll" ELSE "enqueue")
  BY Zenon DEF BeginWait
<1>3. /\ CallsApart(w) /\ wcall'[w] = c /\ visited'[w] = 0
      /\ wpoint'[w] = IF c.kind = "set" THEN "poll" ELSE "enqueue"
  BY <1>2, Zenon DEF EventsInv, EventsType, EvGoto, CallsApart
<1>4. ~asleep'[w]
  BY <1>1, Zenon DEF EventsInv, WaiterInv
<1>5. 0 < Len(Watched(w)') /\ 0 \in Nat
  BY <1>3, WatchedFacts, Zenon
<1>6. WaiterInv(w)'
  <2>1. CASE c.kind = "set"
    BY <2>1, <1>3, <1>4, <1>5, AtRest, Zenon
  <2>2. CASE c.kind # "set"
    BY <2>2, <1>3, <1>4, StartsQueueing, Zenon
  <2> QED BY <2>1, <2>2, Zenon
<1> QED BY <1>1, <1>3, <1>6, QuietStep, Zenon DEF Exited
\* On the way to sleep: the call stands in every queue and is told of enough.
Enough(w) == IF wcall[w].all THEN \E i \in Places(w) : Told(w, Watched(w)[i])
             ELSE \A i \in Places(w) : Told(w, Watched(w)[i])
InQueues(w) == \A i \in Places(w) : Stands(w, Watched(w)[i])

\* A call that stands in every queue it needs may go to sleep.
LEMMA GoesToSleep ==
    ASSUME NEW w \in Waiters, wpoint'[w] \in {"park", "sleep", "parked"},
           asleep'[w] => wpoint'[w] = "parked" /\ ~wakeFlag'[w],
           wcall'[w] \in WaitCalls[w], visited'[w] = 0, InQueues(w)', Enough(w)'
    PROVE  WaiterInv(w)'
<1>1. 0 < Len(Watched(w)') /\ 0 \in Nat
  BY WatchedFacts, Zenon
<1> QED BY <1>1, Zenon DEF WaiterInv, Waits, Settled, InQueues, Enough

\* Where a call stands depends only on its own entries.
LEMMA QueuesSame ==
    ASSUME NEW w, wcall'[w] = wcall[w],
           \A o : Stands(w, o)' = Stands(w, o) /\ Told(w, o)' = Told(w, o)
    PROVE  InQueues(w)' = InQueues(w) /\ Enough(w)' = Enough(w)
<1>1. Watched(w)' = Watched(w) /\ Places(w)' = Places(w)
  BY Zenon DEF Watched, Places
<1> QED BY <1>1, Zenon DEF InQueues, Enough

\* The objects and the wakes of w are the same after the step, so it is told of
\* the same ones.
LEMMA ToldSame ==
    ASSUME NEW w, UNCHANGED <<packets, signaled, procState, waitQueue, owed, waking, wakeFlag, exitPoint>>
    PROVE  /\ \A o : Stands(w, o)' = Stands(w, o) /\ Told(w, o)' = Told(w, o)
           /\ \A o : Ready(o)' = Ready(o)
BY Zenon DEF Stands, Told, WakeComing, Ready, Exited

\* update_waitset_signals and poll_at: a wait set goes to sleep only when, after it
\* was queued, it saw too few of its objects ready.
LEMMA PollNextStep ==
    ASSUME EventsInv, NEW w \in Waiters, PollNext(w)
    PROVE  EventsInv'
<1> DEFINE now == seen[w] \cup (IF Ready(NextWatched(w)) THEN {NextWatched(w)} ELSE {})
           leave == IF EvAt(w, "poll") THEN "idle" ELSE "leave"
<1>1. /\ Kind(w) = "set" /\ wpoint[w] \in {"poll", "recheck"}
      /\ UNCHANGED <<packets, signaled, procState, waitQueue, owed, waking, asleep, wakeFlag, exitPoint>>
  BY Zenon DEF PollNext, EvAt, evObjects, evWakes, evExit
<1>2. \/ /\ ~AtLast(w) /\ visited' = [visited EXCEPT ![w] = @ + 1]
         /\ seen' = [seen EXCEPT ![w] = now] /\ UNCHANGED <<wpoint, wcall>>
      \/ \E r : EvFinish(w, leave, r)
      \/ /\ AtLast(w) /\ ~Satisfied(w, now)
         /\ EvFinish(w, IF EvAt(w, "poll") THEN "enqueue" ELSE "park", answer[w])
  BY Zenon DEF PollNext, EvMove
<1>3. /\ wcall[w] \in WaitCalls[w] /\ Watched(w) \in Seq(Sources)
      /\ Len(Watched(w)) \in Nat /\ 0 < Len(Watched(w))
      /\ visited[w] \in Nat /\ visited[w] < Len(Watched(w))
      /\ ~AtLast(w) => visited[w] + 1 < Len(Watched(w))
      /\ WaiterInv(w) /\ ~asleep[w]
  BY <1>1, CallFacts, Zenon
<1>4. /\ \A o : Stands(w, o)' = Stands(w, o) /\ Told(w, o)' = Told(w, o)
      /\ Exited' = Exited
  BY <1>1, ToldSame, Zenon DEF Exited
<1>5. \A i \in 1 .. visited[w] + 1 :
          (wpoint[w] = "recheck" /\ Watched(w)[i] \notin now) => Told(w, Watched(w)[i])
  <2> SUFFICES ASSUME NEW i \in 1 .. visited[w] + 1, wpoint[w] = "recheck", Watched(w)[i] \notin now
               PROVE  Told(w, Watched(w)[i])
    BY Zenon
  <2>1. CASE i = visited[w] + 1
    BY <2>1, Zenon DEF NextWatched, Told
  <2>2. CASE i # visited[w] + 1
    <3>1. i \in 1 .. visited[w]
      BY <2>2, <1>3, Counting, Zenon
    <3> QED BY <3>1, <1>3, Zenon DEF WaiterInv
  <2> QED BY <2>1, <2>2, Zenon
<1> HIDE DEF now
<1>6. CASE /\ ~AtLast(w) /\ visited' = [visited EXCEPT ![w] = @ + 1]
           /\ seen' = [seen EXCEPT ![w] = now] /\ UNCHANGED <<wpoint, wcall>>
  <2>1. CallsApart(w) /\ visited'[w] = visited[w] + 1 /\ seen'[w] = now
    BY <1>6, Zenon DEF EventsInv, EventsType, CallsApart
  <2>2. Watched(w)' = Watched(w) /\ Places(w)' = Places(w) /\ wpoint'[w] = wpoint[w] /\ wcall'[w] = wcall[w]
    BY <1>6, Zenon DEF Watched, Places
  <2>3. visited'[w] \in Nat /\ visited'[w] < Len(Watched(w)')
    BY <2>1, <2>2, <1>3, <1>6, Counting, Zenon
  <2>4. WaiterInv(w)'
    BY <2>1, <2>2, <2>3, <1>1, <1>3, <1>4, <1>5, Zenon DEF WaiterInv, Waits, Settled
  <2> QED BY <2>1, <2>4, <1>1, <1>4, QuietStep, Zenon
<1>7. ASSUME NEW r, EvFinish(w, leave, r) PROVE EventsInv'
  <2>1. CallsApart(w) /\ wpoint'[w] = leave /\ visited'[w] = 0 /\ (leave # "idle" => wcall'[w] = wcall[w])
    BY <1>7, MoveFacts, Zenon
  <2>2. leave # "idle" => visited'[w] \in Nat /\ visited'[w] < Len(Watched(w)')
    BY <2>1, <1>3, WatchedFacts, Zenon DEF Watched
  <2>3. WaiterInv(w)'
    BY <2>1, <2>2, <1>1, <1>3, AtRest, Zenon
  <2> QED BY <2>1, <2>3, <1>1, <1>4, QuietStep, Zenon
<1>8. CASE /\ AtLast(w) /\ ~Satisfied(w, now)
           /\ EvFinish(w, IF EvAt(w, "poll") THEN "enqueue" ELSE "park", answer[w])
  <2>1. /\ CallsApart(w) /\ wpoint'[w] = (IF EvAt(w, "poll") THEN "enqueue" ELSE "park")
        /\ visited'[w] = 0 /\ wcall'[w] = wcall[w]
    <3>1. (IF EvAt(w, "poll") THEN "enqueue" ELSE "park") # "idle"
      BY Zenon
    <3> QED BY <3>1, <1>8, MoveFacts, Zenon
  <2>2. CASE EvAt(w, "poll")
    <3>1. WaiterInv(w)'
      BY <2>1, <2>2, <1>1, <1>3, StartsQueueing, Zenon
    <3> QED BY <3>1, <2>1, <1>1, <1>4, QuietStep, Zenon
  <2>3. CASE ~EvAt(w, "poll")
    <3>1. wpoint[w] = "recheck" /\ wpoint'[w] = "park"
      BY <2>1, <2>3, <1>1, Zenon DEF EvAt
    <3>2. InQueues(w)' = InQueues(w) /\ Enough(w)' = Enough(w)
      BY <2>1, <1>4, QueuesSame, Zenon
    <3>3. 1 .. visited[w] + 1 = Places(w)
      BY <1>8, Zenon DEF AtLast, Places
    <3>4. Range(Watched(w)) = {Watched(w)[i] : i \in Places(w)}
      BY <1>3, SetOfSequence, Zenon DEF Places
    <3>5. Enough(w)
      <4>1. CASE wcall[w].all
        <5>1. PICK i \in Places(w) : Watched(w)[i] \notin now
          BY <4>1, <1>8, <3>4, Zenon DEF Satisfied
        <5> QED BY <5>1, <4>1, <3>1, <3>3, <1>5, Zenon DEF Enough
      <4>2. CASE ~wcall[w].all
        <5>1. now = {}
          BY <4>2, <1>8, Zenon DEF Satisfied
        <5> QED BY <5>1, <4>2, <3>1, <3>3, <1>5, Zenon DEF Enough
      <4> QED BY <4>1, <4>2, Zenon
    <3>6. InQueues(w)
      BY <3>1, <1>3, Zenon DEF WaiterInv, Waits, InQueues
    <3>7. WaiterInv(w)'
      BY <3>1, <3>2, <3>5, <3>6, <2>1, <1>1, <1>3, GoesToSleep, Zenon
    <3> QED BY <3>7, <2>1, <1>1, <1>4, QuietStep, Zenon
  <2> QED BY <2>2, <2>3, Zenon
<1> QED BY <1>2, <1>6, <1>7, <1>8, Zenon
\* WaitQueue::enqueue: the call stands in one more queue.
LEMMA EnqueueNextStep ==
    ASSUME EventsInv, NEW w \in Waiters, EnqueueNext(w)
    PROVE  EventsInv'
<1> DEFINE o == NextWatched(w)
           q == IF w \in Range(waitQueue[o]) THEN waitQueue[o] ELSE Append(waitQueue[o], w)
<1>1. /\ wpoint[w] = "enqueue" /\ waitQueue' = [waitQueue EXCEPT ![o] = q]
      /\ UNCHANGED <<packets, signaled, procState, owed, waking, asleep, wakeFlag, exitPoint>>
      /\ \/ /\ ~AtLast(w) /\ visited' = [visited EXCEPT ![w] = @ + 1] /\ UNCHANGED <<wpoint, wcall, seen>>
         \/ AtLast(w) /\ EvFinish(w, "recheck", answer[w])
  BY Zenon DEF EnqueueNext, EvAt, EvMove, evObjects, evWakes, evExit
<1>2. /\ wcall[w] \in WaitCalls[w] /\ Watched(w) \in Seq(Sources) /\ o \in Sources
      /\ Len(Watched(w)) \in Nat /\ 0 < Len(Watched(w)) /\ visited[w] + 1 \in Places(w)
      /\ visited[w] \in Nat /\ visited[w] < Len(Watched(w))
      /\ ~AtLast(w) => visited[w] + 1 < Len(Watched(w))
      /\ WaiterInv(w) /\ ~asleep[w]
  BY <1>1, CallFacts, Zenon
<1>3. waitQueue \in [Sources -> Seq(Waiters)]
  BY Zenon DEF EventsInv, EventsType
<1>4. q \in Seq(Waiters) /\ Range(q) = Range(waitQueue[o]) \cup {w}
  BY <1>2, <1>3, QueueFacts
<1> HIDE DEF q
<1>5. /\ waitQueue' \in [Sources -> Seq(Waiters)]
      /\ \A p \in Sources : /\ Range(waitQueue[p]) \subseteq Range(waitQueue'[p])
                            /\ p = o => w \in Range(waitQueue'[p])
                            /\ \A v \in Range(waitQueue'[p]) :
                                   v \in Range(waitQueue[p]) \/ (v = w /\ p = o)
  BY <1>1, <1>2, <1>3, <1>4, Zenon
<1>6. \A v \in Range(waitQueue'["port"]) : v \in Range(waitQueue["port"]) \/ WatchesPort(v)
  <2>1. o \in Range(Watched(w))
    <3>1. Range(Watched(w)) = {Watched(w)[i] : i \in 1 .. Len(Watched(w))}
      BY <1>2, SetOfSequence, Zenon
    <3> QED BY <3>1, <1>2, Zenon DEF NextWatched, Places
  <2>2. o = "port" => WatchesPort(w)
    BY <2>1, <1>2, Zenon DEF WatchesPort, Watched
  <2> QED BY <2>2, <1>5, Zenon DEF Sources
<1>7. \A p : Ready(p)' = Ready(p)
  BY <1>1, Zenon DEF Ready, Exited
<1>8. \A i \in 1 .. visited[w] + 1 : Stands(w, Watched(w)[i])'
  <2> SUFFICES ASSUME NEW i \in 1 .. visited[w] + 1 PROVE Stands(w, Watched(w)[i])'
    BY Zenon
  <2>0. Watched(w)[i] \in Sources /\ Watched(w)' = Watched(w)
    <3>1. i \in 1 .. Len(Watched(w))
      BY <1>2, Counting, Zenon
    <3>2. wcall'[w] = wcall[w]
      <4>1. EvFinish(w, "recheck", answer[w]) => wcall'[w] = wcall[w]
        BY MovesOn, Zenon
      <4> QED BY <4>1, <1>1, Zenon
    <3> QED BY <3>1, <3>2, <1>2, WatchedFacts, Zenon DEF Watched, Places
  <2>1. CASE i = visited[w] + 1
    BY <2>0, <2>1, <1>5, Zenon DEF Stands, NextWatched
  <2>2. CASE i # visited[w] + 1
    <3>1. i \in 1 .. visited[w]
      BY <2>2, <1>2, Counting, Zenon
    <3>2. Stands(w, Watched(w)[i])
      BY <3>1, <1>1, <1>2, Zenon DEF WaiterInv
    <3> QED BY <3>2, <2>0, <1>1, <1>5, Zenon DEF Stands, WakeComing
  <2> QED BY <2>1, <2>2, Zenon
<1>9. CallsApart(w) /\ WaiterInv(w)'
  <2>1. CASE ~AtLast(w) /\ visited' = [visited EXCEPT ![w] = @ + 1] /\ UNCHANGED <<wpoint, wcall, seen>>
    <3>1. CallsApart(w) /\ visited'[w] = visited[w] + 1 /\ wpoint'[w] = "enqueue" /\ wcall'[w] = wcall[w]
      BY <2>1, <1>1, Zenon DEF EventsInv, EventsType, CallsApart
    <3>2. Watched(w)' = Watched(w)
      BY <3>1, Zenon DEF Watched
    <3>3. visited'[w] \in Nat /\ visited'[w] < Len(Watched(w)')
      BY <3>1, <3>2, <2>1, <1>2, Counting, Zenon
    <3> QED BY <3>1, <3>2, <3>3, <2>1, <1>1, <1>2, <1>8, Zenon DEF WaiterInv, Waits, Settled
  <2>2. CASE AtLast(w) /\ EvFinish(w, "recheck", answer[w])
    <3>1. CallsApart(w) /\ visited'[w] = 0 /\ wpoint'[w] = "recheck" /\ wcall'[w] = wcall[w]
      BY <2>2, MovesOn, Zenon
    <3>2. Watched(w)' = Watched(w) /\ Places(w)' = 1 .. visited[w] + 1
      BY <3>1, <2>2, Zenon DEF Watched, Places, AtLast
    <3>3. \A i \in Places(w)' : Stands(w, Watched(w)[i])'
      BY <3>2, <1>8, Zenon
    <3>4. visited'[w] \in Nat /\ visited'[w] < Len(Watched(w)') /\ 1 .. visited'[w] = {}
      BY <3>1, <3>2, <1>2, WatchedFacts, Counting, Zenon
    <3> QED BY <3>1, <3>2, <3>3, <3>4, <1>1, <1>2, Zenon DEF WaiterInv, Waits, Settled
  <2> QED BY <2>1, <2>2, <1>1, Zenon
<1>10. asleep' \in [Waiters -> BOOLEAN] /\ wakeFlag' \in [Waiters -> BOOLEAN]
  BY <1>1, Zenon DEF EventsInv, EventsType
<1> QED BY <1>1, <1>5, <1>6, <1>7, <1>9, <1>10, CallStep, Zenon

\* Reading the port and looking at the exit code: the call goes to sleep only on an
\* empty port, or a process that has not exited.
LEMMA CheckStep ==
    ASSUME EventsInv, NEW w \in Waiters, ReadPort(w) \/ CheckExit(w)
    PROVE  EventsInv'
<1>1. /\ wpoint[w] \in {"recheck", "final"} /\ Kind(w) \in {"port", "process"}
      /\ UNCHANGED <<signaled, procState, waitQueue, owed, waking, asleep, wakeFlag, exitPoint>>
      /\ packets' = packets \/ packets # <<>>
      /\ \/ \E p \in {"release", "release_final", "idle", "leave"} : \E r : EvFinish(w, p, r)
         \/ /\ wpoint[w] = "recheck" /\ EvFinish(w, "park", answer[w])
            /\ ~Ready(Kind(w)) /\ UNCHANGED packets
  <2>1. CASE ReadPort(w)
    BY <2>1, Zenon DEF ReadPort, PortPop, EvAt, EvMove, evWakes, evExit, Ready
  <2>2. CASE CheckExit(w)
    BY <2>2, Zenon DEF CheckExit, EvAt, EvMove, evObjects, evWakes, evExit, Ready
  <2> QED BY <2>1, <2>2, Zenon
<1>2. /\ wcall[w] \in WaitCalls[w] /\ visited[w] \in Nat /\ Len(Watched(w)) \in Nat /\ 0 < Len(Watched(w))
      /\ WaiterInv(w) /\ ~asleep[w]
  BY <1>1, CallFacts, Zenon
<1>3. Exited' = Exited /\ ~asleep'[w] /\ (packets' # <<>> => packets # <<>>)
  BY <1>1, <1>2, Zenon DEF Exited
<1>4. ASSUME NEW p \in {"release", "release_final", "idle", "leave"}, NEW r, EvFinish(w, p, r)
      PROVE  EventsInv'
  <2>1. CallsApart(w) /\ wpoint'[w] = p /\ visited'[w] = 0 /\ (p # "idle" => wcall'[w] = wcall[w])
    BY <1>4, MoveFacts, Zenon
  <2>2. WaiterInv(w)'
    <3>1. p # "idle" => visited'[w] \in Nat /\ visited'[w] < Len(Watched(w)')
      BY <2>1, <1>2, WatchedFacts, Zenon DEF Watched
    <3> QED BY <3>1, <2>1, <1>2, <1>3, AtRest, Zenon
  <2> QED BY <2>1, <2>2, <1>1, <1>3, QuietStep, Zenon
<1>5. CASE /\ wpoint[w] = "recheck" /\ EvFinish(w, "park", answer[w])
           /\ ~Ready(Kind(w)) /\ UNCHANGED packets
  <2>1. CallsApart(w) /\ wpoint'[w] = "park" /\ visited'[w] = 0 /\ wcall'[w] = wcall[w]
    BY <1>5, MovesOn, Zenon
  <2>2. InQueues(w)' = InQueues(w) /\ Enough(w)' = Enough(w)
    BY <2>1, <1>1, <1>5, ToldSame, QueuesSame, Zenon
  <2>3. InQueues(w)
    BY <1>2, <1>5, Zenon DEF WaiterInv, Waits, InQueues
  <2>4. \A i \in Places(w) : Watched(w)[i] = Kind(w)
    <3>1. Watched(w) = <<Kind(w)>>
      BY <1>1, <1>2, EventsAssumption, Zenon DEF Watched, Kind
    <3> QED BY <3>1 DEF Places
  <2>5. Enough(w)
    <3>1. \A i \in Places(w) : Told(w, Watched(w)[i])
      BY <2>4, <1>5, Zenon DEF Told
    <3>2. 1 \in Places(w)
      BY <1>2, WatchedFacts, Counting, Zenon DEF Places
    <3> QED BY <3>1, <3>2, Zenon DEF Enough
  <2>6. WaiterInv(w)'
    BY <2>1, <2>2, <2>3, <2>5, <1>2, <1>3, GoesToSleep, Zenon
  <2> QED BY <2>1, <2>6, <1>1, <1>3, QuietStep, Zenon
<1> QED BY <1>1, <1>4, <1>5, Zenon

\* Giving the quota back, and running again after a sleep.
LEMMA ReturnStep ==
    ASSUME EventsInv, NEW w \in Waiters, ReleaseQuota(w) \/ ResumeWait(w)
    PROVE  EventsInv'
<1>1. /\ wpoint[w] \in {"release", "release_final", "parked"} /\ (wpoint[w] = "parked" => ~asleep[w])
      /\ UNCHANGED <<packets, signaled, procState, waitQueue, owed, waking, asleep, wakeFlag, exitPoint>>
  BY Zenon DEF ReleaseQuota, ResumeWait, EvAt, evObjects, evWakes, evExit
<1>0. PICK p \in {"leave", "idle"} : \E r : EvFinish(w, p, r)
  BY Zenon DEF ReleaseQuota, ResumeWait, EvMove
<1>2. PICK r : EvFinish(w, p, r)
  BY <1>0, Zenon
<1>3. CallsApart(w) /\ wpoint'[w] = p /\ visited'[w] = 0 /\ (p # "idle" => wcall'[w] = wcall[w])
  BY <1>2, MoveFacts, Zenon
<1>4. wcall[w] \in WaitCalls[w] /\ Len(Watched(w)) \in Nat /\ 0 < Len(Watched(w)) /\ ~asleep'[w]
  BY <1>1, CallFacts, Zenon
<1>5. WaiterInv(w)'
  <2>1. p # "idle" => visited'[w] \in Nat /\ visited'[w] < Len(Watched(w)')
    BY <1>3, <1>4, WatchedFacts, Zenon DEF Watched
  <2> QED BY <2>1, <1>3, <1>4, AtRest, Zenon
<1> QED BY <1>1, <1>3, <1>5, QuietStep, Zenon DEF Exited

\* The timeout is armed between the recheck and the sleep.
LEMMA ArmTimeoutStep ==
    ASSUME EventsInv, NEW w \in Waiters, ArmTimeout(w)
    PROVE  EventsInv'
<1>1. /\ wpoint[w] = "park"
      /\ UNCHANGED <<packets, signaled, procState, waitQueue, owed, waking, asleep, wakeFlag, exitPoint>>
      /\ EvFinish(w, "leave", "timeout") \/ (EvGoto(w, "sleep") /\ UNCHANGED wcall)
  BY Zenon DEF ArmTimeout, EvAt, evObjects, evWakes, evExit
<1>2. /\ wcall[w] \in WaitCalls[w] /\ Len(Watched(w)) \in Nat /\ 0 < Len(Watched(w)) /\ ~asleep'[w]
      /\ WaiterInv(w)
  BY <1>1, CallFacts, Zenon
<1>3. CASE EvFinish(w, "leave", "timeout")
  <2>1. CallsApart(w) /\ wpoint'[w] = "leave" /\ visited'[w] = 0 /\ wcall'[w] = wcall[w]
    BY <1>3, MoveFacts, Zenon
  <2>2. WaiterInv(w)'
    <3>1. visited'[w] \in Nat /\ visited'[w] < Len(Watched(w)')
      BY <2>1, <1>2, WatchedFacts, Zenon DEF Watched
    <3> QED BY <3>1, <2>1, <1>2, AtRest, Zenon
  <2> QED BY <2>1, <2>2, <1>1, QuietStep, Zenon DEF Exited
<1>4. CASE EvGoto(w, "sleep") /\ UNCHANGED wcall
  <2>1. CallsApart(w) /\ wpoint'[w] = "sleep" /\ visited'[w] = 0 /\ wcall'[w] = wcall[w]
    BY <1>4, Zenon DEF EventsInv, EventsType, EvGoto, CallsApart
  <2>2. InQueues(w)' = InQueues(w) /\ Enough(w)' = Enough(w)
    BY <2>1, <1>1, ToldSame, QueuesSame, Zenon
  <2>3. InQueues(w) /\ Enough(w)
    BY <1>1, <1>2, Zenon DEF WaiterInv, Waits, Settled, InQueues, Enough
  <2>4. WaiterInv(w)'
    BY <2>1, <2>2, <2>3, <1>2, GoesToSleep, Zenon
  <2> QED BY <2>1, <2>4, <1>1, QuietStep, Zenon DEF Exited
<1> QED BY <1>1, <1>3, <1>4, Zenon

\* park_current: a remembered wake keeps the task awake.
LEMMA ParkCurrentStep ==
    ASSUME EventsInv, NEW w \in Waiters, ParkCurrent(w)
    PROVE  EventsInv'
<1>1. /\ wpoint[w] = "sleep" /\ EvFinish(w, "parked", answer[w])
      /\ UNCHANGED <<packets, signaled, procState, waitQueue, owed, waking, exitPoint>>
      /\ asleep' = [asleep EXCEPT ![w] = ~wakeFlag[w]]
      /\ wakeFlag' = [wakeFlag EXCEPT ![w] = FALSE]
  BY Zenon DEF ParkCurrent, EvAt, EvMove, evObjects, evExit
<1>2. /\ wcall[w] \in WaitCalls[w] /\ Len(Watched(w)) \in Nat /\ 0 < Len(Watched(w)) /\ WaiterInv(w)
  BY <1>1, CallFacts, Zenon
<1>3. CallsApart(w) /\ wpoint'[w] = "parked" /\ visited'[w] = 0 /\ wcall'[w] = wcall[w]
  BY <1>1, MovesOn, Zenon
<1>4. /\ asleep \in [Waiters -> BOOLEAN] /\ wakeFlag \in [Waiters -> BOOLEAN]
      /\ waitQueue \in [Sources -> Seq(Waiters)]
  BY Zenon DEF EventsInv, EventsType
<1>5. /\ asleep' \in [Waiters -> BOOLEAN] /\ wakeFlag' \in [Waiters -> BOOLEAN]
      /\ \A v \in Waiters \ {w} : asleep'[v] = asleep[v] /\ wakeFlag'[v] = wakeFlag[v]
      /\ asleep'[w] = ~wakeFlag[w] /\ wakeFlag'[w] = FALSE
  BY <1>1, <1>4, Zenon
<1>6. WaiterInv(w)'
  <2>1. CASE wakeFlag[w]
    <3>1. ~asleep'[w]
      BY <2>1, <1>5, Zenon
    <3>2. visited'[w] \in Nat /\ visited'[w] < Len(Watched(w)')
      BY <1>2, <1>3, WatchedFacts, Zenon DEF Watched
    <3> QED BY <3>1, <3>2, <1>2, <1>3, Zenon DEF WaiterInv, Waits, Settled
  <2>2. CASE ~wakeFlag[w]
    <3>1. WakeComing(w)' = WakeComing(w)
      BY <2>2, <1>1, <1>5, Zenon DEF WakeComing
    <3>2. \A o : Stands(w, o)' = Stands(w, o) /\ Told(w, o)' = Told(w, o)
      BY <3>1, <1>1, Zenon DEF Stands, Told, Ready, Exited
    <3>3. InQueues(w)' = InQueues(w) /\ Enough(w)' = Enough(w)
      BY <3>2, <1>3, QueuesSame, Zenon
    <3>4. InQueues(w) /\ Enough(w)
      BY <1>1, <1>2, Zenon DEF WaiterInv, Waits, Settled, InQueues, Enough
    <3>5. wcall'[w] \in WaitCalls[w] /\ ~wakeFlag'[w]
      BY <1>2, <1>3, <1>5, Zenon
    <3> QED BY <3>3, <3>4, <3>5, <1>3, GoesToSleep, Zenon
  <2> QED BY <2>1, <2>2, Zenon
<1>7. \A o : Ready(o)' = Ready(o)
  BY <1>1, Zenon DEF Ready, Exited
<1>8. /\ waitQueue' \in [Sources -> Seq(Waiters)] /\ \A o \in Sources : waitQueue'[o] = waitQueue[o]
      /\ Range(waitQueue'["port"]) = Range(waitQueue["port"])
  BY <1>1, <1>4, Zenon
<1> QED BY <1>1, <1>3, <1>5, <1>6, <1>7, <1>8, CallStep, Zenon

\* WaitQueue::remove takes nobody else out of the queue.
LEMMA LeaveNextStep ==
    ASSUME EventsInv, NEW w \in Waiters, LeaveNext(w)
    PROVE  EventsInv'
<1> DEFINE o == NextWatched(w)
<1>1. /\ wpoint[w] = "leave" /\ waitQueue' = [waitQueue EXCEPT ![o] = Unqueued(@, w)]
      /\ UNCHANGED <<packets, signaled, procState, owed, waking, asleep, wakeFlag, exitPoint>>
      /\ \/ /\ ~AtLast(w) /\ visited' = [visited EXCEPT ![w] = @ + 1] /\ UNCHANGED <<wpoint, wcall, seen>>
         \/ EvFinish(w, AfterLeave(w), answer[w])
  BY Zenon DEF LeaveNext, EvAt, EvMove, evObjects, evWakes, evExit
<1>2. /\ wcall[w] \in WaitCalls[w] /\ o \in Sources /\ visited[w] \in Nat
      /\ Len(Watched(w)) \in Nat /\ 0 < Len(Watched(w))
      /\ ~AtLast(w) => visited[w] + 1 < Len(Watched(w))
      /\ ~asleep'[w]
  BY <1>1, CallFacts, Zenon
<1>3. waitQueue \in [Sources -> Seq(Waiters)]
  BY Zenon DEF EventsInv, EventsType
<1>4. /\ Unqueued(waitQueue[o], w) \in Seq(Waiters)
      /\ Range(Unqueued(waitQueue[o], w)) \subseteq Range(waitQueue[o])
      /\ \A v \in Range(waitQueue[o]) : v # w => v \in Range(Unqueued(waitQueue[o], w))
  BY <1>2, <1>3, UnqueuedQueue, Zenon
<1>5. /\ waitQueue' \in [Sources -> Seq(Waiters)]
      /\ \A p \in Sources : /\ Range(waitQueue'[p]) \subseteq Range(waitQueue[p])
                            /\ \A v \in Waiters \ {w} :
                                   v \in Range(waitQueue[p]) => v \in Range(waitQueue'[p])
  BY <1>1, <1>2, <1>3, <1>4, Zenon
<1>6. \A v \in Range(waitQueue'["port"]) : v \in Range(waitQueue["port"])
  BY <1>5, Zenon DEF Sources
<1>7. \A p : Ready(p)' = Ready(p)
  BY <1>1, Zenon DEF Ready, Exited
<1>8. CallsApart(w) /\ WaiterInv(w)'
  <2>1. CASE ~AtLast(w) /\ visited' = [visited EXCEPT ![w] = @ + 1] /\ UNCHANGED <<wpoint, wcall, seen>>
    <3>1. CallsApart(w) /\ visited'[w] = visited[w] + 1 /\ wpoint'[w] = "leave" /\ wcall'[w] = wcall[w]
      BY <2>1, <1>1, Zenon DEF EventsInv, EventsType, CallsApart
    <3>2. visited'[w] \in Nat /\ visited'[w] < Len(Watched(w)')
      <4>1. visited[w] + 1 \in Nat
        BY <1>2
      <4> QED BY <4>1, <3>1, <2>1, <1>2, Zenon DEF Watched
    <3> QED BY <3>1, <3>2, <1>2, AtRest, Zenon
  <2>2. CASE EvFinish(w, AfterLeave(w), answer[w])
    <3>1. /\ CallsApart(w) /\ visited'[w] = 0 /\ wpoint'[w] = AfterLeave(w)
          /\ AfterLeave(w) # "idle" => wcall'[w] = wcall[w]
      BY <2>2, MoveFacts, Zenon
    <3>2. AfterLeave(w) \in {"poll", "enqueue", "final", "idle"}
      BY Zenon DEF AfterLeave
    <3>3. CASE AfterLeave(w) = "enqueue"
      BY <3>1, <3>3, <1>2, StartsQueueing, Zenon
    <3>4. CASE AfterLeave(w) # "enqueue"
      <4>1. AfterLeave(w) # "idle" => visited'[w] \in Nat /\ visited'[w] < Len(Watched(w)')
        BY <3>1, <1>2, WatchedFacts, Zenon DEF Watched
      <4> QED BY <4>1, <3>1, <3>2, <3>4, <1>2, AtRest, Zenon
    <3> QED BY <3>1, <3>3, <3>4, Zenon
  <2> QED BY <2>1, <2>2, <1>1, Zenon
<1>9. asleep' \in [Waiters -> BOOLEAN] /\ wakeFlag' \in [Waiters -> BOOLEAN]
  BY <1>1, Zenon DEF EventsInv, EventsType
<1> QED BY <1>1, <1>5, <1>6, <1>7, <1>8, <1>9, CallStep, Zenon

\* Leaving the queues after a wake loses no wake of another task.
LEMMA RemoveExitWaiterStep ==
    ASSUME EventsInv, NEW w \in Waiters, RemoveExitWaiter(w)
    PROVE  EventsInv'
<1>1. /\ UNCHANGED <<packets, signaled, waitQueue, owed, waking, asleep, wakeFlag, exitPoint>>
      /\ UNCHANGED <<wpoint, wcall, visited, seen>>
      /\ procState' = procState \/ (procState = "exited" /\ procState' = "reaped")
  BY Zenon DEF RemoveExitWaiter, evWakes, evExit
<1>2. \A o \in Sources : Ready(o)' => Ready(o)
  BY <1>1, Zenon DEF Ready, Exited, Sources
<1>3. owed' \in [Sources -> Nat] /\ \A o \in Sources : owed'[o] >= owed[o]
  BY <1>1 DEF EventsInv, EventsType
<1> QED BY <1>1, <1>2, <1>3, ObjectStep, Zenon

\* The invariant of the waiting calls is inductive when one task waits on the port.
THEOREM EventsInvariant ==
    OnePortWaiter => (EventsSpec => []EventsInv)
<1> SUFFICES ASSUME OnePortWaiter PROVE EventsSpec => []EventsInv
  BY Zenon
<1>1. EventsInit => EventsInv
  BY EventsInitInv, Zenon
<1>2. EventsInv /\ [EventsNext]_evVars => EventsInv'
  <2> SUFFICES ASSUME EventsInv, [EventsNext]_evVars PROVE EventsInv'
    BY Zenon
  <2>1. CASE EventsNext
    <3>1. CASE \/ PortQueue \/ SignalSet \/ SignalClear
               \/ SetExitCode \/ SnapshotExitPorts \/ QueueExitPacket
               \/ \E k \in ExitKeys : BindExitPort(k) \/ InsertExitPort(k)
      BY <3>1, ObjectActions, Zenon
    <3>2. CASE \E o \in Sources : TakeWaiters(o)
      BY <3>2, TakeWaitersStep, Zenon
    <3>3. CASE EventTick \/ \E w \in Waiters : WakeWaiter(w)
      BY <3>3, WakeStep, Zenon
    <3>4. CASE \E w \in Waiters :
                 \/ BeginWait(w) \/ PollNext(w) \/ EnqueueNext(w) \/ ReadPort(w)
                 \/ ReleaseQuota(w) \/ CheckExit(w) \/ ArmTimeout(w) \/ ParkCurrent(w) \/ ResumeWait(w)
                 \/ LeaveNext(w) \/ RemoveExitWaiter(w)
      BY <3>4, BeginWaitStep, PollNextStep, EnqueueNextStep, CheckStep, ReturnStep, ArmTimeoutStep,
         ParkCurrentStep, LeaveNextStep, RemoveExitWaiterStep, Zenon
    <3> QED BY <2>1, <3>1, <3>2, <3>3, <3>4, Zenon DEF EventsNext
  <2>2. CASE UNCHANGED evVars
    <3>1. /\ UNCHANGED <<waitQueue, waking, asleep, wakeFlag, wpoint, wcall, visited, seen>>
          /\ UNCHANGED <<packets, signaled, procState, owed, exitPoint>>
      BY <2>2, Zenon DEF evVars, evObjects, evWakes, evCall, evExit
    <3>2. owed' \in [Sources -> Nat] /\ \A o \in Sources : owed'[o] >= owed[o] /\ Ready(o)' = Ready(o)
      BY <3>1 DEF EventsInv, EventsType, Ready, Exited
    <3> QED BY <3>1, <3>2, ObjectStep, Zenon
  <2> QED BY <2>1, <2>2, Zenon
<1> QED BY <1>1, <1>2, PTL DEF EventsSpec

\* However posts, signals, exits, timeouts, wakes and the calls' own steps
\* interleave, a task that waits for an event which has happened is awake or has
\* a wake coming, for any number of waiters and any wait sets, provided that one
\* task only waits on the port (wake_one serves the oldest waiter, whoever else
\* is still queued).
THEOREM EventsNeverMissed ==
    OnePortWaiter => (EventsSpec => []SatisfiedNotAsleep)
<1>1. EventsInv => SatisfiedNotAsleep
  <2> SUFFICES ASSUME EventsInv, NEW w \in Waiters, asleep[w], Due(w)
               PROVE  \/ waking[w] > 0
                      \/ \E o \in Range(Watched(w)) : owed[o] > 0 /\ w \in Range(waitQueue[o])
                      \/ exitPoint \in {"snapshot", "packets"} /\ "process" \in Range(Watched(w))
    BY Zenon DEF SatisfiedNotAsleep
  <2>1. wpoint[w] = "parked" /\ ~wakeFlag[w] /\ WaiterInv(w)
    BY Zenon DEF EventsInv, WaiterInv
  <2>2. Watched(w) \in Seq(Sources) /\ Len(Watched(w)) \in Nat /\ 0 < Len(Watched(w))
    BY <2>1, CallFacts, Zenon
  <2>3. Range(Watched(w)) = {Watched(w)[i] : i \in Places(w)}
    BY <2>2, SetOfSequence, Zenon DEF Places
  <2>4. Enough(w)
    BY <2>1, Zenon DEF WaiterInv, Settled, Enough
  <2>5. PICK i \in Places(w) : Told(w, Watched(w)[i]) /\ Ready(Watched(w)[i])
    <3>1. CASE wcall[w].all
      BY <3>1, <2>3, <2>4, Zenon DEF Enough, Due, Satisfied
    <3>2. CASE ~wcall[w].all
      BY <3>2, <2>3, <2>4, Zenon DEF Enough, Due, Satisfied
    <3> QED BY <3>1, <3>2, Zenon
  <2>6. Watched(w)[i] \in Range(Watched(w))
    BY <2>3, Zenon
  <2> QED BY <2>1, <2>5, <2>6, Zenon DEF Told, WakeComing
<1> QED BY <1>1, EventsInvariant, PTL
=============================================================================
