--------------------------- MODULE CpuMailProofs ----------------------------
(***************************************************************************)
(* What reaches a CPU from another CPU or from a device, for any number of *)
(* CPUs, threads, requests and interrupt lines: the runqueue token and its *)
(* mailbox (RunqueueToken), the task inboxes (TaskInbox), and the          *)
(* interrupt routes, the objects bound to them and the level-triggered     *)
(* lines that stay masked until every object has acknowledged              *)
(* (IrqRouting).                                                           *)
(***************************************************************************)
EXTENDS RunqueueToken, TaskInbox, IrqRouting, WellFoundedInduction, TLAPS

FillPoints == {"store_requester", "store_id", "store_pending"}
UnpostedPoints == {"try_fill", "store_requester", "store_id"}
\* Points at which the thread has just seen requestId = its own id.
MinePoints == {"wait_state", "cancel_pending", "cancel_id_again", "cancel_state",
               "cancel_token", "cancel_empty"} \cup GuardPoints
GrantedPoints == {"cancel_id_again", "cancel_state", "cancel_token",
                  "cancel_empty"} \cup GuardPoints
PostedPoints == {"wait_id", "cancel_id"} \cup MinePoints

\* Request ids are drawn once each.
IdsUnique ==
    /\ requestId < nextId
    /\ \A t \in Threads : myId[t] < nextId
    /\ \A t \in Threads : pc[t] # "idle" => myId[t] > 0
    /\ \A t, u \in Threads : t # u /\ myId[t] = myId[u] => myId[t] = 0

\* What a thread's program point says about the mailbox.
PointsAgree ==
    \A t \in Threads :
        /\ pc[t] \in FillPoints => state = "FILLING"
        /\ pc[t] \in UnpostedPoints => requestId # myId[t]
        /\ pc[t] = "store_pending" => requestId = myId[t]
        /\ pc[t] \in MinePoints => requestId = myId[t]
        /\ pc[t] \in PostedPoints /\ requestId = myId[t] => state \in {"PENDING", "GRANTED"}
        /\ pc[t] \in GrantedPoints => state = "GRANTED"

OneFiller == \A t, u \in Threads : pc[t] \in FillPoints /\ pc[u] \in FillPoints => t = u

Posted ==
    state \in {"PENDING", "GRANTED"} =>
        \E t \in Threads : pc[t] \in PostedPoints /\ myId[t] = requestId

IndInv == TypeOK /\ IdsUnique /\ PointsAgree /\ OneFiller /\ Posted

-----------------------------------------------------------------------------
\* The state right after boot satisfies the inductive invariant.
LEMMA InitInd == Init => IndInv
BY RequestersAssumption, RequestBoundAssumption
   DEF Init, IndInv, TypeOK, IdsUnique, PointsAgree, OneFiller, Posted, Ids, Points,
       IrqOffPoints, GuardPoints, MailboxStates, FillPoints, UnpostedPoints,
       MinePoints, GrantedPoints, PostedPoints

\* Every thread step of acquire_runqueue_token, cancel_runqueue_token_request and
\* the guard's drop keeps the inductive invariant.
LEMMA ThreadInd == ASSUME IndInv, NEW t \in Threads, ThreadStep(t) PROVE IndInv'
<1> USE RequestersAssumption, FreeAssumption, RequestBoundAssumption
    DEF IndInv, TypeOK, IdsUnique, PointsAgree, OneFiller, Posted, Ids, Points,
        IrqOffPoints, GuardPoints, MailboxStates, FillPoints, UnpostedPoints,
        MinePoints, GrantedPoints, PostedPoints, Step, SetState, SetToken, mailbox, owner
<1>1. CASE BeginAcquire(t)
  BY <1>1 DEF BeginAcquire
<1>2. CASE ClaimMailbox(t)
  BY <1>2 DEF ClaimMailbox
<1>3. CASE GiveUpClaim(t)
  BY <1>3 DEF GiveUpClaim
<1>4. CASE StoreRequester(t)
  BY <1>4 DEF StoreRequester
<1>5. CASE StoreRequestId(t)
  BY <1>5 DEF StoreRequestId
<1>6. CASE StorePending(t)
  BY <1>6 DEF StorePending
<1>7. CASE WaitId(t)
  BY <1>7 DEF WaitId
<1>8. CASE WaitState(t)
  BY <1>8 DEF WaitState
<1>9. CASE WaitTimeout(t)
  BY <1>9 DEF WaitTimeout
<1>10. CASE CancelLoadId(t)
  BY <1>10 DEF CancelLoadId
<1>11. CASE CancelPending(t)
  BY <1>11 DEF CancelPending
<1>12. CASE CancelLoadIdAgain(t)
  BY <1>12 DEF CancelLoadIdAgain
<1>13. CASE CancelLoadState(t)
  BY <1>13 DEF CancelLoadState
<1>14. CASE CancelToken(t)
  BY <1>14 DEF CancelToken
<1>15. CASE CancelEmpty(t)
  BY <1>15 DEF CancelEmpty
<1>16. CASE EndCriticalSection(t)
  BY <1>16 DEF EndCriticalSection
<1>17. CASE DropToken(t)
  BY <1>17 DEF DropToken
<1>18. CASE DropLoadId(t)
  BY <1>18 DEF DropLoadId
<1>19. CASE DropEmpty(t)
  BY <1>19 DEF DropEmpty
<1> QED
  BY <1>1, <1>2, <1>3, <1>4, <1>5, <1>6, <1>7, <1>8, <1>9, <1>10, <1>11, <1>12, <1>13, <1>14, <1>15, <1>16, <1>17, <1>18, <1>19, Zenon DEF ThreadStep

\* Every step of process_runqueue_token_mailbox keeps the inductive invariant.
LEMMA OwnerInd == ASSUME IndInv, OwnerStep PROVE IndInv'
<1> USE RequestersAssumption, FreeAssumption, RequestBoundAssumption
    DEF IndInv, TypeOK, IdsUnique, PointsAgree, OneFiller, Posted, Ids, Points,
        IrqOffPoints, GuardPoints, MailboxStates, FillPoints, UnpostedPoints,
        MinePoints, GrantedPoints, PostedPoints, OwnerMove, SetState, SetToken, mailbox, owner
<1>1. CASE OwnerSeesPending
  BY <1>1 DEF OwnerSeesPending
<1>2. CASE OwnerLoadRequester
  BY <1>2 DEF OwnerLoadRequester
<1>3. CASE OwnerCasToken
  BY <1>3 DEF OwnerCasToken
<1>4. CASE OwnerCasState
  BY <1>4 DEF OwnerCasState
<1>5. CASE OwnerUndo
  BY <1>5 DEF OwnerUndo
<1> QED
  BY <1>1, <1>2, <1>3, <1>4, <1>5, Zenon DEF OwnerStep

\* The conjunction above is an invariant of every behaviour of the mailbox.
THEOREM TokenInvariant == Spec => []IndInv
<1>1. IndInv /\ [Next]_vars => IndInv'
  <2> SUFFICES ASSUME IndInv, [Next]_vars PROVE IndInv'
    BY Zenon
  <2>1. CASE OwnerStep
    BY <2>1, OwnerInd, Zenon
  <2>2. ASSUME NEW t \in Threads, ThreadStep(t) PROVE IndInv'
    BY <2>2, ThreadInd, Zenon
  <2>3. CASE UNCHANGED vars
    BY <2>3, Zenon DEF vars, IndInv, TypeOK, IdsUnique, PointsAgree, OneFiller, Posted
  <2> QED
    BY <2>1, <2>2, <2>3, Zenon DEF Next
<1> QED
  BY <1>1, InitInd, PTL DEF Spec

\* Type correctness of the mailbox for every number of threads and requests.
THEOREM TokenTypeCorrect == Spec => []TypeOK
<1>1. IndInv => TypeOK
  BY Zenon DEF IndInv
<1> QED
  BY <1>1, TokenInvariant, PTL

\* acquire_runqueue_token never gives two threads a remote guard of one CPU: two
\* guards would both carry the id stored in the mailbox, and ids are unique.
THEOREM TokenMutualExclusion == Spec => []GuardExclusive
<1>1. IndInv => GuardExclusive
  BY DEF IndInv, TypeOK, IdsUnique, PointsAgree, GuardExclusive, MinePoints,
         GuardPoints, Ids
<1> QED
  BY <1>1, TokenInvariant, PTL

\* No path out of the protocol abandons a PENDING or GRANTED mailbox.
THEOREM TokenMailboxOwned == Spec => []MailboxOwned
<1>1. IndInv => MailboxOwned
  BY Zenon DEF IndInv, Posted, MailboxOwned, PostedPoints, MinePoints, GuardPoints
<1> QED
  BY <1>1, TokenInvariant, PTL

-----------------------------------------------------------------------------
(***************************************************************************)
(* The wake inbox strands nothing, for any number of slots, words and      *)
(* producers, and its steps are steps of the abstract mailbox.             *)
(***************************************************************************)

Sending == ipi \/ \E p \in Producers : phase[p] \in {"arm", "ipi"}
Interrupting == ipi \/ \E p \in Producers : phase[p] = "ipi"

\* Between drains a set summary bit has an interrupt coming; during the
\* re-check that holds of the summary words already found clear.
SummaryOwed ==
    /\ at = "run" => (summary # {} => Sending)
    /\ at = "recheck" => \A w \in summary : SummaryOf[w] < next => Sending
\* From the disarm on, only a producer that will interrupt can have armed.
ArmedOwed == at \in {"run", "recheck", "rearm"} /\ armed => Interrupting
\* What the drain holds it holds only while it works on it.
DrainLocal == /\ todo # {} => at = "consume"
              /\ dirty # {} => at \in {"word", "consume"}

IInv == InboxTypeOK /\ SummaryOwed /\ ArmedOwed /\ BitNotStranded /\ DrainLocal

\* Slots lie in words and words in summaries that exist.
LEMMA Layout == /\ Summaries \in Nat
                /\ 0 \in 0 .. Summaries
                /\ \A s \in Slots : WordOf[s] \in Words
                /\ \A w \in Words : SummaryOf[w] \in 0 .. Summaries - 1
BY LayoutAssumption DEF Words, SummaryIndex

\* An empty mailbox satisfies the invariant.
LEMMA InitIInv == InboxInit => IInv
<1> SUFFICES ASSUME InboxInit PROVE IInv
  BY Zenon
<1>1. InboxTypeOK
  BY Layout, Zenon DEF InboxInit, InboxTypeOK
<1>2. SummaryOwed /\ ArmedOwed /\ DrainLocal /\ BitNotStranded
  BY Zenon DEF InboxInit, SummaryOwed, ArmedOwed, DrainLocal, BitNotStranded
<1> QED BY <1>1, <1>2, Zenon DEF IInv

\* Every step of a producer or of the owner keeps the types.
LEMMA TypeStep == ASSUME InboxTypeOK, [InboxNext]_inboxVars PROVE InboxTypeOK'
<1> USE DEF InboxTypeOK, bits, drain
<1>1. ASSUME NEW p \in Producers, Begin(p) PROVE InboxTypeOK'
  BY <1>1, Zenon DEF Begin, Goto
<1>2. ASSUME NEW p \in Producers, Produce(p) PROVE InboxTypeOK'
  <2>1. CASE SetWord(p)
    BY <2>1, Zenon DEF SetWord, Goto
  <2>2. CASE SetSummary(p)
    BY <2>2, Layout, Zenon DEF SetSummary, Goto
  <2>3. CASE Arm(p) \/ SendIpi(p)
    BY <2>3, Zenon DEF Arm, SendIpi, Goto
  <2> QED BY <1>2, <2>1, <2>2, <2>3, Zenon DEF Produce
<1>3. ASSUME Reschedule \/ TimerTick PROVE InboxTypeOK'
  BY <1>3, Layout, Zenon DEF Reschedule, TimerTick
<1>4. ASSUME TakeSummary PROVE InboxTypeOK'
  BY <1>4, Layout DEF TakeSummary
<1>5. ASSUME TakeWord PROVE InboxTypeOK'
  <2>1. words' \in SUBSET Slots /\ todo' \in SUBSET Slots /\ dirty' \in SUBSET Words
    BY <1>5, Zenon DEF TakeWord
  <2> QED BY <1>5, <2>1, Zenon DEF TakeWord
<1>6. ASSUME Consume \/ Disarm \/ Recheck \/ Rearm PROVE InboxTypeOK'
  <2>1. CASE Consume
    BY <2>1, Zenon DEF Consume
  <2>2. CASE Disarm \/ Rearm
    BY <2>2, Layout, Zenon DEF Disarm, Rearm
  <2>3. CASE Recheck
    BY <2>3, Layout DEF Recheck
  <2> QED BY <1>6, <2>1, <2>2, <2>3, Zenon
<1>7. CASE UNCHANGED inboxVars
  BY <1>7, Zenon DEF inboxVars
<1> QED BY <1>1, <1>2, <1>3, <1>4, <1>5, <1>6, <1>7, Zenon DEF InboxNext, Handler

\* The promises that depend on the owner's program point.
LEMMA OwedStep == ASSUME IInv, [InboxNext]_inboxVars PROVE (SummaryOwed /\ ArmedOwed /\ DrainLocal)'
<1> USE DEF IInv, InboxTypeOK, SummaryOwed, ArmedOwed, DrainLocal, Sending, Interrupting, bits, drain
<1>1. ASSUME NEW p \in Producers, Begin(p) PROVE (SummaryOwed /\ ArmedOwed /\ DrainLocal)'
  BY <1>1, Zenon DEF Begin, Goto
<1>2. ASSUME NEW p \in Producers, SetWord(p) \/ SetSummary(p) \/ SendIpi(p)
      PROVE (SummaryOwed /\ ArmedOwed /\ DrainLocal)'
  BY <1>2, Layout DEF SetWord, SetSummary, SendIpi, Goto
<1>3. ASSUME NEW p \in Producers, Arm(p) PROVE (SummaryOwed /\ ArmedOwed /\ DrainLocal)'
  BY <1>3, Zenon DEF Arm, Goto
<1>4. ASSUME Reschedule \/ TimerTick \/ TakeSummary PROVE (SummaryOwed /\ ArmedOwed /\ DrainLocal)'
  BY <1>4, Zenon DEF Reschedule, TimerTick, TakeSummary
<1>5. ASSUME TakeWord \/ Consume \/ Disarm PROVE (SummaryOwed /\ ArmedOwed /\ DrainLocal)'
  <2>1. CASE TakeWord
    BY <2>1, Zenon DEF TakeWord
  <2>2. CASE Consume
    BY <2>2, Zenon DEF Consume
  <2>3. CASE Disarm
    <3>1. \A w \in summary : ~(SummaryOf[w] < 0)
      BY Layout
    <3> QED BY <2>3, <3>1, Zenon DEF Disarm
  <2> QED BY <1>5, <2>1, <2>2, <2>3, Zenon
<1>6. ASSUME Recheck PROVE (SummaryOwed /\ ArmedOwed /\ DrainLocal)'
  <2>1. \A w \in summary : SummaryOf[w] \in 0 .. Summaries - 1
    BY Layout, Zenon
  <2>2. CASE next = Summaries
    <3>1. at' = "run" /\ UNCHANGED <<summary, armed, ipi, phase, dirty, todo>>
      BY <1>6, <2>2 DEF Recheck
    <3>2. \A w \in summary : SummaryOf[w] < next
      BY <2>1, <2>2
    <3> QED BY <1>6, <3>1, <3>2 DEF Recheck
  <2>3. CASE next # Summaries /\ at' = "rearm"
    BY <1>6, <2>3, Zenon DEF Recheck
  <2>4. CASE next # Summaries /\ at' # "rearm"
    <3>1. UNCHANGED <<at, summary, armed, ipi, phase, dirty, todo>> /\ next' = next + 1
          /\ \A w \in summary : SummaryOf[w] # next
      BY <1>6, <2>4, Zenon DEF Recheck
    <3>2. \A w \in summary : SummaryOf[w] < next' => SummaryOf[w] < next
      BY <2>1, <3>1
    <3> QED BY <1>6, <3>1, <3>2 DEF Recheck
  <2> QED BY <2>2, <2>3, <2>4, Zenon
<1>7. ASSUME Rearm PROVE (SummaryOwed /\ ArmedOwed /\ DrainLocal)'
  BY <1>7, Zenon DEF Rearm
<1>8. CASE UNCHANGED inboxVars
  BY <1>8, Zenon DEF inboxVars
<1> QED BY <1>1, <1>2, <1>3, <1>4, <1>5, <1>6, <1>7, <1>8, Zenon DEF InboxNext, Handler, Produce

\* A bit set by a producer stays announced until the owner takes it.
LEMMA BitStep == ASSUME IInv, [InboxNext]_inboxVars PROVE BitNotStranded'
<1> USE DEF IInv, InboxTypeOK, BitNotStranded, bits, drain
<1>1. ASSUME NEW p \in Producers, Begin(p) \/ SetWord(p) PROVE BitNotStranded'
  <2>1. CASE Begin(p)
    BY <2>1 DEF Begin, Goto
  <2>2. CASE SetWord(p)
    <3>1. phase'[p] = "summary" /\ \A q \in Producers : phase[q] = "summary" => phase'[q] = "summary"
      BY <2>2, Zenon DEF SetWord, Goto
    <3> QED BY <2>2, <3>1 DEF SetWord
  <2> QED BY <1>1, <2>1, <2>2, Zenon
<1>2. ASSUME NEW p \in Producers, SetSummary(p) PROVE BitNotStranded'
  BY <1>2, Zenon DEF SetSummary, Goto
<1>3. ASSUME NEW p \in Producers, Arm(p) \/ SendIpi(p) PROVE BitNotStranded'
  BY <1>3 DEF Arm, SendIpi, Goto
<1>4. ASSUME TakeSummary PROVE BitNotStranded'
  BY <1>4, Zenon DEF TakeSummary, DrainLocal
<1>5. ASSUME TakeWord PROVE BitNotStranded'
  <2>1. CASE words' = words /\ dirty' = dirty
    BY <1>5, <2>1, Zenon DEF TakeWord
  <2>2. ASSUME NEW w \in dirty, words' = {s \in words : WordOf[s] # w}, dirty' = dirty \ {w}
        PROVE BitNotStranded'
    <3>1. UNCHANGED <<summary, phase, slot>>
      BY <1>5, Zenon DEF TakeWord
    <3> QED BY <2>2, <3>1, Zenon
  <2> QED BY <1>5, <2>1, <2>2, Zenon DEF TakeWord
<1>6. ASSUME Reschedule \/ TimerTick \/ Consume \/ Disarm \/ Recheck \/ Rearm PROVE BitNotStranded'
  BY <1>6, Zenon DEF Reschedule, TimerTick, Consume, Disarm, Recheck, Rearm
<1>7. CASE UNCHANGED inboxVars
  BY <1>7, Zenon DEF inboxVars
<1> QED BY <1>1, <1>2, <1>3, <1>4, <1>5, <1>6, <1>7, Zenon DEF InboxNext, Handler, Produce

\* The invariant of the task inbox holds of every reachable state.
LEMMA Inductive == InboxSpec => []IInv
<1>1. IInv /\ [InboxNext]_inboxVars => IInv'
  BY TypeStep, OwedStep, BitStep, Zenon DEF IInv
<1> QED BY InitIInv, <1>1, PTL DEF InboxSpec

-----------------------------------------------------------------------------
\* Bits, producers and the drain's program point keep their types; the drain
\* never looks beyond the last summary word.
THEOREM InboxTypeCorrect == InboxSpec => []InboxTypeOK
BY Inductive, PTL DEF IInv

\* TaskInbox::drain leaves no summary bit behind: whenever one is set the owner
\* is draining or an interrupt is coming.
THEOREM SummariesReachOwner == InboxSpec => []SummaryNotStranded
<1>1. IInv => SummaryNotStranded
  BY Zenon DEF IInv, InboxTypeOK, SummaryOwed, SummaryNotStranded, Draining, Sending
<1> QED BY Inductive, <1>1, PTL

\* A task bit that TaskInbox::publish set is found through the summary.
THEOREM BitsReachSummary == InboxSpec => []BitNotStranded
BY Inductive, PTL DEF IInv

\* A producer that TaskInbox::publish tells not to interrupt may rely on the
\* interrupt of the one that armed the inbox.
THEOREM ArmedIsOwed == InboxSpec => []ArmedWhenOwed
<1>1. IInv => ArmedWhenOwed
  BY Zenon DEF IInv, InboxTypeOK, ArmedOwed, ArmedWhenOwed, Draining, Interrupting
<1> QED BY Inductive, <1>1, PTL

\* Every step of publish and drain is a step of the abstract mailbox: a slot is
\* handled only if it was posted, and no step loses one.
THEOREM InboxIsMailboxSafety == InboxSpec => M!Init /\ [][M!Next]_<<words, todo>>
<1>1. InboxInit => M!Init
  BY Zenon DEF InboxInit, M!Init
<1>2. IInv /\ [InboxNext]_inboxVars => [M!Next]_<<words, todo>>
  <2> SUFFICES ASSUME IInv, [InboxNext]_inboxVars PROVE [M!Next]_<<words, todo>>
    BY Zenon
  <2> USE DEF IInv, InboxTypeOK, bits, drain
  <2>1. ASSUME NEW p \in Producers, SetWord(p) PROVE M!Next
    BY <2>1, Zenon DEF SetWord, M!Next, M!Post
  <2>2. ASSUME TakeWord PROVE [M!Next]_<<words, todo>>
    <3>1. CASE dirty = {}
      BY <2>2, <3>1, Zenon DEF TakeWord
    <3>2. CASE dirty # {}
      <4>1. PICK w \in dirty : /\ todo' = {s \in words : WordOf[s] = w}
                               /\ words' = {s \in words : WordOf[s] # w}
        BY <2>2, <3>2, Zenon DEF TakeWord
      <4>2. todo = {}
        BY <2>2, Zenon DEF TakeWord, DrainLocal
      <4>3. CASE todo' = {}
        BY <4>1, <4>2, <4>3, Zenon
      <4>4. CASE todo' # {}
        <5>1. PICK s \in todo' : TRUE
          BY <4>4, Zenon
        <5>2. s \in Slots /\ todo' \in SUBSET words /\ words' = words \ todo'
          BY <4>1, <5>1, Zenon
        <5> QED BY <4>2, <5>1, <5>2, Zenon DEF M!Next, M!TakeWith, M!Take
      <4> QED BY <4>3, <4>4, Zenon
    <3> QED BY <3>1, <3>2, Zenon
  <2>3. ASSUME Consume PROVE [M!Next]_<<words, todo>>
    BY <2>3, Zenon DEF Consume, M!Next, M!Handle
  <2>4. ASSUME NEW p \in Producers, Begin(p) \/ SetSummary(p) \/ Arm(p) \/ SendIpi(p)
        PROVE UNCHANGED <<words, todo>>
    BY <2>4, Zenon DEF Begin, SetSummary, Arm, SendIpi
  <2>5. ASSUME Reschedule \/ TimerTick \/ TakeSummary \/ Disarm \/ Recheck \/ Rearm
        PROVE UNCHANGED <<words, todo>>
    BY <2>5, Zenon DEF Reschedule, TimerTick, TakeSummary, Disarm, Recheck, Rearm
  <2>6. CASE UNCHANGED inboxVars
    BY <2>6, Zenon DEF inboxVars
  <2> QED BY <2>1, <2>2, <2>3, <2>4, <2>5, <2>6, Zenon DEF InboxNext, Handler, Produce
<1> QED BY Inductive, <1>1, <1>2, PTL DEF InboxSpec

-----------------------------------------------------------------------------
(* IrqRouting *)

Entry == [vec : Vectors \cup {0}, dest : OnlineCpus \cup {0}, masked : BOOLEAN]
EventKeys == {"none", "legacy1"} \cup {KeysOf[o][1] : o \in IrqObjs} \cup {KeysOf[o][2] : o \in IrqObjs}
Route == [valid : {TRUE}, entry : Entry, refs : Nat, permanent : BOOLEAN, inService : BOOLEAN,
          acks : Nat, manual : BOOLEAN, events : EventKeys \X EventKeys]
Object == [bound : BOOLEAN, active : BOOLEAN, ackReq : BOOLEAN, pending : 0..AckModulus - 1]

IrqType ==
    /\ pins \in [Gsis -> Entry] /\ health \in [Gsis -> {"good", "stuck", "mended"}]
    /\ routes \in [Gsis -> Route \cup {Free}]
    /\ vecUsed \in SUBSET Vectors /\ vecEvents \in [Vectors -> EventKeys \X EventKeys]
    /\ obj \in [IrqObjs -> Object]
    /\ binder \in [IrqObjs -> {"idle", "acquire", "routed", "failed"}]
    /\ acker \in [IrqObjs -> {"idle", "ack"}]
    /\ signals \in SUBSET [obj : IrqObjs, needsAck : BOOLEAN] /\ lost \in SUBSET IrqObjs

\* A route has a vector of its own, reserved, under which its events are published.
VectorsOwned ==
    /\ \A g \in Gsis : routes[g].valid =>
           /\ routes[g].entry.vec \in vecUsed
           /\ vecEvents[routes[g].entry.vec] = routes[g].events
    /\ \A g, h \in Gsis :
           routes[g].valid /\ routes[h].valid /\ routes[g].entry.vec = routes[h].entry.vec => g = h

\* Only an owned pin is open, and it delivers the vector of its route.
PinsOwned ==
    \A g \in Gsis : ~pins[g].masked => routes[g].valid /\ routes[g].entry.vec = pins[g].vec

\* The keyboard's route is there for ever, and is the only permanent one; lines are
\* held in service only when level triggered and not permanent.
KeyboardRouted ==
    /\ routes[KeyboardGsi].valid /\ routes[KeyboardGsi].entry.vec = KeyboardVector
    /\ \A g \in Gsis : routes[g].valid =>
           /\ routes[g].permanent <=> g = KeyboardGsi
           /\ routes[g].inService => g \in LevelGsis /\ g # KeyboardGsi

\* What the calls on an Interrupt imply about it.
CallersHold ==
    \A o \in IrqObjs :
        /\ binder[o] # "idle" => obj[o].bound /\ obj[o].active /\ obj[o].ackReq
        /\ obj[o].active => obj[o].bound
        /\ acker[o] = "ack" => binder[o] = "idle" /\ obj[o].active

\* The Interrupt that has the route of g, and what makes it end the service of g.
Drives(o, g) ==
    GsiOf[o] = g /\ (binder[o] = "routed" \/ (binder[o] = "idle" /\ obj[o].active))
Owes(o, g) ==
    \/ obj[o].pending # 0 \/ acker[o] = "ack" \/ o \in lost
    \/ [vec |-> routes[g].entry.vec, begun |-> TRUE] \in entering
    \/ routes[g].manual

\* A working level line has a route exactly while one Interrupt drives it, the register
\* is the record's, and one acknowledgement of that Interrupt ends its service.
LineDriven(g) ==
    /\ routes[g].valid =>
           /\ routes[g].refs = 1
           /\ pins[g].vec = routes[g].entry.vec /\ pins[g].dest = routes[g].entry.dest
           /\ \E o \in IrqObjs : Drives(o, g)
    /\ \A o \in IrqObjs : Drives(o, g) =>
           /\ routes[g].valid /\ routes[g].events = KeysOf[o] /\ obj[o].ackReq
           /\ routes[g].inService => routes[g].acks = 1 /\ Owes(o, g)
    /\ \A o, p \in IrqObjs : Drives(o, g) /\ Drives(p, g) => o = p
    /\ \A o \in IrqObjs : GsiOf[o] = g /\ obj[o].pending = AckModulus - 1 => o \in lost

Working == {g \in LevelGsis \ {KeyboardGsi} : health[g] = "good"}
LinesDriven == \A g \in Working : LineDriven(g)

IrqInv ==
    /\ IrqType /\ VectorsOwned /\ PinsOwned /\ KeyboardRouted /\ CallersHold /\ LinesDriven

\* A record of a redirection entry, and what masking, opening and moving it change.
LEMMA EntryFacts ==
    ASSUME NEW e \in Entry
    PROVE  /\ Masked(e) \in Entry /\ Masked(e).masked
           /\ Masked(e).vec = e.vec /\ Masked(e).dest = e.dest
           /\ [e EXCEPT !.masked = FALSE] \in Entry /\ ~[e EXCEPT !.masked = FALSE].masked
           /\ [e EXCEPT !.masked = FALSE].vec = e.vec /\ [e EXCEPT !.masked = FALSE].dest = e.dest
BY Zenon DEF Entry, Masked

\* Two entries with the same fields are the same entry.
LEMMA EntryEqual ==
    ASSUME NEW e \in Entry, NEW f \in Entry, e.vec = f.vec, e.dest = f.dest, e.masked = f.masked
    PROVE  e = f
BY DEF Entry

\* Counting pending acknowledgements up and down, short of the wrap.
LEMMA CountFacts ==
    ASSUME NEW m \in Nat \ {0}, NEW n \in 0..m - 1
    PROVE  /\ n # 0 => n - 1 \in 0..m - 1
           /\ n # m - 1 => (n + 1) % m = n + 1
OBVIOUS

\* The pairs of event keys that occur.
LEMMA KeysPairs ==
    /\ "none" \in EventKeys /\ NoEvents \in EventKeys \X EventKeys
    /\ <<"legacy1", "none">> \in EventKeys \X EventKeys
    /\ \A o \in IrqObjs : KeysOf[o] \in EventKeys \X EventKeys
<1>1. "none" \in EventKeys /\ "legacy1" \in EventKeys
  BY Zenon DEF EventKeys
<1>2. \A o \in IrqObjs : KeysOf[o][1] \in EventKeys /\ KeysOf[o][2] \in EventKeys
  BY Zenon DEF EventKeys
<1> HIDE DEF EventKeys
<1>3. \A o \in IrqObjs : KeysOf[o] \in EventKeys \X EventKeys
  <2> TAKE o \in IrqObjs
  <2> DEFINE a == KeysOf[o][1]
             b == KeysOf[o][2]
  <2>1. KeysOf[o] = <<a, b>>
    BY IrqAssumption, Zenon
  <2>2. a \in EventKeys /\ b \in EventKeys
    BY <1>2, Zenon
  <2> HIDE DEF a, b
  <2> QED BY <2>1, <2>2
<1>4. NoEvents \in EventKeys \X EventKeys
  BY <1>1, Zenon DEF NoEvents
<1> QED BY <1>1, <1>3, <1>4, Zenon

\* A valid route is a full record.
LEMMA RouteFacts ==
    ASSUME IrqType, NEW g \in Gsis
    PROVE  /\ routes[g].valid \in BOOLEAN /\ pins[g] \in Entry
           /\ routes[g].valid => /\ routes[g] \in Route
                                 /\ routes[g].entry \in Entry /\ routes[g].refs \in Nat
                                 /\ routes[g].permanent \in BOOLEAN
                                 /\ routes[g].inService \in BOOLEAN /\ routes[g].acks \in Nat
                                 /\ routes[g].manual \in BOOLEAN
           /\ ~routes[g].valid => routes[g] = Free
<1>1. routes[g] \in Route \/ routes[g] = Free
  BY Zenon DEF IrqType
<1>2. pins[g] \in Entry
  BY Zenon DEF IrqType
<1>3. CASE routes[g] \in Route
  BY <1>3, <1>2, Zenon DEF Route
<1>4. CASE routes[g] = Free
  BY <1>4, <1>2 DEF Free
<1> QED BY <1>1, <1>3, <1>4, Zenon

\* A set of numbers that is not empty has a least element.
LEMMA LeastOf ==
    ASSUME NEW S \in SUBSET Nat, S # {}
    PROVE  Min(S) \in S
<1>1. PICK x \in S : \A y \in S : ~(<<y, x>> \in OpToRel(<, Nat))
  BY WFMin, NatLessThanWellFounded, Zenon
<1>2. ASSUME NEW y \in S PROVE x <= y
  <2>1. <<y, x>> \in Nat \X Nat /\ <<y, x>>[1] = y /\ <<y, x>>[2] = x
    BY Zenon
  <2>2. y < x => <<y, x>> \in OpToRel(<, Nat)
    BY <2>1, Zenon DEF OpToRel
  <2>3. ~(y < x)
    BY <1>1, <2>2, Zenon
  <2> QED BY <2>3
<1> QED BY <1>2, Zenon DEF Min

\* VectorAllocator::allocate gives a vector that nobody has.
LEMMA VectorFresh ==
    ASSUME IrqType, ~(Vectors \subseteq vecUsed)
    PROVE  NextVector \in Vectors /\ NextVector \notin vecUsed
<1> DEFINE free == Vectors \ vecUsed
           ahead == {v \in free : v >= vecNext}
<1>1. free \in SUBSET Nat /\ free # {} /\ ahead \in SUBSET free
  BY IrqAssumption, Zenon
<1>2. Min(free) \in free
  BY <1>1, LeastOf, Zenon
<1>3. ahead # {} => Min(ahead) \in ahead
  BY <1>1, LeastOf, Zenon
<1>4. NextVector \in free
  BY <1>1, <1>2, <1>3, Zenon DEF NextVector
<1> QED BY <1>4, Zenon

\* Steps that leave every route its vector and events, and open no pin that has no route.
LEMMA EntriesKept ==
    ASSUME VectorsOwned, PinsOwned, KeyboardRouted, UNCHANGED <<vecUsed, vecEvents>>,
           KeyboardGsi \in Gsis,
           \A h \in Gsis :
               /\ routes'[h].valid = routes[h].valid
               /\ routes[h].valid =>
                      /\ routes'[h].entry.vec = routes[h].entry.vec
                      /\ routes'[h].events = routes[h].events
                      /\ routes'[h].permanent = routes[h].permanent
                      /\ routes'[h].inService =>
                             routes[h].inService \/ (h \in LevelGsis /\ ~routes[h].permanent)
               /\ ~pins'[h].masked => routes[h].valid /\ pins'[h].vec = routes[h].entry.vec
    PROVE  VectorsOwned' /\ PinsOwned' /\ KeyboardRouted'
<1>1. VectorsOwned'
  BY DEF VectorsOwned
<1>2. PinsOwned'
  BY Zenon DEF PinsOwned
<1>3. KeyboardRouted'
  BY Zenon DEF KeyboardRouted
<1> QED BY <1>1, <1>2, <1>3, Zenon

\* Steps that leave a working line to the Interrupt that drives it.
LEMMA LineKept ==
    ASSUME NEW g, LineDriven(g),
           routes'[g].valid = routes[g].valid,
           routes[g].valid =>
               /\ routes'[g].refs = routes[g].refs /\ routes'[g].events = routes[g].events
               /\ pins'[g].vec = routes'[g].entry.vec /\ pins'[g].dest = routes'[g].entry.dest
               /\ routes'[g].inService =>
                      routes'[g].acks = 1 /\ \A o \in IrqObjs : Drives(o, g) => Owes(o, g)',
           \A o \in IrqObjs : GsiOf[o] = g =>
               /\ Drives(o, g)' <=> Drives(o, g)
               /\ Drives(o, g) => (obj[o].ackReq)'
               /\ (obj[o].pending)' = AckModulus - 1 => o \in lost'
    PROVE  LineDriven(g)'
<1>1. \A o \in IrqObjs : Drives(o, g)' <=> Drives(o, g)
  BY Zenon DEF Drives
<1>2. \A o \in IrqObjs : Drives(o, g) => GsiOf[o] = g
  BY Zenon DEF Drives
<1> HIDE DEF Drives, Owes
<1> QED BY <1>1, <1>2, Zenon DEF LineDriven

\* Steps that change only Interrupt objects, their calls and the hardware's lines.
LEMMA ObjectStep ==
    ASSUME IrqInv, UNCHANGED <<pins, routes, vecUsed, vecEvents>>, IrqType', CallersHold',
           \A g \in Gsis : health'[g] = "good" => health[g] = "good",
           \A g \in Working, o \in IrqObjs : GsiOf[o] = g =>
               /\ Drives(o, g)' <=> Drives(o, g)
               /\ Drives(o, g) => (obj[o].ackReq)'
               /\ (obj[o].pending)' = AckModulus - 1 => o \in lost'
               /\ Drives(o, g) /\ routes[g].valid /\ routes[g].inService => Owes(o, g)'
    PROVE  IrqInv'
<1> USE IrqAssumption
<1>1. VectorsOwned' /\ PinsOwned' /\ KeyboardRouted'
  <2>1. VectorsOwned /\ PinsOwned /\ KeyboardRouted
    BY Zenon DEF IrqInv
  <2>2. VectorsOwned'
    BY <2>1, Zenon DEF VectorsOwned
  <2>3. PinsOwned'
    BY <2>1, Zenon DEF PinsOwned
  <2>4. KeyboardRouted'
    BY <2>1, Zenon DEF KeyboardRouted
  <2> QED BY <2>2, <2>3, <2>4, Zenon
<1>2. ASSUME NEW g \in Working' PROVE LineDriven(g)'
  <2>1. g \in Working /\ g \in Gsis
    BY <1>2, Zenon DEF Working
  <2>2. LineDriven(g)
    BY <2>1, Zenon DEF IrqInv, LinesDriven
  <2>3. \A o \in IrqObjs : Drives(o, g) => GsiOf[o] = g
    BY Zenon DEF Drives
  <2>4. routes[g].valid =>
               /\ pins[g].vec = routes[g].entry.vec /\ pins[g].dest = routes[g].entry.dest
               /\ routes[g].inService => routes[g].acks = 1
    <3> HIDE DEF Drives, Owes
    <3> QED BY <2>2, Zenon DEF LineDriven
  <2> HIDE DEF Drives, Owes
  <2>5. routes'[g] = routes[g] /\ pins'[g] = pins[g]
    BY Zenon
  <2>6. \A o \in IrqObjs : GsiOf[o] = g =>
               /\ Drives(o, g)' <=> Drives(o, g)
               /\ Drives(o, g) => (obj[o].ackReq)'
               /\ (obj[o].pending)' = AckModulus - 1 => o \in lost'
    BY <2>1, Zenon
  <2>7. routes[g].valid /\ routes[g].inService => \A o \in IrqObjs : Drives(o, g) => Owes(o, g)'
    BY <2>1, <2>3, Zenon
  <2> QED BY <2>2, <2>4, <2>5, <2>6, <2>7, LineKept, Zenon
<1> QED BY <1>1, <1>2, Zenon DEF IrqInv, LinesDriven

\* What the invariant says about one Interrupt on a working line.
LEMMA DriverFacts ==
    ASSUME IrqInv, NEW g \in Working, NEW p \in IrqObjs, GsiOf[p] = g
    PROVE  /\ Drives(p, g) => obj[p].ackReq /\ routes[g].valid /\ routes[g].events = KeysOf[p]
           /\ obj[p].pending = AckModulus - 1 => p \in lost
           /\ Drives(p, g) /\ routes[g].valid /\ routes[g].inService => Owes(p, g)
<1>1. LineDriven(g)
  BY Zenon DEF IrqInv, LinesDriven
<1> HIDE DEF Drives, Owes
<1> QED BY <1>1, Zenon DEF LineDriven

\* bind_port leaves a route that is there to the Interrupt that drives it.
LEMMA BindPortStep ==
    ASSUME IrqInv, NEW o \in IrqObjs, BindPort(o)
    PROVE  IrqInv'
<1> USE IrqAssumption
<1>1. IrqType /\ CallersHold
  BY Zenon DEF IrqInv
<1>2. obj[o] \in Object /\ obj \in [IrqObjs -> Object]
  BY <1>1, Zenon DEF IrqType
<1>3. /\ obj' \in [IrqObjs -> Object] /\ \A p \in IrqObjs : p # o => obj'[p] = obj[p]
      /\ obj'[o].bound /\ obj'[o].active /\ obj'[o].pending = obj[o].pending
      /\ obj'[o].ackReq = IF obj[o].active THEN obj[o].ackReq ELSE TRUE
  BY <1>2, Zenon DEF BindPort, Object
<1>4. /\ binder[o] = "idle" /\ binder'[o] = IF obj[o].active THEN "idle" ELSE "acquire"
      /\ \A p \in IrqObjs : p # o => binder'[p] = binder[p]
      /\ binder' \in [IrqObjs -> {"idle", "acquire", "routed", "failed"}]
  BY <1>1, Zenon DEF BindPort, IrqType
<1>5. UNCHANGED <<pins, routes, vecUsed, vecEvents, health, entering, acker, signals, lost>>
  BY Zenon DEF BindPort, hardware
<1>6. IrqType'
  BY <1>1, <1>3, <1>4, <1>5, Zenon DEF IrqType
<1>7. CallersHold'
  BY <1>1, <1>3, <1>4, <1>5, Zenon DEF CallersHold
<1>8. ASSUME NEW g \in Working, NEW p \in IrqObjs, GsiOf[p] = g
      PROVE  /\ Drives(p, g)' <=> Drives(p, g)
             /\ Drives(p, g) => (obj[p].ackReq)'
             /\ (obj[p].pending)' = AckModulus - 1 => p \in lost'
             /\ Drives(p, g) /\ routes[g].valid /\ routes[g].inService => Owes(p, g)'
  <2>2. /\ Drives(p, g) => obj[p].ackReq
        /\ obj[p].pending = AckModulus - 1 => p \in lost
        /\ Drives(p, g) /\ routes[g].valid /\ routes[g].inService => Owes(p, g)
    BY <1>8, DriverFacts, Zenon
  <2>3. Drives(p, g)' <=> Drives(p, g)
    BY <1>3, <1>4, Zenon DEF Drives
  <2>4. obj'[p].pending = obj[p].pending /\ (obj[p].ackReq => obj'[p].ackReq)
    BY <1>3, Zenon
  <2>5. Owes(p, g) => Owes(p, g)'
    BY <1>5, <2>4, Zenon DEF Owes
  <2> QED BY <1>5, <2>2, <2>3, <2>4, <2>5, Zenon
<1> QED BY <1>5, <1>6, <1>7, <1>8, ObjectStep, Zenon

\* The end of bind_port: the Interrupt keeps the route it got, and knows that it must
\* acknowledge a level line.
LEMMA BindDoneStep ==
    ASSUME IrqInv, NEW o \in IrqObjs, BindDone(o)
    PROVE  IrqInv'
<1> USE IrqAssumption
<1>1. IrqType /\ CallersHold /\ VectorsOwned /\ KeyboardRouted
  BY Zenon DEF IrqInv
<1>2. obj[o] \in Object /\ obj \in [IrqObjs -> Object]
  BY <1>1, Zenon DEF IrqType
<1> DEFINE ok == binder[o] = "routed"
           needsAck == GsiOf[o] \in LevelGsis /\ routes[GsiOf[o]].entry.vec # KeyboardVector
<1>3. /\ obj' \in [IrqObjs -> Object] /\ \A p \in IrqObjs : p # o => obj'[p] = obj[p]
      /\ obj'[o].bound = obj[o].bound /\ obj'[o].active = ok /\ obj'[o].pending = obj[o].pending
      /\ obj'[o].ackReq = (ok /\ needsAck)
  <2>1. obj' = [obj EXCEPT ![o].active = ok, ![o].ackReq = ok /\ needsAck]
    BY Zenon DEF BindDone
  <2>2. ok \in BOOLEAN /\ (ok /\ needsAck) \in BOOLEAN
    BY Zenon
  <2> HIDE DEF ok, needsAck
  <2> QED BY <1>2, <2>1, <2>2, Zenon DEF Object
<1>4. /\ binder[o] \in {"routed", "failed"} /\ binder'[o] = "idle"
      /\ \A p \in IrqObjs : p # o => binder'[p] = binder[p]
      /\ binder' \in [IrqObjs -> {"idle", "acquire", "routed", "failed"}]
  BY <1>1, Zenon DEF BindDone, IrqType
<1>5. UNCHANGED <<pins, routes, vecUsed, vecEvents, health, entering, acker, signals, lost>>
  BY Zenon DEF BindDone, hardware
<1>6. IrqType'
  BY <1>1, <1>3, <1>4, <1>5, Zenon DEF IrqType
<1>7. CallersHold'
  BY <1>1, <1>3, <1>4, <1>5, Zenon DEF CallersHold
<1>8. ASSUME NEW g \in Working, NEW p \in IrqObjs, GsiOf[p] = g
      PROVE  /\ Drives(p, g)' <=> Drives(p, g)
             /\ Drives(p, g) => (obj[p].ackReq)'
             /\ (obj[p].pending)' = AckModulus - 1 => p \in lost'
             /\ Drives(p, g) /\ routes[g].valid /\ routes[g].inService => Owes(p, g)'
  <2>1. /\ Drives(p, g) => obj[p].ackReq /\ routes[g].valid
        /\ obj[p].pending = AckModulus - 1 => p \in lost
        /\ Drives(p, g) /\ routes[g].valid /\ routes[g].inService => Owes(p, g)
    BY <1>8, DriverFacts, Zenon
  <2>2. g \in LevelGsis /\ g # KeyboardGsi /\ g \in Gsis
    BY Zenon DEF Working
  <2>3. routes[g].valid => routes[g].entry.vec # KeyboardVector
    BY <1>1, <2>2, Zenon DEF VectorsOwned, KeyboardRouted
  <2>4. Drives(p, g)' <=> Drives(p, g)
    BY <1>3, <1>4, Zenon DEF Drives
  <2>5. obj'[p].pending = obj[p].pending
    BY <1>3, Zenon
  <2>6. Drives(p, g) => obj'[p].ackReq
    BY <1>3, <1>4, <1>8, <2>1, <2>2, <2>3, Zenon DEF Drives
  <2>7. Owes(p, g) => Owes(p, g)'
    BY <1>5, <2>5, Zenon DEF Owes
  <2> QED BY <1>5, <2>1, <2>4, <2>5, <2>6, <2>7, Zenon
<1> QED BY <1>5, <1>6, <1>7, <1>8, ObjectStep, Zenon

\* Interrupt::acknowledge takes a pending count and gives the acknowledgement.
LEMMA AcknowledgeStep ==
    ASSUME IrqInv, NEW o \in IrqObjs, Acknowledge(o)
    PROVE  IrqInv'
<1> USE IrqAssumption
<1>1. IrqType /\ CallersHold
  BY Zenon DEF IrqInv
<1>2. obj[o] \in Object /\ obj \in [IrqObjs -> Object] /\ obj[o].pending \in 0..AckModulus - 1
  BY <1>1, Zenon DEF IrqType, Object
<1>3. /\ obj' \in [IrqObjs -> Object] /\ \A p \in IrqObjs : p # o => obj'[p] = obj[p]
      /\ obj'[o].bound = obj[o].bound /\ obj'[o].active = obj[o].active
      /\ obj'[o].ackReq = obj[o].ackReq /\ obj'[o].pending = obj[o].pending - 1
  <2>1. obj' = [obj EXCEPT ![o].pending = @ - 1] /\ obj[o].pending # 0
    BY Zenon DEF Acknowledge
  <2>2. obj[o].pending - 1 \in 0..AckModulus - 1
    BY <1>2, <2>1, CountFacts, Zenon
  <2> QED BY <1>2, <2>1, <2>2, Zenon DEF Object
<1>4. /\ acker'[o] = "ack" /\ binder[o] = "idle" /\ obj[o].active
      /\ \A p \in IrqObjs : p # o => acker'[p] = acker[p]
      /\ acker' \in [IrqObjs -> {"idle", "ack"}]
  BY <1>1, Zenon DEF Acknowledge, IrqType
<1>5. UNCHANGED <<pins, routes, vecUsed, vecEvents, health, entering, binder, signals, lost>>
  BY Zenon DEF Acknowledge, hardware
<1>6. IrqType'
  BY <1>1, <1>3, <1>4, <1>5, Zenon DEF IrqType
<1>7. CallersHold'
  BY <1>1, <1>3, <1>4, <1>5, Zenon DEF CallersHold
<1>8. ASSUME NEW g \in Working, NEW p \in IrqObjs, GsiOf[p] = g
      PROVE  /\ Drives(p, g)' <=> Drives(p, g)
             /\ Drives(p, g) => (obj[p].ackReq)'
             /\ (obj[p].pending)' = AckModulus - 1 => p \in lost'
             /\ Drives(p, g) /\ routes[g].valid /\ routes[g].inService => Owes(p, g)'
  <2>1. /\ Drives(p, g) => obj[p].ackReq
        /\ obj[p].pending = AckModulus - 1 => p \in lost
        /\ Drives(p, g) /\ routes[g].valid /\ routes[g].inService => Owes(p, g)
    BY <1>8, DriverFacts, Zenon
  <2>2. Drives(p, g)' <=> Drives(p, g)
    BY <1>3, <1>5, Zenon DEF Drives
  <2>3. obj'[p].ackReq = obj[p].ackReq /\ (obj'[p].pending = AckModulus - 1 => p # o)
    BY <1>2, <1>3
  <2>4. obj'[p].pending = AckModulus - 1 => p \in lost'
    BY <1>3, <1>5, <2>1, <2>3, Zenon
  <2>5. Owes(p, g) => Owes(p, g)'
    BY <1>3, <1>4, <1>5, Zenon DEF Owes
  <2> QED BY <2>1, <2>2, <2>3, <2>4, <2>5, Zenon
<1> QED BY <1>5, <1>6, <1>7, <1>8, ObjectStep, Zenon

\* handle_irq counts an acknowledgement for the Interrupt that drives the line.
LEMMA DispatchStep ==
    ASSUME IrqInv, NEW v \in Vectors, Dispatch(v)
    PROVE  IrqInv'
<1> USE IrqAssumption
<1>1. IrqType /\ CallersHold /\ VectorsOwned
  BY Zenon DEF IrqInv
<1> DEFINE keys == {vecEvents[v][1], vecEvents[v][2]} \ {"none"}
           to == {o \in IrqObjs : obj[o].bound /\ KeysOf[o][1] \in keys}
           needs(o) == obj[o].active /\ obj[o].ackReq
<1>2. \A p \in IrqObjs : obj[p] \in Object /\ obj[p].pending \in 0..AckModulus - 1
  BY <1>1, Zenon DEF IrqType, Object
<1>3. /\ \A p \in to : obj[p].pending # AckModulus - 2
      /\ entering' = entering \ {[vec |-> v, begun |-> TRUE]}
      /\ signals' = signals \cup {[obj |-> o, needsAck |-> needs(o)] : o \in to}
      /\ obj' = [o \in IrqObjs |-> IF o \in to /\ needs(o)
                                   THEN [obj[o] EXCEPT !.pending = (@ + 1) % AckModulus] ELSE obj[o]]
  BY Zenon DEF Dispatch
<1>4. UNCHANGED <<pins, routes, vecUsed, vecEvents, health, binder, acker, lost>>
  BY Zenon DEF Dispatch, hardware
<1>5. signals' \in SUBSET [obj : IrqObjs, needsAck : BOOLEAN]
  <2>1. \A o \in to : [obj |-> o, needsAck |-> needs(o)] \in [obj : IrqObjs, needsAck : BOOLEAN]
    BY Zenon
  <2> HIDE DEF to, needs
  <2> QED BY <1>1, <1>3, <2>1 DEF IrqType
<1>6. ASSUME NEW p \in IrqObjs
      PROVE  /\ obj'[p] \in Object /\ obj'[p].bound = obj[p].bound
             /\ obj'[p].active = obj[p].active /\ obj'[p].ackReq = obj[p].ackReq
             /\ obj'[p].pending = IF p \in to /\ needs(p) THEN (obj[p].pending + 1) % AckModulus
                                  ELSE obj[p].pending
  <2> HIDE DEF to, needs
  <2>1. (obj[p].pending + 1) % AckModulus \in 0..AckModulus - 1
    BY <1>2
  <2>2. obj'[p] = IF p \in to /\ needs(p)
                  THEN [obj[p] EXCEPT !.pending = (@ + 1) % AckModulus] ELSE obj[p]
    BY <1>3, Zenon
  <2> QED BY <1>2, <2>1, <2>2, Zenon DEF Object
<1>7. IrqType'
  <2>1. obj' \in [IrqObjs -> Object]
    <3>1. obj' = [o \in IrqObjs |-> obj'[o]]
      BY <1>3, Zenon
    <3> QED BY <1>6, <3>1, Zenon
  <2> QED BY <1>1, <1>4, <1>5, <2>1, Zenon DEF IrqType
<1>8. CallersHold'
  BY <1>1, <1>4, <1>6, Zenon DEF CallersHold
<1>9. ASSUME NEW g \in Working, NEW p \in IrqObjs, GsiOf[p] = g
      PROVE  /\ Drives(p, g)' <=> Drives(p, g)
             /\ Drives(p, g) => (obj[p].ackReq)'
             /\ (obj[p].pending)' = AckModulus - 1 => p \in lost'
             /\ Drives(p, g) /\ routes[g].valid /\ routes[g].inService => Owes(p, g)'
  <2>1. /\ Drives(p, g) => obj[p].ackReq /\ routes[g].valid /\ routes[g].events = KeysOf[p]
        /\ obj[p].pending = AckModulus - 1 => p \in lost
        /\ Drives(p, g) /\ routes[g].valid /\ routes[g].inService => Owes(p, g)
    BY <1>9, DriverFacts, Zenon
  <2>2. Drives(p, g)' <=> Drives(p, g)
    BY <1>4, <1>6, Zenon DEF Drives
  <2>3. p \in lost \/ (/\ obj'[p].pending # AckModulus - 1
                       /\ p \in to /\ needs(p) => obj'[p].pending # 0
                       /\ obj[p].pending # 0 => obj'[p].pending # 0)
    <3>1. p \in to => obj[p].pending # AckModulus - 2
      BY <1>3, Zenon
    <3> HIDE DEF to, needs
    <3>2. CASE p \in to /\ needs(p) /\ p \notin lost
      <4>1. obj[p].pending + 1 \in 1..AckModulus - 2
        BY <1>2, <2>1, <3>1, <3>2
      <4>2. (obj[p].pending + 1) % AckModulus = obj[p].pending + 1
        BY <1>2, <2>1, <3>1, <3>2, CountFacts, Zenon
      <4> QED BY <1>6, <3>2, <4>1, <4>2
    <3>3. CASE ~(p \in to /\ needs(p)) /\ p \notin lost
      BY <1>6, <2>1, <3>3, Zenon
    <3> QED BY <3>2, <3>3, Zenon
  <2>4. ASSUME Drives(p, g), routes[g].inService PROVE Owes(p, g)'
    <3>1. CASE routes[g].entry.vec = v
      <4>1. vecEvents[v] = KeysOf[p]
        BY <1>1, <2>1, <2>4, <3>1, Zenon DEF VectorsOwned, Working
      <4>2. KeysOf[p][1] # "none" /\ obj[p].active /\ obj[p].bound
        BY <1>1, <2>4, Zenon DEF CallersHold, Drives
      <4>3. p \in to /\ needs(p)
        BY <2>1, <2>4, <4>1, <4>2, Zenon
      <4> HIDE DEF to, needs
      <4> QED BY <1>4, <2>3, <4>3, Zenon DEF Owes
    <3>2. CASE routes[g].entry.vec # v
      <4>1. [vec |-> routes[g].entry.vec, begun |-> TRUE] # [vec |-> v, begun |-> TRUE]
        BY <3>2, Zenon
      <4>2. [vec |-> routes[g].entry.vec, begun |-> TRUE] \in entering =>
               [vec |-> routes[g].entry.vec, begun |-> TRUE] \in entering'
        BY <1>3, <4>1, Zenon
      <4>3. Owes(p, g)
        BY <2>1, <2>4, Zenon
      <4> HIDE DEF to, needs
      <4> QED BY <1>4, <2>3, <4>2, <4>3, Zenon DEF Owes
    <3> QED BY <3>1, <3>2, Zenon
  <2> QED BY <1>4, <1>6, <2>1, <2>2, <2>3, <2>4, Zenon
<1> QED BY <1>4, <1>7, <1>8, <1>9, ObjectStep, Zenon

\* A packet that meets a full port takes its count back; the loss is on record.
LEMMA QueueSignalStep ==
    ASSUME IrqInv, NEW s \in signals, QueueSignal(s)
    PROVE  IrqInv'
<1> USE IrqAssumption
<1>1. IrqType /\ CallersHold
  BY Zenon DEF IrqInv
<1>2. s.obj \in IrqObjs /\ s.needsAck \in BOOLEAN
  BY <1>1, Zenon DEF IrqType
<1>3. PICK o \in IrqObjs : o = s.obj
  BY <1>2, Zenon
<1>4. obj[o] \in Object /\ obj \in [IrqObjs -> Object] /\ obj[o].pending \in 0..AckModulus - 1
  BY <1>1, Zenon DEF IrqType, Object
<1>5. /\ signals' \in SUBSET [obj : IrqObjs, needsAck : BOOLEAN]
      /\ UNCHANGED <<pins, routes, vecUsed, vecEvents, health, entering, binder, acker>>
  BY <1>1, Zenon DEF QueueSignal, IrqType, hardware
<1>6. /\ obj' \in [IrqObjs -> Object] /\ lost' \in SUBSET IrqObjs /\ lost \subseteq lost'
      /\ \A p \in IrqObjs : /\ obj'[p].bound = obj[p].bound /\ obj'[p].active = obj[p].active
                            /\ obj'[p].ackReq = obj[p].ackReq
                            /\ obj'[p].pending = obj[p].pending \/ p \in lost'
  <2>1. CASE room > 0
    BY <1>1, <2>1, Zenon DEF QueueSignal, IrqType
  <2>2. CASE ~(room > 0)
    <3>1. /\ lost' = IF s.needsAck THEN lost \cup {o} ELSE lost
          /\ obj' = [obj EXCEPT ![o].pending = IF s.needsAck THEN (@ - 1) % AckModulus ELSE @]
      BY <1>3, <2>2, Zenon DEF QueueSignal
    <3>2. (obj[o].pending - 1) % AckModulus \in 0..AckModulus - 1
      BY <1>4
    <3>3. CASE s.needsAck
      BY <1>1, <1>4, <3>1, <3>2, <3>3, Zenon DEF Object, IrqType
    <3>4. CASE ~s.needsAck
      BY <1>1, <1>4, <3>1, <3>4, Zenon DEF Object, IrqType
    <3> QED BY <3>3, <3>4, Zenon
  <2> QED BY <2>1, <2>2, Zenon
<1>7. IrqType'
  BY <1>1, <1>5, <1>6, Zenon DEF IrqType
<1>8. CallersHold'
  BY <1>1, <1>5, <1>6, Zenon DEF CallersHold
<1>9. ASSUME NEW g \in Working, NEW p \in IrqObjs, GsiOf[p] = g
      PROVE  /\ Drives(p, g)' <=> Drives(p, g)
             /\ Drives(p, g) => (obj[p].ackReq)'
             /\ (obj[p].pending)' = AckModulus - 1 => p \in lost'
             /\ Drives(p, g) /\ routes[g].valid /\ routes[g].inService => Owes(p, g)'
  <2>1. /\ Drives(p, g) => obj[p].ackReq
        /\ obj[p].pending = AckModulus - 1 => p \in lost
        /\ Drives(p, g) /\ routes[g].valid /\ routes[g].inService => Owes(p, g)
    BY <1>9, DriverFacts, Zenon
  <2>2. Drives(p, g)' <=> Drives(p, g)
    BY <1>5, <1>6, Zenon DEF Drives
  <2>3. Owes(p, g) => Owes(p, g)'
    BY <1>5, <1>6, Zenon DEF Owes
  <2> QED BY <1>6, <2>1, <2>2, <2>3, Zenon
<1> QED BY <1>5, <1>7, <1>8, <1>9, ObjectStep, Zenon

\* Lines of devices rise, fall, are sent and break; drivers use their port.
LEMMA HardwareStep ==
    ASSUME IrqInv, (\E g \in ActiveGsis : Device(g)) \/ UsePort
    PROVE  IrqInv'
<1> USE IrqAssumption
<1>1. IrqType /\ CallersHold
  BY Zenon DEF IrqInv
<1>2. UNCHANGED <<pins, routes, vecUsed, vecEvents, obj, binder, acker, signals, lost>> \/ UsePort
  BY Zenon DEF Device
<1>3. UNCHANGED <<pins, routes, vecUsed, vecEvents, obj, binder, acker, lost>>
  BY <1>2, Zenon DEF UsePort
<1>4. signals' = signals
  BY <1>2, Zenon DEF UsePort
<1>5. /\ health' \in [Gsis -> {"good", "stuck", "mended"}] /\ entering \subseteq entering'
      /\ \A g \in Gsis : health'[g] = "good" => health[g] = "good"
  <2>1. CASE UsePort
    BY <1>1, <2>1, Zenon DEF UsePort, hardware, IrqType
  <2>2. ASSUME NEW g \in ActiveGsis, Device(g)
        PROVE  /\ health' \in [Gsis -> {"good", "stuck", "mended"}] /\ entering \subseteq entering'
               /\ \A h \in Gsis : health'[h] = "good" => health[h] = "good"
    <3>1. CASE Raise(g) \/ Lower(g)
      BY <1>1, <3>1, Zenon DEF Raise, Lower, IrqType
    <3>2. CASE Send(g)
      BY <1>1, <3>2, Zenon DEF Send, IrqType
    <3>3. CASE Fault(g)
      BY <1>1, <3>3, Zenon DEF Fault, IrqType
    <3> QED BY <2>2, <3>1, <3>2, <3>3, Zenon DEF Device
  <2> QED BY <2>1, <2>2, Zenon
<1>6. IrqType'
  BY <1>1, <1>3, <1>4, <1>5, Zenon DEF IrqType
<1>7. CallersHold'
  BY <1>1, <1>3, Zenon DEF CallersHold
<1>8. ASSUME NEW g \in Working, NEW p \in IrqObjs, GsiOf[p] = g
      PROVE  /\ Drives(p, g)' <=> Drives(p, g)
             /\ Drives(p, g) => (obj[p].ackReq)'
             /\ (obj[p].pending)' = AckModulus - 1 => p \in lost'
             /\ Drives(p, g) /\ routes[g].valid /\ routes[g].inService => Owes(p, g)'
  <2>1. /\ Drives(p, g) => obj[p].ackReq
        /\ obj[p].pending = AckModulus - 1 => p \in lost
        /\ Drives(p, g) /\ routes[g].valid /\ routes[g].inService => Owes(p, g)
    BY <1>8, DriverFacts, Zenon
  <2>2. Drives(p, g)' <=> Drives(p, g)
    BY <1>3, Zenon DEF Drives
  <2>3. Owes(p, g) => Owes(p, g)'
    BY <1>3, <1>5, Zenon DEF Owes
  <2> QED BY <1>3, <2>1, <2>2, <2>3, Zenon
<1> QED BY <1>3, <1>5, <1>6, <1>7, <1>8, ObjectStep, Zenon

\* Steps that change entries, masks and service of routes, but not who has them.
LEMMA RecordStep ==
    ASSUME IrqInv, IrqType', CallersHold', UNCHANGED <<vecUsed, vecEvents, health>>,
           \A h \in Gsis :
               /\ routes'[h].valid = routes[h].valid
               /\ routes[h].valid =>
                      /\ routes'[h].entry.vec = routes[h].entry.vec
                      /\ routes'[h].events = routes[h].events
                      /\ routes'[h].permanent = routes[h].permanent
                      /\ routes'[h].inService =>
                             routes[h].inService \/ (h \in LevelGsis /\ ~routes[h].permanent)
               /\ ~pins'[h].masked => routes[h].valid /\ pins'[h].vec = routes[h].entry.vec,
           \A g \in Working : routes[g].valid =>
               /\ routes'[g].refs = routes[g].refs
               /\ pins'[g].vec = routes'[g].entry.vec /\ pins'[g].dest = routes'[g].entry.dest
               /\ routes'[g].inService =>
                      routes'[g].acks = 1 /\ \A o \in IrqObjs : Drives(o, g) => Owes(o, g)',
           \A g \in Working, o \in IrqObjs : GsiOf[o] = g =>
               /\ Drives(o, g)' <=> Drives(o, g)
               /\ Drives(o, g) => (obj[o].ackReq)'
               /\ (obj[o].pending)' = AckModulus - 1 => o \in lost'
    PROVE  IrqInv'
<1> USE IrqAssumption
<1>1. VectorsOwned' /\ PinsOwned' /\ KeyboardRouted'
  <2>1. VectorsOwned /\ PinsOwned /\ KeyboardRouted
    BY Zenon DEF IrqInv
  <2> QED BY <2>1, EntriesKept, Zenon
<1>2. ASSUME NEW g \in Working' PROVE LineDriven(g)'
  <2>1. g \in Working /\ g \in Gsis
    BY <1>2, Zenon DEF Working
  <2>2. LineDriven(g)
    BY <2>1, Zenon DEF IrqInv, LinesDriven
  <2> HIDE DEF Drives, Owes
  <2>3. /\ routes'[g].valid = routes[g].valid
        /\ routes[g].valid =>
               /\ routes'[g].refs = routes[g].refs /\ routes'[g].events = routes[g].events
               /\ pins'[g].vec = routes'[g].entry.vec /\ pins'[g].dest = routes'[g].entry.dest
               /\ routes'[g].inService =>
                      routes'[g].acks = 1 /\ \A o \in IrqObjs : Drives(o, g) => Owes(o, g)'
    BY <2>1, Zenon
  <2>4. \A o \in IrqObjs : GsiOf[o] = g =>
               /\ Drives(o, g)' <=> Drives(o, g)
               /\ Drives(o, g) => (obj[o].ackReq)'
               /\ (obj[o].pending)' = AckModulus - 1 => o \in lost'
    BY <2>1, Zenon
  <2> QED BY <2>2, <2>3, <2>4, LineKept, Zenon
<1> QED BY <1>1, <1>2, Zenon DEF IrqInv, LinesDriven

\* What the invariant says about the route of a working line.
LEMMA LineFacts ==
    ASSUME IrqInv, NEW g \in Working, routes[g].valid
    PROVE  /\ routes[g].refs = 1
           /\ pins[g].vec = routes[g].entry.vec /\ pins[g].dest = routes[g].entry.dest
           /\ \E o \in IrqObjs : Drives(o, g)
           /\ routes[g].inService =>
                  routes[g].acks = 1 /\ \A o \in IrqObjs : Drives(o, g) => Owes(o, g)
           /\ ~Stuck(g) /\ g \in Gsis /\ g \in LevelGsis /\ g # KeyboardGsi
<1>1. LineDriven(g)
  BY Zenon DEF IrqInv, LinesDriven
<1>2. ~Stuck(g) /\ g \in Gsis /\ g \in LevelGsis /\ g # KeyboardGsi
  BY IrqAssumption, Zenon DEF Working, Stuck
<1> HIDE DEF Drives, Owes
<1> QED BY <1>1, <1>2, Zenon DEF LineDriven

\* The route of g is recorded anew: its vector, its sharers and its events stay.
RouteRewritten(g) ==
    /\ routes[g].valid /\ routes'[g] \in Route
    /\ routes'[g].entry.vec = routes[g].entry.vec /\ routes'[g].refs = routes[g].refs
    /\ routes'[g].events = routes[g].events /\ routes'[g].permanent = routes[g].permanent
    /\ routes' = [h \in Gsis |-> routes'[h]]
    /\ \A h \in Gsis : h # g => routes'[h] = routes[h]
    /\ routes'[g].inService => routes[g].inService \/ (g \in LevelGsis /\ ~routes[g].permanent)
\* The register of its pin is written, and leads to the vector of the route.
PinRewritten(g) ==
    /\ pins' \in [Gsis -> Entry] /\ \A h \in Gsis : h # g => pins'[h] = pins[h]
    /\ pins'[g].masked \/ pins'[g].vec = routes[g].entry.vec
    /\ g \in Working => pins'[g].vec = routes'[g].entry.vec /\ pins'[g].dest = routes'[g].entry.dest
\* A line in service is owed one acknowledgement by its driver.
ServiceOwed(g) ==
    g \in Working /\ routes'[g].inService =>
        routes'[g].acks = 1 /\ \A o \in IrqObjs : Drives(o, g) => Owes(o, g)'
\* The objects of the line keep what ties them to it.
ObjectsTied(g) ==
    /\ \A o \in IrqObjs : GsiOf[o] # g => obj'[o] = obj[o] /\ acker'[o] = acker[o]
    /\ \A o \in IrqObjs : GsiOf[o] = g =>
           /\ obj'[o].bound = obj[o].bound /\ obj'[o].active = obj[o].active
           /\ obj'[o].ackReq = obj[o].ackReq
           /\ g \in Working => obj'[o].pending = obj[o].pending
           /\ acker'[o] = "ack" => acker[o] = "ack"
    /\ obj' \in [IrqObjs -> Object] /\ acker' \in [IrqObjs -> {"idle", "ack"}]

\* Writing the register of one pin and the record of its route.
LEMMA WriteStep ==
    ASSUME IrqInv, NEW g \in Gsis,
           RouteRewritten(g), PinRewritten(g), ServiceOwed(g), ObjectsTied(g),
           entering \subseteq entering',
           UNCHANGED <<vecUsed, vecEvents, health, binder, signals, lost>>
    PROVE  IrqInv'
<1> USE DEF RouteRewritten, PinRewritten, ServiceOwed, ObjectsTied
<1> USE IrqAssumption
<1>1. IrqType /\ CallersHold /\ PinsOwned
  BY Zenon DEF IrqInv
<1>2. routes[g] \in Route
  BY <1>1, RouteFacts, Zenon
<1>3. routes'[g].valid
  BY Zenon DEF Route
<1>4. routes' \in [Gsis -> Route \cup {Free}]
  <2>1. \A h \in Gsis : routes'[h] \in Route \cup {Free}
    BY <1>1, <1>3, Zenon DEF IrqType
  <2> QED BY <2>1, Zenon
<1>5. IrqType'
  BY <1>1, <1>4, Zenon DEF IrqType
<1>6. CallersHold'
  BY <1>1 DEF CallersHold
<1>7. ASSUME NEW h \in Gsis
      PROVE  /\ routes'[h].valid = routes[h].valid
             /\ routes[h].valid =>
                    /\ routes'[h].entry.vec = routes[h].entry.vec
                    /\ routes'[h].events = routes[h].events
                    /\ routes'[h].permanent = routes[h].permanent
                    /\ routes'[h].inService =>
                           routes[h].inService \/ (h \in LevelGsis /\ ~routes[h].permanent)
             /\ ~pins'[h].masked => routes[h].valid /\ pins'[h].vec = routes[h].entry.vec
  <2>1. CASE h = g
    <3>1. routes[g].valid = TRUE
      BY <1>2, Zenon DEF Route
    <3>2. routes'[g].valid = TRUE
      BY <1>3, Zenon DEF Route
    <3> QED BY <1>3, <2>1, <3>1, <3>2, Zenon
  <2>2. CASE h # g
    BY <1>1, <2>2 DEF PinsOwned
  <2> QED BY <2>1, <2>2, Zenon
<1>8. ASSUME NEW h \in Working, routes[h].valid
      PROVE  /\ routes'[h].refs = routes[h].refs
             /\ pins'[h].vec = routes'[h].entry.vec /\ pins'[h].dest = routes'[h].entry.dest
             /\ routes'[h].inService =>
                    routes'[h].acks = 1 /\ \A o \in IrqObjs : Drives(o, h) => Owes(o, h)'
  <2>1. CASE h = g
    <3> HIDE DEF Drives, Owes
    <3> QED BY <1>3, <1>8, <2>1, Zenon
  <2>2. CASE h # g
    <3>1. h \in Gsis
      BY Zenon DEF Working
    <3>2. /\ pins[h].vec = routes[h].entry.vec /\ pins[h].dest = routes[h].entry.dest
          /\ routes[h].inService =>
                 routes[h].acks = 1 /\ \A o \in IrqObjs : Drives(o, h) => Owes(o, h)
      BY <1>8, LineFacts, Zenon
    <3>3. \A o \in IrqObjs : Drives(o, h) /\ Owes(o, h) => Owes(o, h)'
      BY <2>2, <3>1, Zenon DEF Drives, Owes
    <3>4. routes'[h] = routes[h] /\ pins'[h] = pins[h]
      BY <2>2, <3>1, Zenon
    <3> HIDE DEF Drives, Owes
    <3> QED BY <3>2, <3>3, <3>4, Zenon
  <2> QED BY <2>1, <2>2, Zenon
<1>9. ASSUME NEW h \in Working, NEW o \in IrqObjs, GsiOf[o] = h
      PROVE  /\ Drives(o, h)' <=> Drives(o, h)
             /\ Drives(o, h) => (obj[o].ackReq)'
             /\ (obj[o].pending)' = AckModulus - 1 => o \in lost'
  <2>1. /\ Drives(o, h) => obj[o].ackReq
        /\ obj[o].pending = AckModulus - 1 => o \in lost
    BY <1>9, DriverFacts, Zenon
  <2>2. /\ obj'[o].active = obj[o].active /\ obj'[o].ackReq = obj[o].ackReq
        /\ obj'[o].pending = obj[o].pending
    BY <1>9, Zenon
  <2>3. Drives(o, h)' <=> Drives(o, h)
    BY <2>2, Zenon DEF Drives
  <2> QED BY <2>1, <2>2, <2>3, Zenon
<1> QED BY <1>5, <1>6, <1>7, <1>8, <1>9, RecordStep, Zenon

\* Steps of a caller that gives a route another entry, and writes it to the register.
LEMMA EntryStep ==
    ASSUME IrqInv, NEW g \in Gsis, routes[g].valid, NEW x \in Route,
           routes' = [routes EXCEPT ![g] = x],
           pins' = IF Stuck(g) THEN pins ELSE [pins EXCEPT ![g] = x.entry],
           x.entry.vec = routes[g].entry.vec, x.refs = routes[g].refs,
           x.events = routes[g].events, x.permanent = routes[g].permanent,
           x.inService = routes[g].inService, x.acks = routes[g].acks,
           routes[g].inService /\ g \in Working => (routes[g].manual => x.manual),
           UNCHANGED <<vecUsed, vecEvents, health, binder, signals, lost, obj, acker, entering>>
    PROVE  IrqInv'
<1> USE IrqAssumption
<1>1. IrqType /\ PinsOwned
  BY Zenon DEF IrqInv
<1>2. /\ routes'[g] = x /\ \A h \in Gsis : h # g => routes'[h] = routes[h]
      /\ routes' = [h \in Gsis |-> routes'[h]]
  BY <1>1, Zenon DEF IrqType
<1>3. x.entry \in Entry
  BY Zenon DEF Route
<1>4. /\ pins' \in [Gsis -> Entry] /\ \A h \in Gsis : h # g => pins'[h] = pins[h]
      /\ pins'[g] = IF Stuck(g) THEN pins[g] ELSE x.entry
  BY <1>1, <1>3, Zenon DEF IrqType
<1>5. pins'[g].masked \/ pins'[g].vec = routes[g].entry.vec
  BY <1>1, <1>4, Zenon DEF PinsOwned
<1>6. g \in Working => /\ pins'[g].vec = routes'[g].entry.vec
                       /\ pins'[g].dest = routes'[g].entry.dest
                       /\ routes'[g].inService => routes'[g].acks = 1
  BY <1>2, <1>4, LineFacts
<1>7. ASSUME g \in Working, routes'[g].inService, NEW o \in IrqObjs, Drives(o, g)
      PROVE  Owes(o, g)'
  <2>1. Owes(o, g)
    BY <1>2, <1>7, LineFacts, Zenon
  <2> QED BY <1>2, <1>7, <2>1, Zenon DEF Owes
<1>8. obj' \in [IrqObjs -> Object] /\ acker' \in [IrqObjs -> {"idle", "ack"}]
  BY <1>1, Zenon DEF IrqType
<1>9. /\ routes'[g] \in Route /\ routes'[g].entry.vec = routes[g].entry.vec
      /\ routes'[g].refs = routes[g].refs /\ routes'[g].events = routes[g].events
      /\ routes'[g].permanent = routes[g].permanent
      /\ routes'[g].inService => routes[g].inService
  BY <1>2, Zenon
<1>10. \A o \in IrqObjs : obj'[o] = obj[o] /\ acker'[o] = acker[o]
  BY Zenon
<1>11. g \in Working /\ routes'[g].inService =>
           routes'[g].acks = 1 /\ \A o \in IrqObjs : Drives(o, g) => Owes(o, g)'
  BY <1>6, <1>7, Zenon
<1> HIDE DEF Drives, Owes
<1>12. RouteRewritten(g) /\ PinRewritten(g)
  BY <1>2, <1>4, <1>5, <1>6, <1>9, Zenon DEF RouteRewritten, PinRewritten
<1>13. ServiceOwed(g) /\ ObjectsTied(g)
  BY <1>8, <1>10, <1>11, Zenon DEF ServiceOwed, ObjectsTied
<1> QED BY <1>12, <1>13, WriteStep, Zenon

\* mask_gsi.
LEMMA MaskGsiStep ==
    ASSUME IrqInv, NEW g \in Gsis, MaskGsi(g)
    PROVE  IrqInv'
<1>1. IrqType
  BY Zenon DEF IrqInv
<1>2. routes[g].valid /\ routes[g] \in Route /\ routes[g].entry \in Entry
  BY <1>1, RouteFacts, Zenon DEF MaskGsi
<1> DEFINE e == Masked(routes[g].entry)
           x == [routes[g] EXCEPT !.manual = TRUE, !.entry = e]
<1>3. e \in Entry /\ e.vec = routes[g].entry.vec
  BY <1>2, EntryFacts, Zenon
<1>4. pins' = IF Stuck(g) THEN pins ELSE [pins EXCEPT ![g] = e]
  BY Zenon DEF MaskGsi, Wrote
<1>5. routes' = [routes EXCEPT ![g] = x]
  BY Zenon DEF MaskGsi
<1> HIDE DEF e
<1>6. x \in Route
  BY <1>2, <1>3, Zenon DEF Route
<1>7. /\ x.entry = e /\ x.refs = routes[g].refs /\ x.events = routes[g].events
      /\ x.permanent = routes[g].permanent
      /\ x.inService = routes[g].inService /\ x.acks = routes[g].acks /\ x.manual
  BY <1>2, Zenon DEF Route
<1>8. UNCHANGED <<vecUsed, vecEvents, health, binder, signals, lost, obj, acker, entering>>
  BY Zenon DEF MaskGsi, hardware, calls
<1> HIDE DEF x
<1> QED BY <1>2, <1>3, <1>4, <1>5, <1>6, <1>7, <1>8, EntryStep, Zenon

\* unmask_gsi, which a line in service refuses.
LEMMA UnmaskGsiStep ==
    ASSUME IrqInv, NEW g \in Gsis, UnmaskGsi(g)
    PROVE  IrqInv'
<1>1. IrqType /\ KeyboardRouted
  BY Zenon DEF IrqInv
<1>2. routes[g].valid /\ routes[g] \in Route /\ routes[g].entry \in Entry /\ pins[g] \in Entry
  BY <1>1, RouteFacts, Zenon DEF UnmaskGsi
<1> DEFINE open == [routes[g].entry EXCEPT !.masked = FALSE]
           b == Wrote(g, open)[g] # open
           e == [routes[g].entry EXCEPT !.masked = b]
           x == [routes[g] EXCEPT !.manual = b, !.entry = e]
<1>3. e \in Entry /\ e.vec = routes[g].entry.vec
  <2>1. b \in BOOLEAN
    BY Zenon
  <2> HIDE DEF b
  <2> QED BY <1>2, <2>1, Zenon DEF Entry
<1>4. routes' = [routes EXCEPT ![g] = x]
  <2>1. routes' = [routes EXCEPT ![g].manual = b, ![g].entry.masked = b]
    BY Zenon DEF UnmaskGsi
  <2> HIDE DEF b
  <2> QED BY <1>1, <1>2, <2>1, Zenon DEF IrqType, Route, Entry
<1>5. ~routes[g].inService
  BY <1>1, <1>2, Zenon DEF UnmaskGsi, KeyboardRouted
<1>6. pins' = IF Stuck(g) THEN pins ELSE [pins EXCEPT ![g] = e]
  <2>1. pins' = IF Wrote(g, open)[g] = open THEN Wrote(g, open) ELSE MaskPin(g)
    BY Zenon DEF UnmaskGsi
  <2>2. CASE Stuck(g)
    BY <2>1, <2>2, Zenon DEF Wrote, MaskPin
  <2>3. CASE ~Stuck(g)
    <3>1. Wrote(g, open) = [pins EXCEPT ![g] = open]
      BY <2>3, Zenon DEF Wrote
    <3>2. Wrote(g, open)[g] = open
      BY <1>1, <3>1, Zenon DEF IrqType
    <3>3. e = open
      BY <3>2, Zenon
    <3> QED BY <2>1, <2>3, <3>1, <3>2, <3>3, Zenon
  <2> QED BY <2>2, <2>3, Zenon
<1>7. b \in BOOLEAN
  BY Zenon
<1> HIDE DEF e, b
<1>8. x \in Route
  BY <1>2, <1>3, <1>7, Zenon DEF Route
<1>9. /\ x.entry = e /\ x.refs = routes[g].refs /\ x.events = routes[g].events
      /\ x.permanent = routes[g].permanent
      /\ x.inService = routes[g].inService /\ x.acks = routes[g].acks
  BY <1>2, Zenon DEF Route
<1>10. UNCHANGED <<vecUsed, vecEvents, health, binder, signals, lost, obj, acker, entering>>
  BY Zenon DEF UnmaskGsi, hardware, calls
<1> HIDE DEF x
<1> QED BY <1>2, <1>3, <1>4, <1>5, <1>6, <1>8, <1>9, <1>10, EntryStep, Zenon

\* set_affinity, whichever of its writes are verified.
LEMMA SetAffinityStep ==
    ASSUME IrqInv, NEW g \in Gsis, NEW cpu \in OnlineCpus, SetAffinity(g, cpu)
    PROVE  IrqInv'
<1>1. IrqType
  BY Zenon DEF IrqInv
<1>2. /\ routes[g].valid /\ routes[g] \in Route /\ routes[g].entry \in Entry
      /\ routes[g].manual \in BOOLEAN
  BY <1>1, RouteFacts, Zenon DEF SetAffinity
<1>3. UNCHANGED <<vecUsed, vecEvents, health, binder, signals, lost, obj, acker, entering>>
  BY Zenon DEF SetAffinity, hardware, calls
<1> DEFINE r == routes[g]
           moved == [r.entry EXCEPT !.dest = cpu, !.masked = @ \/ r.manual]
           busy == g \in LevelGsis /\ g \in irr
<1>4. moved \in Entry /\ moved.vec = r.entry.vec
  BY <1>2, Zenon DEF Entry
<1>5. /\ Masked(r.entry) \in Entry /\ Masked(r.entry).vec = r.entry.vec
      /\ Masked(moved) \in Entry /\ Masked(moved).vec = r.entry.vec
  BY <1>2, <1>4, EntryFacts, Zenon
<1>6. ASSUME NEW e \in Entry, e.vec = r.entry.vec,
             routes' = [routes EXCEPT ![g].entry = e],
             pins' = IF Stuck(g) THEN pins ELSE [pins EXCEPT ![g] = e]
      PROVE  IrqInv'
  <2> DEFINE x == [r EXCEPT !.entry = e]
  <2>1. routes' = [routes EXCEPT ![g] = x]
    BY <1>6, Zenon
  <2>2. x \in Route
    BY <1>2, <1>6, Zenon DEF Route
  <2>3. /\ x.entry = e /\ x.refs = r.refs /\ x.events = r.events /\ x.permanent = r.permanent
        /\ x.inService = r.inService /\ x.acks = r.acks /\ x.manual = r.manual
    BY <1>2, Zenon DEF Route
  <2> HIDE DEF x
  <2> QED BY <1>2, <1>3, <1>6, <2>1, <2>2, <2>3, EntryStep, Zenon
<1>7. CASE Stuck(g) /\ pins[g] = Masked(r.entry) /\ busy
  <2> DEFINE e == Masked(r.entry)
             m == r.manual \/ ~r.entry.masked
             x == [r EXCEPT !.entry = e, !.manual = m]
  <2>1. routes' = [routes EXCEPT ![g] = x] /\ UNCHANGED pins
    BY <1>7, Zenon DEF SetAffinity
  <2>2. m \in BOOLEAN /\ (r.manual => m)
    BY Zenon
  <2> HIDE DEF m, e
  <2>3. x \in Route
    BY <1>2, <1>5, <2>2, Zenon DEF Route, e
  <2>4. /\ x.entry = e /\ x.refs = r.refs /\ x.events = r.events /\ x.permanent = r.permanent
        /\ x.inService = r.inService /\ x.acks = r.acks /\ x.manual = m
    BY <1>2, Zenon DEF Route
  <2>5. x.entry.vec = r.entry.vec
    BY <1>5, <2>4, Zenon DEF e
  <2> HIDE DEF x
  <2> QED BY <1>2, <1>3, <1>7, <2>1, <2>2, <2>3, <2>4, <2>5, EntryStep, Zenon
<1>8. CASE Stuck(g) /\ ~(pins[g] = Masked(r.entry) /\ busy)
  <2>1. CASE pins[g] # Masked(r.entry)
    <3>1. routes' = [routes EXCEPT ![g].entry = Masked(r.entry)] /\ pins' = pins
      BY <1>8, <2>1, Zenon DEF SetAffinity
    <3> QED BY <1>5, <1>6, <1>8, <3>1, Zenon
  <2>2. CASE pins[g] = Masked(r.entry)
    <3>1. routes' = [routes EXCEPT ![g].entry = Masked(moved)] /\ pins' = pins
      BY <1>8, <2>2, Zenon DEF SetAffinity
    <3> HIDE DEF moved
    <3> QED BY <1>5, <1>6, <1>8, <3>1, Zenon
  <2> QED BY <2>1, <2>2, Zenon
<1>9. CASE ~Stuck(g)
  <2>1. CASE busy
    <3> DEFINE e == IF r.manual THEN Masked(r.entry) ELSE r.entry
    <3>1. routes' = [routes EXCEPT ![g].entry = e] /\ pins' = [pins EXCEPT ![g] = e]
      BY <1>9, <2>1, Zenon DEF SetAffinity, Wrote
    <3>2. e \in Entry /\ e.vec = r.entry.vec
      BY <1>2, <1>5, Zenon
    <3> HIDE DEF e
    <3> QED BY <1>6, <1>9, <3>1, <3>2, Zenon
  <2>2. CASE ~busy
    <3>1. routes' = [routes EXCEPT ![g].entry = moved] /\ pins' = [pins EXCEPT ![g] = moved]
      BY <1>9, <2>2, Zenon DEF SetAffinity, Wrote
    <3> HIDE DEF moved
    <3> QED BY <1>4, <1>6, <1>9, <3>1, Zenon
  <2> QED BY <2>1, <2>2, Zenon
<1> QED BY <1>7, <1>8, <1>9, Zenon

\* begin_interrupt takes lines into service, with the driver still to be told.
LEMMA BeginInterruptStep ==
    ASSUME IrqInv, NEW v \in Vectors, BeginInterrupt(v)
    PROVE  IrqInv'
<1> USE IrqAssumption
<1>1. IrqType /\ CallersHold /\ PinsOwned
  BY Zenon DEF IrqInv
<1> DEFINE onVec == {g \in Gsis : routes[g].valid /\ routes[g].entry.vec = v}
           serve == {g \in onVec : ~routes[g].permanent /\ g \in LevelGsis /\ ~routes[g].inService}
<1>2. /\ entering' = (entering \ {[vec |-> v, begun |-> FALSE]}) \cup {[vec |-> v, begun |-> TRUE]}
      /\ pins' = [g \in Gsis |-> IF g \in serve THEN MaskPin(g)[g] ELSE pins[g]]
      /\ routes' = [g \in Gsis |->
                       IF g \in serve
                       THEN [routes[g] EXCEPT !.entry = Masked(@), !.inService = TRUE, !.acks = routes[g].refs]
                       ELSE routes[g]]
  BY Zenon DEF BeginInterrupt
<1>3. UNCHANGED <<vecUsed, vecEvents, health, obj, binder, acker, signals, lost>>
  BY Zenon DEF BeginInterrupt
<1>4. ASSUME NEW h \in Gsis
      PROVE  /\ h \in serve => /\ routes[h].valid /\ routes[h].entry.vec = v /\ h \in LevelGsis
                               /\ ~routes[h].permanent /\ routes[h] \in Route
                               /\ routes[h].entry \in Entry /\ routes[h].refs \in Nat
             /\ h \notin serve => routes'[h] = routes[h] /\ pins'[h] = pins[h]
             /\ h \in serve =>
                    /\ pins'[h] = IF Stuck(h) THEN pins[h] ELSE Masked(pins[h])
                    /\ routes'[h] = [routes[h] EXCEPT !.entry = Masked(@), !.inService = TRUE,
                                                      !.acks = routes[h].refs]
  <2>1. h \in serve => /\ routes[h].valid /\ routes[h].entry.vec = v /\ h \in LevelGsis
                       /\ ~routes[h].permanent
    BY Zenon
  <2>2. h \in serve => routes[h] \in Route /\ routes[h].entry \in Entry /\ routes[h].refs \in Nat
    BY <1>1, <2>1, RouteFacts, Zenon
  <2> HIDE DEF serve
  <2>3. h \notin serve => routes'[h] = routes[h] /\ pins'[h] = pins[h]
    BY <1>2, Zenon
  <2>4. h \in serve => routes'[h] = [routes[h] EXCEPT !.entry = Masked(@), !.inService = TRUE,
                                                      !.acks = routes[h].refs]
    BY <1>2, Zenon
  <2>5. h \in serve => pins'[h] = MaskPin(h)[h]
    BY <1>2, Zenon
  <2>6. MaskPin(h)[h] = IF Stuck(h) THEN pins[h] ELSE Masked(pins[h])
    BY <1>1, Zenon DEF MaskPin, Wrote, IrqType
  <2> QED BY <2>1, <2>2, <2>3, <2>4, <2>5, <2>6, Zenon
<1> HIDE DEF serve
<1>5. ASSUME NEW h \in serve, h \in Gsis
      PROVE  /\ routes'[h] \in Route /\ routes'[h].valid /\ routes'[h].entry = Masked(routes[h].entry)
             /\ routes'[h].entry.vec = v /\ routes'[h].entry.dest = routes[h].entry.dest
             /\ routes'[h].inService /\ routes'[h].acks = routes[h].refs
             /\ routes'[h].refs = routes[h].refs /\ routes'[h].events = routes[h].events
             /\ routes'[h].permanent = routes[h].permanent
  <2> DEFINE e == Masked(routes[h].entry)
  <2>1. e \in Entry /\ e.vec = v /\ e.dest = routes[h].entry.dest
    BY <1>4, <1>5, EntryFacts, Zenon
  <2>2. routes'[h] = [routes[h] EXCEPT !.entry = e, !.inService = TRUE, !.acks = routes[h].refs]
    BY <1>4, <1>5, Zenon
  <2>3. routes[h] \in Route /\ routes[h].refs \in Nat
    BY <1>4, <1>5, Zenon
  <2> HIDE DEF e
  <2>4. routes'[h] \in Route
    BY <2>1, <2>2, <2>3, Zenon DEF Route
  <2>5. /\ routes'[h].entry = e /\ routes'[h].inService /\ routes'[h].acks = routes[h].refs
        /\ routes'[h].refs = routes[h].refs /\ routes'[h].events = routes[h].events
        /\ routes'[h].permanent = routes[h].permanent
    BY <2>2, <2>3 DEF Route
  <2>6. routes'[h].valid
    BY <2>4, Zenon DEF Route
  <2> QED BY <2>1, <2>4, <2>5, <2>6, Zenon DEF e
<1>6. ASSUME NEW h \in Gsis
      PROVE  /\ pins'[h] \in Entry /\ pins'[h].vec = pins[h].vec /\ pins'[h].dest = pins[h].dest
             /\ ~pins'[h].masked => ~pins[h].masked
  <2>1. pins[h] \in Entry
    BY <1>1, Zenon DEF IrqType
  <2>2. /\ Masked(pins[h]) \in Entry /\ Masked(pins[h]).masked
        /\ Masked(pins[h]).vec = pins[h].vec /\ Masked(pins[h]).dest = pins[h].dest
    BY <2>1, EntryFacts, Zenon
  <2> QED BY <1>4, <2>1, <2>2, Zenon
<1>7. IrqType'
  <2>1. \A h \in Gsis : routes'[h] \in Route \cup {Free}
    BY <1>1, <1>4, <1>5, Zenon DEF IrqType
  <2>2. pins' \in [Gsis -> Entry]
    BY <1>2, <1>6, Zenon
  <2>3. routes' \in [Gsis -> Route \cup {Free}]
    BY <1>2, <2>1, Zenon
  <2> QED BY <1>1, <1>3, <2>2, <2>3, Zenon DEF IrqType
<1>8. CallersHold'
  BY <1>1, <1>3, Zenon DEF CallersHold
<1>9. ASSUME NEW h \in Gsis
      PROVE  /\ routes'[h].valid = routes[h].valid
             /\ routes[h].valid =>
                    /\ routes'[h].entry.vec = routes[h].entry.vec
                    /\ routes'[h].events = routes[h].events
                    /\ routes'[h].permanent = routes[h].permanent
                    /\ routes'[h].inService =>
                           routes[h].inService \/ (h \in LevelGsis /\ ~routes[h].permanent)
             /\ ~pins'[h].masked => routes[h].valid /\ pins'[h].vec = routes[h].entry.vec
  <2>1. ~pins'[h].masked => routes[h].valid /\ pins'[h].vec = routes[h].entry.vec
    BY <1>1, <1>6, Zenon DEF PinsOwned
  <2>2. CASE h \in serve
    <3>1. routes[h].valid = TRUE /\ routes'[h].valid = TRUE
      BY <1>4, <1>5, <2>2, Zenon DEF Route
    <3> QED BY <1>4, <1>5, <2>1, <2>2, <3>1, Zenon
  <2>3. CASE h \notin serve
    BY <1>4, <2>1, <2>3, Zenon
  <2> QED BY <2>2, <2>3, Zenon
<1>10. ASSUME NEW h \in Working, routes[h].valid
       PROVE  /\ routes'[h].refs = routes[h].refs
              /\ pins'[h].vec = routes'[h].entry.vec /\ pins'[h].dest = routes'[h].entry.dest
              /\ routes'[h].inService =>
                     routes'[h].acks = 1 /\ \A o \in IrqObjs : Drives(o, h) => Owes(o, h)'
  <2>1. /\ routes[h].refs = 1 /\ h \in Gsis
        /\ pins[h].vec = routes[h].entry.vec /\ pins[h].dest = routes[h].entry.dest
        /\ routes[h].inService =>
               routes[h].acks = 1 /\ \A o \in IrqObjs : Drives(o, h) => Owes(o, h)
    BY <1>10, LineFacts, Zenon
  <2>2. CASE h \in serve
    <3>a. routes'[h].entry.vec = v
      BY <1>5, <2>1, <2>2, Zenon
    <3>b. [vec |-> v, begun |-> TRUE] \in entering'
      BY <1>2, Zenon
    <3>1. \A o \in IrqObjs : Owes(o, h)'
      BY <3>a, <3>b, Zenon DEF Owes
    <3> HIDE DEF Owes, Drives
    <3> QED BY <1>4, <1>5, <1>6, <2>1, <2>2, <3>1, Zenon
  <2>3. CASE h \notin serve
    <3>1. routes'[h] = routes[h] /\ pins'[h] = pins[h]
      BY <1>4, <2>1, <2>3, Zenon
    <3>2. [vec |-> routes[h].entry.vec, begun |-> TRUE] \in entering =>
              [vec |-> routes[h].entry.vec, begun |-> TRUE] \in entering'
      BY <1>2, Zenon
    <3>3. \A o \in IrqObjs : Owes(o, h) => Owes(o, h)'
      BY <1>3, <3>1, <3>2, Zenon DEF Owes
    <3> HIDE DEF Owes, Drives
    <3> QED BY <2>1, <3>1, <3>3, Zenon
  <2> QED BY <2>2, <2>3, Zenon
<1>11. ASSUME NEW h \in Working, NEW o \in IrqObjs, GsiOf[o] = h
       PROVE  /\ Drives(o, h)' <=> Drives(o, h)
              /\ Drives(o, h) => (obj[o].ackReq)'
              /\ (obj[o].pending)' = AckModulus - 1 => o \in lost'
  <2>1. /\ Drives(o, h) => obj[o].ackReq
        /\ obj[o].pending = AckModulus - 1 => o \in lost
    BY <1>11, DriverFacts, Zenon
  <2>2. Drives(o, h)' <=> Drives(o, h)
    BY <1>3, Zenon DEF Drives
  <2> QED BY <1>3, <2>1, <2>2, Zenon
<1> QED BY <1>3, <1>7, <1>8, <1>9, <1>10, <1>11, RecordStep, Zenon

\* acknowledge_route_key ends the service of a working line.
LEMMA AcknowledgeRouteStep ==
    ASSUME IrqInv, NEW o \in IrqObjs, AcknowledgeRoute(o)
    PROVE  IrqInv'
<1> USE IrqAssumption
<1>1. IrqType /\ CallersHold /\ PinsOwned /\ KeyboardRouted
  BY Zenon DEF IrqInv
<1>2. PICK g \in Gsis : g = GsiOf[o]
  BY Zenon
<1> DEFINE r == routes[g]
           open == [r.entry EXCEPT !.masked = FALSE]
           ends == r.valid /\ ~r.permanent /\ r.inService /\ r.acks # 0
           last == ends /\ r.acks = 1 /\ ~r.manual
           done == Wrote(g, open)
           failed == ~r.valid \/ (last /\ done[g] # open)
<1>3. /\ acker[o] = "ack" /\ acker' = [acker EXCEPT ![o] = "idle"]
      /\ pins' = IF last THEN done ELSE pins
      /\ routes' = IF ~ends \/ failed THEN routes
                   ELSE [routes EXCEPT ![g].acks = @ - 1,
                                       ![g].inService = r.acks # 1,
                                       ![g].entry.masked = IF last THEN FALSE ELSE @]
      /\ obj' = [obj EXCEPT ![o].pending = IF failed THEN (@ + 1) % AckModulus ELSE @]
  BY <1>2 DEF AcknowledgeRoute
<1>4. UNCHANGED <<vecUsed, vecEvents, entering, binder, signals, lost, health>>
  BY Zenon DEF AcknowledgeRoute, hardware
<1>5. /\ acker' \in [IrqObjs -> {"idle", "ack"}] /\ acker'[o] = "idle"
      /\ \A p \in IrqObjs : p # o => acker'[p] = acker[p]
  BY <1>1, <1>3, Zenon DEF IrqType
<1>6. obj[o] \in Object /\ obj \in [IrqObjs -> Object] /\ obj[o].pending \in 0..AckModulus - 1
  BY <1>1, Zenon DEF IrqType, Object
<1>7. /\ obj' \in [IrqObjs -> Object] /\ \A p \in IrqObjs : p # o => obj'[p] = obj[p]
      /\ obj'[o].bound = obj[o].bound /\ obj'[o].active = obj[o].active
      /\ obj'[o].ackReq = obj[o].ackReq /\ (~failed => obj'[o].pending = obj[o].pending)
  <2>1. (obj[o].pending + 1) % AckModulus \in 0..AckModulus - 1
    BY <1>6
  <2> HIDE DEF failed
  <2>2. CASE failed
    BY <1>3, <1>6, <2>1, <2>2, Zenon DEF Object
  <2>3. CASE ~failed
    BY <1>3, <1>6, <2>3, Zenon DEF Object
  <2> QED BY <2>2, <2>3, Zenon
<1>8. Drives(o, g)
  BY <1>1, <1>2, <1>3, Zenon DEF CallersHold, Drives
<1>9. done = IF Stuck(g) THEN pins ELSE [pins EXCEPT ![g] = open]
  BY Zenon DEF Wrote
<1>10. g \in Working => /\ r.valid /\ ~failed /\ (r.inService => ends /\ r.acks = 1)
                        /\ pins[g].vec = r.entry.vec /\ pins[g].dest = r.entry.dest
  <2> HAVE g \in Working
  <2>1. r.valid
    BY <1>2, <1>8, DriverFacts, Zenon
  <2>2. /\ pins[g].vec = r.entry.vec /\ pins[g].dest = r.entry.dest /\ ~Stuck(g)
        /\ r.inService => r.acks = 1 /\ g # KeyboardGsi
    BY <2>1, LineFacts, Zenon
  <2>3. ~r.permanent
    BY <1>1, <2>1, <2>2, Zenon DEF KeyboardRouted, Working
  <2>4. done[g] = open
    <3> HIDE DEF open
    <3> QED BY <1>1, <1>9, <2>2, Zenon DEF IrqType
  <2> QED BY <2>1, <2>2, <2>3, <2>4
<1>11. CASE ~ends \/ failed
  <2>1. routes' = routes
    BY <1>3, <1>11, Zenon
  <2>2. pins' = pins
    <3>1. CASE ~last
      BY <1>3, <3>1, Zenon
    <3>2. CASE last
      <4>1. done[g] # open
        BY <1>11, <3>2, Zenon
      <4>2. Stuck(g)
        <5> HIDE DEF open
        <5> QED BY <1>1, <1>9, <4>1, Zenon DEF IrqType
      <4> QED BY <1>3, <1>9, <3>2, <4>2, Zenon
    <3> QED BY <3>1, <3>2, Zenon
  <2>3. IrqType'
    BY <1>1, <1>4, <1>5, <1>7, <2>1, <2>2, Zenon DEF IrqType
  <2>4. CallersHold'
    BY <1>1, <1>4, <1>5, <1>7, Zenon DEF CallersHold
  <2>5. ASSUME NEW h \in Working, NEW p \in IrqObjs, GsiOf[p] = h
        PROVE  /\ Drives(p, h)' <=> Drives(p, h)
               /\ Drives(p, h) => (obj[p].ackReq)'
               /\ (obj[p].pending)' = AckModulus - 1 => p \in lost'
               /\ Drives(p, h) /\ routes[h].valid /\ routes[h].inService => Owes(p, h)'
    <3>1. /\ Drives(p, h) => obj[p].ackReq
          /\ obj[p].pending = AckModulus - 1 => p \in lost
          /\ Drives(p, h) /\ routes[h].valid /\ routes[h].inService => Owes(p, h)
      BY <2>5, DriverFacts, Zenon
    <3>2. p = o => h = g /\ ~failed /\ ~routes[h].inService
      BY <1>2, <1>10, <1>11, <2>5, Zenon
    <3>3. /\ obj'[p].active = obj[p].active /\ obj'[p].ackReq = obj[p].ackReq
          /\ obj'[p].pending = obj[p].pending
      BY <1>7, <3>2, Zenon
    <3>4. Drives(p, h)' <=> Drives(p, h)
      BY <1>4, <3>3, Zenon DEF Drives
    <3>5. p # o /\ Owes(p, h) => Owes(p, h)'
      BY <1>4, <1>5, <2>1, <3>3, Zenon DEF Owes
    <3> HIDE DEF failed, Owes, Drives
    <3> QED BY <1>4, <3>1, <3>2, <3>3, <3>4, <3>5, Zenon
  <2> QED BY <1>4, <2>1, <2>2, <2>3, <2>4, <2>5, ObjectStep, Zenon
<1>12. CASE ends /\ ~failed
  <2>1. r.valid /\ r \in Route /\ r.entry \in Entry /\ r.acks \in Nat /\ r.acks # 0
    BY <1>1, <1>12, RouteFacts, Zenon
  <2>2. open \in Entry /\ open.vec = r.entry.vec /\ open.dest = r.entry.dest
    BY <2>1, EntryFacts, Zenon
  <2> DEFINE m == IF last THEN FALSE ELSE r.entry.masked
             e == [r.entry EXCEPT !.masked = m]
             f == r.acks # 1
             n == r.acks - 1
             x == [r EXCEPT !.acks = n, !.inService = f, !.entry = e]
  <2>3. n \in Nat /\ f \in BOOLEAN /\ m \in BOOLEAN
    <3>1. r.entry.masked \in BOOLEAN
      BY <2>1, Zenon DEF Entry
    <3>2. n \in Nat
      <4>1. PICK k \in Nat : k = r.acks /\ k # 0
        BY <2>1, Zenon
      <4>2. k - 1 \in Nat
        BY <4>1
      <4> QED BY <4>1, <4>2, Zenon
    <3> HIDE DEF last, n
    <3> QED BY <3>1, <3>2, Zenon
  <2>4. routes' = [routes EXCEPT ![g].acks = n, ![g].inService = f, ![g].entry.masked = m]
    BY <1>3, <1>12, Zenon
  <2>5. /\ pins' \in [Gsis -> Entry] /\ \A h \in Gsis : h # g => pins'[h] = pins[h]
        /\ pins'[g] = IF last THEN open ELSE pins[g]
    <3>1. last => done[g] = open
      BY <1>12, Zenon
    <3> HIDE DEF last, open
    <3>2. /\ done \in [Gsis -> Entry] /\ \A h \in Gsis : h # g => done[h] = pins[h]
      BY <1>1, <1>9, <2>2, Zenon DEF IrqType
    <3> HIDE DEF done
    <3> QED BY <1>1, <1>3, <3>1, <3>2, Zenon DEF IrqType
  <2>6. g \in Working => ~f
    BY <1>10, <1>12, Zenon
  <2> HIDE DEF m, f, n
  <2>7. e \in Entry /\ e.vec = r.entry.vec /\ e.dest = r.entry.dest
    BY <2>1, <2>3, Zenon DEF Entry
  <2>8. routes' = [routes EXCEPT ![g] = x]
    BY <1>1, <2>1, <2>4, Zenon DEF IrqType, Route, Entry
  <2> HIDE DEF e
  <2>9. x \in Route
    BY <2>1, <2>3, <2>7, Zenon DEF Route
  <2>10. /\ x.entry = e /\ x.refs = r.refs /\ x.events = r.events /\ x.permanent = r.permanent
         /\ x.inService = f /\ x.acks = n
    BY <2>1, Zenon DEF Route
  <2> HIDE DEF x
  <2>11. /\ routes'[g] = x /\ \A h \in Gsis : h # g => routes'[h] = routes[h]
         /\ routes' = [h \in Gsis |-> routes'[h]]
    BY <1>1, <2>8, Zenon DEF IrqType
  <2>12. pins'[g].masked \/ pins'[g].vec = routes[g].entry.vec
    <3> HIDE DEF open, last
    <3> QED BY <1>1, <2>2, <2>5, Zenon DEF PinsOwned
  <2>13. g \in Working => /\ pins'[g].vec = routes'[g].entry.vec
                          /\ pins'[g].dest = routes'[g].entry.dest /\ ~routes'[g].inService
    <3> HIDE DEF open, last
    <3> QED BY <1>10, <2>2, <2>5, <2>6, <2>7, <2>10, <2>11, Zenon
  <2>14. /\ routes'[g] \in Route /\ routes'[g].entry.vec = routes[g].entry.vec
         /\ routes'[g].refs = routes[g].refs /\ routes'[g].events = routes[g].events
         /\ routes'[g].permanent = routes[g].permanent
         /\ routes'[g].inService => routes[g].inService
    BY <1>12, <2>7, <2>9, <2>10, <2>11, Zenon
  <2>15. /\ \A p \in IrqObjs : GsiOf[p] # g => obj'[p] = obj[p] /\ acker'[p] = acker[p]
         /\ \A p \in IrqObjs : GsiOf[p] = g =>
               /\ obj'[p].bound = obj[p].bound /\ obj'[p].active = obj[p].active
               /\ obj'[p].ackReq = obj[p].ackReq
               /\ g \in Working => obj'[p].pending = obj[p].pending
               /\ acker'[p] = "ack" => acker[p] = "ack"
    BY <1>2, <1>5, <1>7, <1>12, Zenon
  <2>16. routes[g].valid /\ entering \subseteq entering'
    BY <1>4, <2>1, Zenon
  <2> HIDE DEF Drives, Owes, r, ends, failed
  <2>17. RouteRewritten(g)
    BY <2>11, <2>14, <2>16, Zenon DEF RouteRewritten
  <2>18. PinRewritten(g) /\ ServiceOwed(g)
    BY <2>5, <2>12, <2>13, Zenon DEF PinRewritten, ServiceOwed
  <2>19. ObjectsTied(g)
    BY <1>5, <1>7, <2>15, Zenon DEF ObjectsTied
  <2> QED BY <1>4, <2>16, <2>17, <2>18, <2>19, WriteStep, Zenon
<1> QED BY <1>11, <1>12, Zenon

\* A working line that a step of another pin and other Interrupts does not touch.
LEMMA OtherLine ==
    ASSUME IrqInv, NEW h \in Working, routes'[h] = routes[h], pins'[h] = pins[h],
           entering' = entering,
           \A p \in IrqObjs : GsiOf[p] = h =>
               /\ obj'[p] = obj[p] /\ binder'[p] = binder[p] /\ acker'[p] = acker[p]
               /\ p \in lost' <=> p \in lost
    PROVE  LineDriven(h)'
<1>1. LineDriven(h)
  BY Zenon DEF IrqInv, LinesDriven
<1>2. ASSUME NEW p \in IrqObjs, GsiOf[p] = h
      PROVE  /\ Drives(p, h)' <=> Drives(p, h)
             /\ Drives(p, h) => (obj[p].ackReq)'
             /\ (obj[p].pending)' = AckModulus - 1 => p \in lost'
             /\ Owes(p, h)' <=> Owes(p, h)
  <2>1. /\ Drives(p, h) => obj[p].ackReq
        /\ obj[p].pending = AckModulus - 1 => p \in lost
    BY <1>2, DriverFacts, Zenon
  <2>2. Drives(p, h)' <=> Drives(p, h)
    BY <1>2, Zenon DEF Drives
  <2>3. Owes(p, h)' <=> Owes(p, h)
    BY <1>2 DEF Owes
  <2> QED BY <1>2, <2>1, <2>2, <2>3, Zenon
<1>3. \A p \in IrqObjs : Drives(p, h) => GsiOf[p] = h
  BY Zenon DEF Drives
<1>4. routes[h].valid =>
          /\ pins'[h].vec = routes'[h].entry.vec /\ pins'[h].dest = routes'[h].entry.dest
          /\ routes'[h].inService =>
                 routes'[h].acks = 1 /\ \A o \in IrqObjs : Drives(o, h) => Owes(o, h)'
  <2> HIDE DEF Drives, Owes
  <2> QED BY <1>2, <1>3, LineFacts
<1> HIDE DEF Drives, Owes
<1> QED BY <1>1, <1>2, <1>4, LineKept, Zenon

\* A call to bind_port that does not get the route.
LEMMA BindFails ==
    ASSUME IrqInv, NEW o \in IrqObjs, binder[o] = "acquire", Bound(o, FALSE),
           UNCHANGED <<pins, routes, vecUsed, vecEvents>>
    PROVE  IrqInv'
<1>1. IrqType /\ CallersHold
  BY Zenon DEF IrqInv
<1>2. /\ binder'[o] = "failed" /\ \A p \in IrqObjs : p # o => binder'[p] = binder[p]
      /\ binder' \in [IrqObjs -> {"idle", "acquire", "routed", "failed"}]
      /\ UNCHANGED <<health, entering, obj, acker, signals, lost>>
  BY <1>1, Zenon DEF Bound, IrqType, hardware, calls
<1>3. IrqType'
  BY <1>1, <1>2, Zenon DEF IrqType
<1>4. CallersHold'
  BY <1>1, <1>2, Zenon DEF CallersHold
<1>5. ASSUME NEW h \in Working, NEW p \in IrqObjs, GsiOf[p] = h
      PROVE  /\ Drives(p, h)' <=> Drives(p, h)
             /\ Drives(p, h) => (obj[p].ackReq)'
             /\ (obj[p].pending)' = AckModulus - 1 => p \in lost'
             /\ Drives(p, h) /\ routes[h].valid /\ routes[h].inService => Owes(p, h)'
  <2>1. /\ Drives(p, h) => obj[p].ackReq
        /\ obj[p].pending = AckModulus - 1 => p \in lost
        /\ Drives(p, h) /\ routes[h].valid /\ routes[h].inService => Owes(p, h)
    BY <1>5, DriverFacts, Zenon
  <2>2. Drives(p, h)' <=> Drives(p, h)
    BY <1>2, Zenon DEF Drives
  <2>3. Owes(p, h) => Owes(p, h)'
    BY <1>2, Zenon DEF Owes
  <2> QED BY <1>2, <2>1, <2>2, <2>3, Zenon
<1> QED BY <1>2, <1>3, <1>4, <1>5, ObjectStep, Zenon

\* The same after the events of a vector that no route has were cleared.
LEMMA VectorTaken ==
    ASSUME IrqInv, NEW o \in IrqObjs, binder[o] = "acquire", Bound(o, FALSE),
           UNCHANGED <<pins, routes, vecUsed>>, NEW v, v \notin vecUsed,
           vecEvents' \in [Vectors -> EventKeys \X EventKeys],
           \A w \in Vectors : w # v => vecEvents'[w] = vecEvents[w]
    PROVE  IrqInv'
<1> USE IrqAssumption
<1>1. IrqType /\ CallersHold /\ VectorsOwned /\ PinsOwned /\ KeyboardRouted
  BY Zenon DEF IrqInv
<1>2. /\ binder'[o] = "failed" /\ \A p \in IrqObjs : p # o => binder'[p] = binder[p]
      /\ binder' \in [IrqObjs -> {"idle", "acquire", "routed", "failed"}]
      /\ UNCHANGED <<health, entering, obj, acker, signals, lost>>
  BY <1>1, Zenon DEF Bound, IrqType, hardware, calls
<1>3. IrqType'
  BY <1>1, <1>2, Zenon DEF IrqType
<1>4. CallersHold'
  BY <1>1, <1>2, Zenon DEF CallersHold
<1>5. VectorsOwned'
  BY <1>1, Zenon DEF VectorsOwned, IrqType
<1>6. PinsOwned' /\ KeyboardRouted'
  BY <1>1, Zenon DEF PinsOwned, KeyboardRouted
<1>7. ASSUME NEW h \in Working' PROVE LineDriven(h)'
  <2>1. h \in Working /\ LineDriven(h)
    BY <1>2, <1>7, Zenon DEF Working, IrqInv, LinesDriven
  <2>2. ASSUME NEW p \in IrqObjs
        PROVE  (Drives(p, h)' <=> Drives(p, h)) /\ (Owes(p, h)' <=> Owes(p, h))
    <3>1. Drives(p, h)' <=> Drives(p, h)
      BY <1>2, Zenon DEF Drives
    <3>2. Owes(p, h)' <=> Owes(p, h)
      BY <1>2, Zenon DEF Owes
    <3> QED BY <3>1, <3>2, Zenon
  <2> HIDE DEF Drives, Owes
  <2> QED BY <1>2, <2>1, <2>2, Zenon DEF LineDriven
<1> QED BY <1>3, <1>4, <1>5, <1>6, <1>7, Zenon DEF IrqInv, LinesDriven

\* add_event_key builds pairs of keys.
LEMMA KeysType ==
    ASSUME NEW S, NEW e \in S \X S, NEW k \in S \X S, "none" \in S, NEW x \in WithKeys(e, k)
    PROVE  x \in S \X S
<1>1. ASSUME NEW y \in S \X S, NEW key \in S, NEW z \in WithKey(y, key)
      PROVE  z \in S \X S
  BY DEF WithKey
<1>2. PICK y \in WithKey(e, k[1]) : x \in WithKey(y, k[2])
  BY Zenon DEF WithKeys
<1>3. k[1] \in S /\ k[2] \in S
  BY Zenon
<1>4. y \in S \X S
  BY <1>1, <1>3, Zenon
<1> QED BY <1>1, <1>2, <1>3, <1>4, Zenon

\* route_locked on a GSI that has a route.
LEMMA JoinRouteStep ==
    ASSUME IrqInv, NEW o \in IrqObjs, NEW cpu \in OnlineCpus, JoinRoute(o, cpu)
    PROVE  IrqInv'
<1> USE IrqAssumption
<1>1. IrqType /\ CallersHold /\ VectorsOwned /\ PinsOwned /\ KeyboardRouted
  BY Zenon DEF IrqInv
<1>2. PICK g \in Gsis : g = GsiOf[o]
  BY Zenon
<1> DEFINE r == routes[g]
           joined == WithKeys(r.events, KeysOf[o])
           conflict == r.entry.dest # cpu \/ (~r.permanent /\ g \in LevelGsis /\ r.refs # 0)
<1>3. /\ binder[o] = "acquire" /\ r.valid /\ UNCHANGED <<pins, vecUsed>>
      /\ IF conflict \/ pins[g] # r.entry \/ joined = {}
         THEN Bound(o, FALSE) /\ UNCHANGED <<routes, vecEvents>>
         ELSE \E events \in joined :
                 /\ routes' = [routes EXCEPT ![g].events = events,
                                             ![g].refs = IF r.permanent THEN @ ELSE @ + 1]
                 /\ vecEvents' = [vecEvents EXCEPT ![r.entry.vec] = events]
                 /\ Bound(o, TRUE)
  BY <1>2, Zenon DEF JoinRoute
<1>4. CASE conflict \/ pins[g] # r.entry \/ joined = {}
  BY <1>3, <1>4, BindFails, Zenon
<1>5. CASE ~(conflict \/ pins[g] # r.entry \/ joined = {})
  <2>1. PICK events \in joined :
                 /\ routes' = [routes EXCEPT ![g].events = events,
                                             ![g].refs = IF r.permanent THEN @ ELSE @ + 1]
                 /\ vecEvents' = [vecEvents EXCEPT ![r.entry.vec] = events]
                 /\ Bound(o, TRUE)
    BY <1>3, <1>5, Zenon
  <2>2. /\ r \in Route /\ r.entry \in Entry /\ r.refs \in Nat /\ r.permanent \in BOOLEAN
    BY <1>1, <1>3, RouteFacts, Zenon
  <2>3. events \in EventKeys \X EventKeys
    <3>1. r.events \in EventKeys \X EventKeys
      BY <2>2, Zenon DEF Route
    <3> QED BY <3>1, KeysPairs, KeysType, Zenon
  <2>4. g \notin Working
    <3>1. g \in Working => r.refs = 1 /\ g \in LevelGsis /\ g # KeyboardGsi
      BY <1>3, LineFacts, Zenon
    <3>2. g # KeyboardGsi => ~r.permanent
      BY <1>1, <1>3, Zenon DEF KeyboardRouted
    <3> QED BY <1>5, <3>1, <3>2
  <2> DEFINE n == IF r.permanent THEN r.refs ELSE r.refs + 1
             x == [r EXCEPT !.events = events, !.refs = n]
  <2>5. n \in Nat
    BY <2>2
  <2>6. routes' = [routes EXCEPT ![g] = x]
    BY <2>1, Zenon
  <2> HIDE DEF n
  <2>7. x \in Route
    BY <2>2, <2>3, <2>5, Zenon DEF Route
  <2>8. /\ x.entry = r.entry /\ x.events = events /\ x.permanent = r.permanent
        /\ x.inService = r.inService /\ x.valid = r.valid
    BY <2>2, Zenon DEF Route
  <2> HIDE DEF x
  <2>9. /\ routes'[g] = x /\ \A h \in Gsis : h # g => routes'[h] = routes[h]
        /\ routes' \in [Gsis -> Route \cup {Free}]
    BY <1>1, <2>6, <2>7, Zenon DEF IrqType
  <2>10. /\ r.entry.vec \in Vectors /\ vecEvents'[r.entry.vec] = events
         /\ vecEvents' \in [Vectors -> EventKeys \X EventKeys]
         /\ \A v \in Vectors : v # r.entry.vec => vecEvents'[v] = vecEvents[v]
    <3>1. r.entry.vec \in Vectors
      BY <1>1, <1>3, Zenon DEF VectorsOwned, IrqType
    <3> QED BY <1>1, <2>1, <2>3, <3>1, Zenon DEF IrqType
  <2>11. /\ binder'[o] = "routed" /\ \A p \in IrqObjs : p # o => binder'[p] = binder[p]
         /\ binder' \in [IrqObjs -> {"idle", "acquire", "routed", "failed"}]
         /\ UNCHANGED <<health, entering, obj, acker, signals, lost>>
    BY <1>1, <2>1, Zenon DEF Bound, IrqType, hardware, calls
  <2>12. IrqType'
    BY <1>1, <1>3, <2>9, <2>10, <2>11, Zenon DEF IrqType
  <2>13. CallersHold'
    BY <1>1, <1>3, <2>11, Zenon DEF CallersHold
  <2>14. VectorsOwned'
    <3>1. \A h \in Gsis : /\ routes'[h].valid = routes[h].valid
                          /\ routes'[h].entry = routes[h].entry
      BY <2>8, <2>9, Zenon
    <3>2. ASSUME NEW h \in Gsis, routes[h].valid
          PROVE  vecEvents'[routes[h].entry.vec] = routes'[h].events
      <4>1. CASE h = g
        BY <2>8, <2>9, <2>10, <4>1, Zenon
      <4>2. CASE h # g
        <5>1. routes[h].entry.vec # r.entry.vec /\ routes[h].entry.vec \in Vectors
          BY <1>1, <1>3, <3>2, <4>2, Zenon DEF VectorsOwned, IrqType
        <5>2. vecEvents[routes[h].entry.vec] = routes[h].events
          BY <1>1, <3>2, Zenon DEF VectorsOwned
        <5> QED BY <2>9, <2>10, <4>2, <5>1, <5>2, Zenon
      <4> QED BY <4>1, <4>2, Zenon
    <3> QED BY <1>1, <1>3, <3>1, <3>2 DEF VectorsOwned
  <2>15. PinsOwned' /\ KeyboardRouted'
    <3>1. \A h \in Gsis : /\ routes'[h].valid = routes[h].valid
                          /\ routes'[h].entry = routes[h].entry
                          /\ routes'[h].permanent = routes[h].permanent
                          /\ routes'[h].inService = routes[h].inService
      BY <2>8, <2>9, Zenon
    <3>2. PinsOwned'
      BY <1>1, <1>3, <3>1, Zenon DEF PinsOwned
    <3>3. KeyboardRouted'
      BY <1>1, <3>1, Zenon DEF KeyboardRouted
    <3> QED BY <3>2, <3>3, Zenon
  <2>16. ASSUME NEW h \in Working' PROVE LineDriven(h)'
    <3>1. h \in Working /\ h # g /\ h \in Gsis
      BY <2>4, <2>11, <2>16, Zenon DEF Working
    <3>2. routes'[h] = routes[h] /\ pins'[h] = pins[h]
      BY <1>3, <2>9, <3>1, Zenon
    <3>3. \A p \in IrqObjs : GsiOf[p] = h =>
               /\ obj'[p] = obj[p] /\ binder'[p] = binder[p] /\ acker'[p] = acker[p]
               /\ p \in lost' <=> p \in lost
      BY <1>2, <2>11, <3>1, Zenon
    <3> QED BY <2>11, <3>1, <3>2, <3>3, OtherLine, Zenon
  <2> QED BY <2>12, <2>13, <2>14, <2>15, <2>16, Zenon DEF IrqInv, LinesDriven
<1> QED BY <1>4, <1>5, Zenon

\* A new route: the vector it takes was free, and on a working pin the Interrupt that
\* got it drives the line.
LEMMA RouteAdded ==
    ASSUME IrqInv, NEW o \in IrqObjs, NEW g \in Gsis, g = GsiOf[o], binder[o] = "acquire",
           ~routes[g].valid, NEW v \in Vectors, v \notin vecUsed, NEW x \in Route,
           x.entry.vec = v, x.events = KeysOf[o], x.refs = 1, ~x.permanent, ~x.inService,
           routes' = [routes EXCEPT ![g] = x], vecUsed' = vecUsed \cup {v},
           vecEvents' = [vecEvents EXCEPT ![v] = KeysOf[o]],
           pins' = IF Stuck(g) THEN pins ELSE [pins EXCEPT ![g] = x.entry],
           Bound(o, ~Stuck(g))
    PROVE  IrqInv'
<1> USE IrqAssumption
<1>1. IrqType /\ CallersHold /\ VectorsOwned /\ PinsOwned /\ KeyboardRouted
  BY Zenon DEF IrqInv
<1>2. /\ binder'[o] = IF Stuck(g) THEN "failed" ELSE "routed"
      /\ \A p \in IrqObjs : p # o => binder'[p] = binder[p]
      /\ binder' \in [IrqObjs -> {"idle", "acquire", "routed", "failed"}]
      /\ UNCHANGED <<health, entering, obj, acker, signals, lost>>
  BY <1>1, Zenon DEF Bound, IrqType, hardware, calls
<1>3. /\ routes'[g] = x /\ \A h \in Gsis : h # g => routes'[h] = routes[h]
      /\ routes' \in [Gsis -> Route \cup {Free}]
  BY <1>1, Zenon DEF IrqType
<1>4. x.entry \in Entry /\ x.valid
  BY Zenon DEF Route
<1>5. /\ pins' \in [Gsis -> Entry] /\ \A h \in Gsis : h # g => pins'[h] = pins[h]
      /\ pins'[g] = IF Stuck(g) THEN pins[g] ELSE x.entry
  BY <1>1, <1>4, Zenon DEF IrqType
<1>6. /\ vecEvents'[v] = KeysOf[o] /\ vecEvents' \in [Vectors -> EventKeys \X EventKeys]
      /\ \A w \in Vectors : w # v => vecEvents'[w] = vecEvents[w]
  <2>1. KeysOf[o] \in EventKeys \X EventKeys
    BY KeysPairs, Zenon
  <2> QED BY <1>1, <2>1, Zenon DEF IrqType
<1>7. IrqType'
  BY <1>1, <1>2, <1>3, <1>5, <1>6, Zenon DEF IrqType
<1>8. CallersHold'
  BY <1>1, <1>2, Zenon DEF CallersHold
<1>9. \A h \in Gsis : routes[h].valid => /\ h # g /\ routes[h].entry.vec # v
                                         /\ routes[h].entry.vec \in Vectors
                                         /\ routes[h].entry.vec \in vecUsed
                                         /\ vecEvents[routes[h].entry.vec] = routes[h].events
  BY <1>1, Zenon DEF VectorsOwned, IrqType
<1>10. VectorsOwned'
  <2>1. ASSUME NEW h \in Gsis, routes'[h].valid
        PROVE  /\ routes'[h].entry.vec \in vecUsed'
               /\ vecEvents'[routes'[h].entry.vec] = routes'[h].events
    <3>1. CASE h = g
      BY <1>3, <1>6, <3>1, Zenon
    <3>2. CASE h # g
      BY <1>3, <1>6, <1>9, <2>1, <3>2
    <3> QED BY <3>1, <3>2, Zenon
  <2>2. ASSUME NEW h \in Gsis, NEW k \in Gsis, routes'[h].valid, routes'[k].valid,
               routes'[h].entry.vec = routes'[k].entry.vec
        PROVE  h = k
    <3>1. CASE h = g \/ k = g
      BY <1>3, <1>9, <2>2, <3>1
    <3>2. CASE h # g /\ k # g
      BY <1>1, <1>3, <2>2, <3>2 DEF VectorsOwned
    <3> QED BY <3>1, <3>2, Zenon
  <2> QED BY <2>1, <2>2, Zenon DEF VectorsOwned
<1>11. PinsOwned'
  <2>1. ASSUME NEW h \in Gsis, ~pins'[h].masked
        PROVE  routes'[h].valid /\ routes'[h].entry.vec = pins'[h].vec
    <3>1. CASE h = g
      <4>1. ~Stuck(g)
        BY <1>1, <1>5, <2>1, <3>1, Zenon DEF PinsOwned
      <4> QED BY <1>3, <1>4, <1>5, <3>1, <4>1, Zenon
    <3>2. CASE h # g
      BY <1>1, <1>3, <1>5, <2>1, <3>2 DEF PinsOwned
    <3> QED BY <3>1, <3>2, Zenon
  <2> QED BY <2>1, Zenon DEF PinsOwned
<1>12. KeyboardRouted'
  <2>1. g # KeyboardGsi
    BY <1>1, Zenon DEF KeyboardRouted
  <2>2. ASSUME NEW h \in Gsis, routes'[h].valid
        PROVE  /\ routes'[h].permanent <=> h = KeyboardGsi
               /\ routes'[h].inService => h \in LevelGsis /\ h # KeyboardGsi
    <3>1. CASE h = g
      BY <1>3, <2>1, <3>1, Zenon
    <3>2. CASE h # g
      BY <1>1, <1>3, <2>2, <3>2, Zenon DEF KeyboardRouted
    <3> QED BY <3>1, <3>2, Zenon
  <2> QED BY <1>1, <1>3, <2>1, <2>2, Zenon DEF KeyboardRouted
<1>13. ASSUME NEW h \in Working' PROVE LineDriven(h)'
  <2>1. h \in Working /\ h \in Gsis
    BY <1>2, <1>13, Zenon DEF Working
  <2>2. CASE h # g
    <3>1. routes'[h] = routes[h] /\ pins'[h] = pins[h]
      BY <1>3, <1>5, <2>1, <2>2, Zenon
    <3>2. \A p \in IrqObjs : GsiOf[p] = h =>
               /\ obj'[p] = obj[p] /\ binder'[p] = binder[p] /\ acker'[p] = acker[p]
               /\ p \in lost' <=> p \in lost
      BY <1>2, <2>2, Zenon
    <3> QED BY <1>2, <2>1, <3>1, <3>2, OtherLine, Zenon
  <2>3. CASE h = g
    <3>1. ~Stuck(g) /\ binder'[o] = "routed"
      BY <1>2, <2>1, <2>3, Zenon DEF Working, Stuck
    <3>2. ASSUME NEW p \in IrqObjs PROVE ~Drives(p, g)
      <4>1. GsiOf[p] = g => ~Drives(p, g)
        BY <2>1, <2>3, DriverFacts, Zenon
      <4> QED BY <4>1, Zenon DEF Drives
    <3>3. ASSUME NEW p \in IrqObjs PROVE Drives(p, g)' <=> p = o
      <4>1. p # o => ~Drives(p, g)'
        BY <1>2, <3>2, Zenon DEF Drives
      <4> QED BY <3>1, <4>1, Zenon DEF Drives
    <3>4. obj'[o].ackReq
      BY <1>1, <1>2, Zenon DEF CallersHold
    <3>5. \A p \in IrqObjs : GsiOf[p] = g /\ obj'[p].pending = AckModulus - 1 => p \in lost'
      BY <1>2, <2>1, <2>3, DriverFacts, Zenon
    <3>6. /\ routes'[g].valid /\ routes'[g].refs = 1 /\ routes'[g].events = KeysOf[o]
          /\ ~routes'[g].inService
          /\ pins'[g].vec = routes'[g].entry.vec /\ pins'[g].dest = routes'[g].entry.dest
      BY <1>3, <1>4, <1>5, <3>1, Zenon
    <3>7. LineDriven(g)'
      <4> HIDE DEF Drives, Owes
      <4> QED BY <3>3, <3>4, <3>5, <3>6, Zenon DEF LineDriven
    <3> QED BY <2>3, <3>7, Zenon
  <2> QED BY <2>2, <2>3, Zenon
<1> QED BY <1>7, <1>8, <1>10, <1>11, <1>12, <1>13, Zenon DEF IrqInv, LinesDriven

\* route_locked on a GSI without a route, whether or not the pin takes the writes.
LEMMA NewRouteStep ==
    ASSUME IrqInv, NEW o \in IrqObjs, NEW cpu \in OnlineCpus, NewRoute(o, cpu)
    PROVE  IrqInv'
<1> USE IrqAssumption
<1>1. IrqType /\ VectorsOwned
  BY Zenon DEF IrqInv
<1>2. PICK g \in Gsis : g = GsiOf[o]
  BY Zenon
<1>3. binder[o] = "acquire" /\ ~routes[g].valid
  BY <1>2, Zenon DEF NewRoute
<1>4. CASE Vectors \subseteq vecUsed
  <2>1. Bound(o, FALSE) /\ UNCHANGED <<pins, routes, vecUsed, vecEvents>>
    BY <1>4, Zenon DEF NewRoute
  <2> QED BY <1>3, <2>1, BindFails, Zenon
<1>5. CASE ~(Vectors \subseteq vecUsed)
  <2>1. PICK v \in Vectors : v = NextVector /\ v \notin vecUsed
    BY <1>1, <1>5, VectorFresh, Zenon
  <2> DEFINE entry == [vec |-> v, dest |-> cpu, masked |-> FALSE]
             record(e) == [valid |-> TRUE, entry |-> e, refs |-> 1, permanent |-> FALSE,
                           inService |-> FALSE, acks |-> 0, manual |-> FALSE, events |-> KeysOf[o]]
             keep(e) == /\ routes' = [routes EXCEPT ![g] = record(e)]
                        /\ vecUsed' = vecUsed \cup {v}
                        /\ vecEvents' = [vecEvents EXCEPT ![v] = KeysOf[o]]
  <2>2. IF ~Stuck(g)
        THEN pins' = Wrote(g, entry) /\ keep(entry) /\ Bound(o, TRUE)
        ELSE /\ UNCHANGED pins
             /\ IF MaskVerified(g, entry)
                THEN UNCHANGED <<routes, vecUsed>> /\ vecEvents' = [vecEvents EXCEPT ![v] = NoEvents]
                ELSE keep(Masked(entry))
             /\ Bound(o, FALSE)
    BY <1>2, <1>5, <2>1, Zenon DEF NewRoute
  <2>3. entry \in Entry /\ entry.vec = v
    BY Zenon DEF Entry
  <2>4. Masked(entry) \in Entry /\ Masked(entry).vec = v
    BY <2>3, EntryFacts, Zenon
  <2>5. ASSUME NEW e \in Entry PROVE record(e) \in Route
    BY KeysPairs, Zenon DEF Route
  <2>6. ASSUME NEW e \in Entry, e.vec = v, keep(e),
               pins' = IF Stuck(g) THEN pins ELSE [pins EXCEPT ![g] = e], Bound(o, ~Stuck(g))
        PROVE  IrqInv'
    <3> DEFINE x == record(e)
    <3>1. x \in Route
      BY <2>5, Zenon
    <3>2. x.entry = e /\ x.events = KeysOf[o] /\ x.refs = 1 /\ ~x.permanent /\ ~x.inService
      BY Zenon
    <3>3. /\ routes' = [routes EXCEPT ![g] = x] /\ vecUsed' = vecUsed \cup {v}
          /\ vecEvents' = [vecEvents EXCEPT ![v] = KeysOf[o]]
      BY <2>6, Zenon
    <3> HIDE DEF x
    <3> QED BY <1>2, <1>3, <2>1, <2>6, <3>1, <3>2, <3>3, RouteAdded, Zenon
  <2> HIDE DEF entry
  <2>7. CASE ~Stuck(g)
    <3>1. pins' = [pins EXCEPT ![g] = entry] /\ keep(entry) /\ Bound(o, TRUE)
      BY <2>2, <2>7, Zenon DEF Wrote
    <3> HIDE DEF keep
    <3> QED BY <2>3, <2>6, <2>7, <3>1, Zenon
  <2>8. CASE Stuck(g) /\ ~MaskVerified(g, entry)
    <3>1. pins' = pins /\ keep(Masked(entry)) /\ Bound(o, FALSE)
      BY <2>2, <2>8, Zenon
    <3> HIDE DEF keep
    <3> QED BY <2>4, <2>6, <2>8, <3>1, Zenon
  <2>9. CASE Stuck(g) /\ MaskVerified(g, entry)
    <3>1. /\ UNCHANGED <<pins, routes, vecUsed>> /\ vecEvents' = [vecEvents EXCEPT ![v] = NoEvents]
          /\ Bound(o, FALSE)
      BY <2>2, <2>9, Zenon
    <3>2. vecEvents' \in [Vectors -> EventKeys \X EventKeys] /\ \A w \in Vectors : w # v => vecEvents'[w] = vecEvents[w]
      BY <1>1, <3>1, KeysPairs, Zenon DEF IrqType
    <3> QED BY <1>3, <2>1, <3>1, <3>2, VectorTaken, Zenon
  <2> QED BY <2>7, <2>8, <2>9, Zenon
<1> QED BY <1>4, <1>5, Zenon

\* The last reference to a route is released: its vector is free again.
LEMMA RouteFreed ==
    ASSUME IrqInv, NEW o \in IrqObjs, NEW g \in Gsis, g = GsiOf[o],
           binder[o] = "idle", acker[o] = "idle", obj[o].active,
           routes[g].valid, ~routes[g].permanent,
           routes' = [routes EXCEPT ![g] = Free], vecUsed' = vecUsed \ {routes[g].entry.vec},
           vecEvents' = [vecEvents EXCEPT ![routes[g].entry.vec] = NoEvents],
           pins' \in [Gsis -> Entry], pins'[g].masked, \A h \in Gsis : h # g => pins'[h] = pins[h],
           obj' = [obj EXCEPT ![o] = FreshObj], lost' = lost \ {o},
           UNCHANGED <<entering, binder, acker, signals, health>>
    PROVE  IrqInv'
<1> USE IrqAssumption
<1>1. IrqType /\ CallersHold /\ VectorsOwned /\ PinsOwned /\ KeyboardRouted
  BY Zenon DEF IrqInv
<1>2. /\ routes'[g] = Free /\ \A h \in Gsis : h # g => routes'[h] = routes[h]
      /\ routes' \in [Gsis -> Route \cup {Free}] /\ ~Free.valid
  BY <1>1, Zenon DEF IrqType, Free
<1>3. FreshObj \in Object /\ ~FreshObj.active /\ FreshObj.pending # AckModulus - 1
  BY DEF FreshObj, Object
<1>4. /\ obj'[o] = FreshObj /\ \A p \in IrqObjs : p # o => obj'[p] = obj[p]
      /\ obj' \in [IrqObjs -> Object]
  BY <1>1, <1>3, Zenon DEF IrqType
<1>5. PICK v \in Vectors : v = routes[g].entry.vec
  BY <1>1, Zenon DEF VectorsOwned, IrqType
<1>6. /\ vecEvents' \in [Vectors -> EventKeys \X EventKeys]
      /\ \A w \in Vectors : w # v => vecEvents'[w] = vecEvents[w]
  BY <1>1, <1>5, KeysPairs, Zenon DEF IrqType
<1>7. IrqType'
  BY <1>1, <1>2, <1>4, <1>6, Zenon DEF IrqType
<1>8. CallersHold'
  BY <1>1, <1>3, <1>4, Zenon DEF CallersHold
<1>9. \A h \in Gsis : routes'[h].valid => /\ h # g /\ routes'[h] = routes[h] /\ routes[h].entry.vec # v
                                          /\ routes[h].entry.vec \in Vectors
                                          /\ routes[h].entry.vec \in vecUsed
                                          /\ vecEvents[routes[h].entry.vec] = routes[h].events
  <2> TAKE h \in Gsis
  <2> HAVE routes'[h].valid
  <2>1. h # g /\ routes'[h] = routes[h] /\ routes[h].valid
    BY <1>2
  <2>2. /\ routes[h].entry.vec # v /\ routes[h].entry.vec \in vecUsed
        /\ vecEvents[routes[h].entry.vec] = routes[h].events
    BY <1>1, <1>5, <2>1, Zenon DEF VectorsOwned
  <2>3. vecUsed \subseteq Vectors
    BY <1>1, Zenon DEF IrqType
  <2> QED BY <2>1, <2>2, <2>3, Zenon
<1>10. VectorsOwned'
  <2>1. \A h \in Gsis : routes'[h].valid =>
           /\ routes'[h].entry.vec \in vecUsed'
           /\ vecEvents'[routes'[h].entry.vec] = routes'[h].events
    <3> TAKE h \in Gsis
    <3> HAVE routes'[h].valid
    <3>1. /\ routes'[h] = routes[h] /\ routes[h].entry.vec # v /\ routes[h].entry.vec \in Vectors
          /\ routes[h].entry.vec \in vecUsed /\ vecEvents[routes[h].entry.vec] = routes[h].events
      BY <1>9, Zenon
    <3>2. routes[h].entry.vec \in vecUsed'
      BY <1>5, <3>1, Zenon
    <3>3. vecEvents'[routes[h].entry.vec] = routes[h].events
      BY <1>6, <3>1, Zenon
    <3> QED BY <3>1, <3>2, <3>3, Zenon
  <2>2. \A h, k \in Gsis : routes'[h].valid /\ routes'[k].valid
                           /\ routes'[h].entry.vec = routes'[k].entry.vec => h = k
    <3> TAKE h, k \in Gsis
    <3> HAVE routes'[h].valid /\ routes'[k].valid /\ routes'[h].entry.vec = routes'[k].entry.vec
    <3>1. routes'[h] = routes[h] /\ routes'[k] = routes[k]
      BY <1>9, Zenon
    <3>2. routes[h].valid /\ routes[k].valid /\ routes[h].entry.vec = routes[k].entry.vec
      BY <3>1, Zenon
    <3> QED BY <1>1, <3>2, Zenon DEF VectorsOwned
  <2> QED BY <2>1, <2>2, Zenon DEF VectorsOwned
<1>11. PinsOwned'
  <2>1. ASSUME NEW h \in Gsis, ~pins'[h].masked
        PROVE  routes'[h].valid /\ routes'[h].entry.vec = pins'[h].vec
    <3>1. h # g
      BY <2>1, Zenon
    <3> QED BY <1>1, <1>2, <2>1, <3>1 DEF PinsOwned
  <2> QED BY <2>1, Zenon DEF PinsOwned
<1>12. KeyboardRouted'
  <2>1. g # KeyboardGsi
    BY <1>1, Zenon DEF KeyboardRouted
  <2>2. routes'[KeyboardGsi] = routes[KeyboardGsi]
    BY <1>2, <2>1, Zenon
  <2>3. \A h \in Gsis : routes'[h].valid =>
           /\ routes'[h].permanent <=> h = KeyboardGsi
           /\ routes'[h].inService => h \in LevelGsis /\ h # KeyboardGsi
    BY <1>1, <1>9, Zenon DEF KeyboardRouted
  <2> QED BY <1>1, <2>2, <2>3, Zenon DEF KeyboardRouted
<1>13. ASSUME NEW h \in Working' PROVE LineDriven(h)'
  <2>1. h \in Working /\ h \in Gsis
    BY <1>13, Zenon DEF Working
  <2>2. CASE h # g
    <3>1. routes'[h] = routes[h] /\ pins'[h] = pins[h]
      BY <1>2, <2>1, <2>2, Zenon
    <3>2. \A p \in IrqObjs : GsiOf[p] = h =>
               /\ obj'[p] = obj[p] /\ binder'[p] = binder[p] /\ acker'[p] = acker[p]
               /\ p \in lost' <=> p \in lost
      BY <1>4, <2>2, Zenon
    <3> QED BY <2>1, <3>1, <3>2, OtherLine, Zenon
  <2>3. CASE h = g
    <3>1. Drives(o, g)
      BY Zenon DEF Drives
    <3>2. ASSUME NEW p \in IrqObjs, Drives(p, g) PROVE p = o
      <4>1. LineDriven(g)
        BY <2>1, <2>3, Zenon DEF IrqInv, LinesDriven
      <4> HIDE DEF Drives, Owes
      <4> QED BY <3>1, <3>2, <4>1, Zenon DEF LineDriven
    <3>3. ASSUME NEW p \in IrqObjs PROVE ~Drives(p, g)'
      <4>1. CASE p = o
        BY <1>3, <1>4, <4>1, Zenon DEF Drives
      <4>2. CASE p # o
        BY <1>4, <3>2, <4>2, Zenon DEF Drives
      <4> QED BY <4>1, <4>2, Zenon
    <3>4. \A p \in IrqObjs : GsiOf[p] = g /\ obj'[p].pending = AckModulus - 1 => p \in lost'
      <4> TAKE p \in IrqObjs
      <4>1. CASE p = o
        BY <1>3, <1>4, <4>1, Zenon
      <4>2. CASE p # o
        BY <1>4, <2>1, <2>3, <4>2, DriverFacts, Zenon
      <4> QED BY <4>1, <4>2, Zenon
    <3>5. ~routes'[g].valid
      BY <1>2, Zenon
    <3>6. LineDriven(g)'
      <4> HIDE DEF Drives, Owes
      <4> QED BY <3>3, <3>4, <3>5, Zenon DEF LineDriven
    <3> QED BY <2>3, <3>6, Zenon
  <2> QED BY <2>2, <2>3, Zenon
<1> QED BY <1>7, <1>8, <1>10, <1>11, <1>12, <1>13, Zenon DEF IrqInv, LinesDriven

\* Drop of an Interrupt, and the release of its route when it has one.
LEMMA DropInterruptStep ==
    ASSUME IrqInv, NEW o \in IrqObjs, DropInterrupt(o)
    PROVE  IrqInv'
<1> USE IrqAssumption
<1>1. IrqType /\ CallersHold /\ PinsOwned /\ KeyboardRouted
  BY Zenon DEF IrqInv
<1>2. PICK g \in Gsis : g = GsiOf[o]
  BY Zenon
<1>3. /\ binder[o] = "idle" /\ acker[o] = "idle" /\ obj' = [obj EXCEPT ![o] = FreshObj]
      /\ lost' = lost \ {o} /\ UNCHANGED <<entering, binder, acker, signals, health>>
  BY Zenon DEF DropInterrupt, hardware
<1>4. /\ FreshObj \in Object /\ ~FreshObj.active /\ ~FreshObj.bound
      /\ FreshObj.pending # AckModulus - 1
  BY DEF FreshObj, Object
<1>5. /\ obj'[o] = FreshObj /\ \A p \in IrqObjs : p # o => obj'[p] = obj[p]
      /\ obj' \in [IrqObjs -> Object] /\ lost' \in SUBSET IrqObjs
  BY <1>1, <1>3, <1>4, Zenon DEF IrqType
<1>6. CallersHold'
  BY <1>1, <1>3, <1>4, <1>5, Zenon DEF CallersHold
<1>7. ASSUME NEW h \in Working, NEW p \in IrqObjs, GsiOf[p] = h,
             h = g => ~Drives(o, g)
      PROVE  /\ Drives(p, h)' <=> Drives(p, h)
             /\ Drives(p, h) => (obj[p].ackReq)'
             /\ (obj[p].pending)' = AckModulus - 1 => p \in lost'
             /\ Drives(p, h) => p # o
  <2>1. /\ Drives(p, h) => obj[p].ackReq
        /\ obj[p].pending = AckModulus - 1 => p \in lost
    BY <1>7, DriverFacts, Zenon
  <2>2. Drives(p, h) => p # o
    BY <1>2, <1>7, Zenon DEF Drives
  <2>3. CASE p = o
    <3>1. ~Drives(p, h)'
      BY <1>3, <1>4, <1>5, <2>3, Zenon DEF Drives
    <3> QED BY <1>4, <1>5, <2>2, <2>3, <3>1, Zenon
  <2>4. CASE p # o
    <3>1. Drives(p, h)' <=> Drives(p, h)
      BY <1>3, <1>5, <2>4, Zenon DEF Drives
    <3> QED BY <1>3, <1>5, <2>1, <2>4, <3>1, Zenon
  <2> QED BY <2>3, <2>4, Zenon
<1>8. CASE UNCHANGED <<pins, routes, vecUsed, vecEvents>> /\ (g \in Working => ~Drives(o, g))
  <2>1. IrqType'
    BY <1>1, <1>3, <1>5, <1>8, Zenon DEF IrqType
  <2>2. ASSUME NEW h \in Working, NEW p \in IrqObjs, GsiOf[p] = h, Drives(p, h),
               routes[h].valid, routes[h].inService
        PROVE  Owes(p, h)'
    <3>1. p # o
      BY <1>7, <1>8, <2>2, Zenon
    <3>2. Owes(p, h)
      BY <2>2, DriverFacts, Zenon
    <3> QED BY <1>3, <1>5, <1>8, <3>1, <3>2, Zenon DEF Owes
  <2> HIDE DEF Drives, Owes
  <2> QED BY <1>3, <1>6, <1>7, <1>8, <2>1, <2>2, ObjectStep, Zenon
<1>9. CASE ~obj[o].active
  <2>1. UNCHANGED <<pins, routes, vecUsed, vecEvents>>
    BY <1>9, Zenon DEF DropInterrupt
  <2>2. ~Drives(o, g)
    BY <1>3, <1>9, Zenon DEF Drives
  <2> QED BY <1>8, <2>1, <2>2, Zenon
<1>10. CASE obj[o].active
  <2>1. Released(g) /\ Drives(o, g)
    BY <1>2, <1>3, <1>10, Zenon DEF DropInterrupt, Drives
  <2>2. g \in Working => /\ routes[g].valid /\ ~routes[g].permanent /\ routes[g].refs = 1 /\ ~Stuck(g)
                         /\ pins[g].vec = routes[g].entry.vec /\ pins[g].dest = routes[g].entry.dest
    <3> HAVE g \in Working
    <3>1. routes[g].valid
      BY <1>2, <2>1, DriverFacts, Zenon
    <3>2. /\ routes[g].refs = 1 /\ ~Stuck(g) /\ g # KeyboardGsi
          /\ pins[g].vec = routes[g].entry.vec /\ pins[g].dest = routes[g].entry.dest
      BY <3>1, LineFacts, Zenon
    <3> QED BY <1>1, <3>1, <3>2, Zenon DEF KeyboardRouted
  <2>3. CASE ~routes[g].valid \/ routes[g].permanent
    BY <1>8, <2>1, <2>2, <2>3, Zenon DEF Released
  <2>4. ASSUME routes[g].valid, ~routes[g].permanent, g \notin Working, NEW x \in Route,
               routes' = [routes EXCEPT ![g] = x], UNCHANGED <<vecUsed, vecEvents>>,
               x.entry.vec = routes[g].entry.vec, x.events = routes[g].events,
               x.permanent = routes[g].permanent, x.inService = routes[g].inService,
               pins' \in [Gsis -> Entry], \A h \in Gsis : h # g => pins'[h] = pins[h],
               ~pins'[g].masked => ~pins[g].masked /\ pins'[g].vec = pins[g].vec
        PROVE  IrqInv'
    <3>1. /\ routes'[g] = x /\ \A h \in Gsis : h # g => routes'[h] = routes[h]
          /\ routes' \in [Gsis -> Route \cup {Free}]
      BY <1>1, <2>4, Zenon DEF IrqType
    <3>2. routes[g].valid = TRUE /\ x.valid = TRUE
      <4>1. routes[g] \in Route
        BY <1>1, <2>4, RouteFacts, Zenon
      <4> QED BY <4>1, Zenon DEF Route
    <3>3. IrqType'
      BY <1>1, <1>3, <1>5, <2>4, <3>1, Zenon DEF IrqType
    <3>4. ASSUME NEW h \in Gsis
          PROVE  /\ routes'[h].valid = routes[h].valid
                 /\ routes[h].valid =>
                        /\ routes'[h].entry.vec = routes[h].entry.vec
                        /\ routes'[h].events = routes[h].events
                        /\ routes'[h].permanent = routes[h].permanent
                        /\ routes'[h].inService =>
                               routes[h].inService \/ (h \in LevelGsis /\ ~routes[h].permanent)
                 /\ ~pins'[h].masked => routes[h].valid /\ pins'[h].vec = routes[h].entry.vec
      <4>1. CASE h = g
        <5>1. ~pins'[g].masked => pins'[g].vec = routes[g].entry.vec
          BY <1>1, <2>4, Zenon DEF PinsOwned
        <5> QED BY <2>4, <3>1, <3>2, <4>1, <5>1, Zenon
      <4>2. CASE h # g
        BY <1>1, <2>4, <3>1, <4>2, Zenon DEF PinsOwned
      <4> QED BY <4>1, <4>2, Zenon
    <3>5. ASSUME NEW h \in Working, routes[h].valid
          PROVE  /\ routes'[h].refs = routes[h].refs
                 /\ pins'[h].vec = routes'[h].entry.vec /\ pins'[h].dest = routes'[h].entry.dest
                 /\ routes'[h].inService =>
                        routes'[h].acks = 1 /\ \A p \in IrqObjs : Drives(p, h) => Owes(p, h)'
      <4>1. h # g /\ h \in Gsis
        BY <2>4, Zenon DEF Working
      <4>2. routes'[h] = routes[h] /\ pins'[h] = pins[h]
        BY <2>4, <3>1, <4>1, Zenon
      <4>3. /\ pins[h].vec = routes[h].entry.vec /\ pins[h].dest = routes[h].entry.dest
            /\ routes[h].inService =>
                   routes[h].acks = 1 /\ \A p \in IrqObjs : Drives(p, h) => Owes(p, h)
        BY <3>5, LineFacts, Zenon
      <4>4. \A p \in IrqObjs : Drives(p, h) /\ Owes(p, h) => Owes(p, h)'
        BY <1>2, <1>3, <1>5, <4>1, <4>2, Zenon DEF Drives, Owes
      <4> HIDE DEF Drives, Owes
      <4> QED BY <4>2, <4>3, <4>4, Zenon
    <3>6. ASSUME NEW h \in Working, NEW p \in IrqObjs, GsiOf[p] = h
          PROVE  /\ Drives(p, h)' <=> Drives(p, h)
                 /\ Drives(p, h) => (obj[p].ackReq)'
                 /\ (obj[p].pending)' = AckModulus - 1 => p \in lost'
      BY <1>7, <2>4, <3>6, Zenon
    <3> HIDE DEF Drives, Owes
    <3> QED BY <1>3, <1>6, <2>4, <3>3, <3>4, <3>5, <3>6, RecordStep, Zenon
  <2>5. CASE routes[g].valid /\ ~routes[g].permanent
    <3>1. /\ routes[g] \in Route /\ routes[g].entry \in Entry /\ routes[g].refs \in Nat
          /\ pins[g] \in Entry
      BY <1>1, <2>5, RouteFacts, Zenon
    <3>2. CASE routes[g].refs > 1
      <4> DEFINE n == routes[g].refs - 1
                 x == [routes[g] EXCEPT !.refs = n]
      <4>1. routes' = [routes EXCEPT ![g] = x] /\ UNCHANGED <<pins, vecUsed, vecEvents>>
        BY <2>1, <2>5, <3>2, Zenon DEF Released
      <4>2. n \in Nat
        BY <3>1, <3>2
      <4> HIDE DEF n
      <4>3. x \in Route
        BY <3>1, <4>2, Zenon DEF Route
      <4>4. /\ x.entry = routes[g].entry /\ x.events = routes[g].events
            /\ x.permanent = routes[g].permanent /\ x.inService = routes[g].inService
        BY <3>1, Zenon DEF Route
      <4>5. g \notin Working
        BY <2>2, <3>2
      <4>6. pins' \in [Gsis -> Entry]
        BY <1>1, <4>1, Zenon DEF IrqType
      <4> HIDE DEF x
      <4> QED BY <2>4, <2>5, <4>1, <4>3, <4>4, <4>5, <4>6, Zenon
    <3>3. CASE ~(routes[g].refs > 1)
      <4>1. /\ Masked(pins[g]) \in Entry /\ Masked(pins[g]).masked
            /\ Masked(pins[g]).vec = pins[g].vec /\ Masked(pins[g]).dest = pins[g].dest
            /\ Masked(routes[g].entry) \in Entry /\ Masked(routes[g].entry).masked
            /\ Masked(routes[g].entry).vec = routes[g].entry.vec
            /\ Masked(routes[g].entry).dest = routes[g].entry.dest
        BY <3>1, EntryFacts, Zenon
      <4>2. /\ pins' \in [Gsis -> Entry] /\ \A h \in Gsis : h # g => pins'[h] = pins[h]
            /\ pins'[g] = IF Stuck(g) THEN pins[g] ELSE Masked(pins[g])
            /\ MaskVerified(g, routes[g].entry) <=> pins'[g] = Masked(routes[g].entry)
        <5>1. pins' = MaskPin(g)
          BY <2>1, <2>5, <3>3, Zenon DEF Released
        <5>2. pins' = IF Stuck(g) THEN pins ELSE [pins EXCEPT ![g] = Masked(pins[g])]
          BY <5>1, Zenon DEF MaskPin, Wrote
        <5>3. MaskVerified(g, routes[g].entry) <=> pins'[g] = Masked(routes[g].entry)
          BY <5>1, Zenon DEF MaskVerified
        <5> QED BY <1>1, <4>1, <5>2, <5>3, Zenon DEF IrqType
      <4>3. CASE MaskVerified(g, routes[g].entry)
        <5>1. /\ routes' = [routes EXCEPT ![g] = Free]
              /\ vecUsed' = vecUsed \ {routes[g].entry.vec}
              /\ vecEvents' = [vecEvents EXCEPT ![routes[g].entry.vec] = NoEvents]
          BY <2>1, <2>5, <3>3, <4>3, Zenon DEF Released
        <5>2. pins'[g].masked
          BY <4>1, <4>2, <4>3, Zenon
        <5> QED BY <1>2, <1>3, <1>10, <2>5, <4>2, <5>1, <5>2, RouteFreed, Zenon
      <4>4. CASE ~MaskVerified(g, routes[g].entry)
        <5>1. g \notin Working
          <6>1. g \in Working => Masked(pins[g]) = Masked(routes[g].entry)
            BY <2>2, <4>1, EntryEqual, Zenon
          <6> QED BY <2>2, <4>2, <4>4, <6>1, Zenon
        <5> DEFINE e == Masked(routes[g].entry)
                   x == [routes[g] EXCEPT !.entry = e, !.manual = TRUE, !.refs = 1]
        <5>2. routes' = [routes EXCEPT ![g] = x] /\ UNCHANGED <<vecUsed, vecEvents>>
          BY <2>1, <2>5, <3>3, <4>4, Zenon DEF Released
        <5>3. e \in Entry /\ e.vec = routes[g].entry.vec
          BY <4>1, Zenon
        <5> HIDE DEF e
        <5>4. x \in Route
          BY <3>1, <5>3, Zenon DEF Route
        <5>5. /\ x.entry = e /\ x.events = routes[g].events
              /\ x.permanent = routes[g].permanent /\ x.inService = routes[g].inService
          BY <3>1, Zenon DEF Route
        <5>6. ~pins'[g].masked => ~pins[g].masked /\ pins'[g].vec = pins[g].vec
          BY <4>1, <4>2, Zenon
        <5> HIDE DEF x
        <5> QED BY <2>4, <2>5, <4>2, <5>1, <5>2, <5>3, <5>4, <5>5, <5>6, Zenon
      <4> QED BY <4>3, <4>4, Zenon
    <3> QED BY <3>2, <3>3, Zenon
  <2> QED BY <2>3, <2>5, Zenon
<1> QED BY <1>9, <1>10, Zenon

\* initialize and init_keyboard establish the invariant.
LEMMA IrqInitInv == IrqInit => IrqInv
<1> USE IrqAssumption
<1> HAVE IrqInit
<1> DEFINE cpu == Min(OnlineCpus)
           entry == [vec |-> KeyboardVector, dest |-> cpu, masked |-> FALSE]
           keyboard == [valid |-> TRUE, entry |-> entry, refs |-> 0, permanent |-> TRUE,
                        inService |-> FALSE, acks |-> 0, manual |-> FALSE,
                        events |-> <<"legacy1", "none">>]
<1>1. /\ pins = [g \in Gsis |-> IF g = KeyboardGsi THEN entry ELSE Unrouted]
      /\ routes = [g \in Gsis |-> IF g = KeyboardGsi THEN keyboard ELSE Free]
      /\ health = [g \in Gsis |-> "good"] /\ vecUsed = {KeyboardVector}
      /\ vecEvents = [v \in Vectors |-> IF v = KeyboardVector THEN <<"legacy1", "none">> ELSE NoEvents]
      /\ obj = [o \in IrqObjs |-> FreshObj] /\ binder = [o \in IrqObjs |-> "idle"]
      /\ acker = [o \in IrqObjs |-> "idle"] /\ signals = {} /\ lost = {}
  BY Zenon DEF IrqInit
<1>2. cpu \in OnlineCpus
  BY LeastOf, Zenon
<1> HIDE DEF cpu
<1>3. entry \in Entry /\ entry.vec = KeyboardVector /\ Unrouted \in Entry /\ Unrouted.masked
  BY <1>2, Zenon DEF Entry, Unrouted
<1> HIDE DEF entry
<1>4. /\ keyboard \in Route /\ keyboard.valid /\ keyboard.permanent /\ ~keyboard.inService
      /\ keyboard.entry = entry /\ keyboard.events = <<"legacy1", "none">>
  <2>1. keyboard \in Route
    BY <1>3, KeysPairs, Zenon DEF Route
  <2> QED BY <2>1, Zenon
<1> HIDE DEF keyboard
<1>5. FreshObj \in Object /\ ~FreshObj.active /\ ~FreshObj.bound /\ FreshObj.pending # AckModulus - 1
  BY DEF FreshObj, Object
<1>6. \A g \in Gsis : /\ routes[g] = IF g = KeyboardGsi THEN keyboard ELSE Free
                      /\ pins[g] = IF g = KeyboardGsi THEN entry ELSE Unrouted
                      /\ routes[g].valid => g = KeyboardGsi
  BY <1>1, Zenon DEF Free
<1>7. IrqType
  <2>1. pins \in [Gsis -> Entry] /\ routes \in [Gsis -> Route \cup {Free}]
    BY <1>1, <1>3, <1>4, Zenon
  <2>2. vecEvents \in [Vectors -> EventKeys \X EventKeys]
    BY <1>1, KeysPairs, Zenon
  <2> QED BY <1>1, <1>5, <2>1, <2>2, Zenon DEF IrqType
<1>8. VectorsOwned
  <2>1. vecEvents[KeyboardVector] = <<"legacy1", "none">>
    BY <1>1, Zenon
  <2> QED BY <1>1, <1>3, <1>4, <1>6, <2>1, Zenon DEF VectorsOwned
<1>9. PinsOwned
  BY <1>3, <1>4, <1>6, Zenon DEF PinsOwned
<1>10. KeyboardRouted
  BY <1>3, <1>4, <1>6, Zenon DEF KeyboardRouted
<1>11. CallersHold
  BY <1>1, <1>5, Zenon DEF CallersHold
<1>12. ASSUME NEW g \in Working PROVE LineDriven(g)
  <2>1. g \in Gsis /\ ~routes[g].valid
    BY <1>6, Zenon DEF Working
  <2>2. \A o \in IrqObjs : ~Drives(o, g) /\ obj[o].pending # AckModulus - 1
    BY <1>1, <1>5, Zenon DEF Drives
  <2> HIDE DEF Drives, Owes
  <2> QED BY <2>1, <2>2, Zenon DEF LineDriven
<1> QED BY <1>7, <1>8, <1>9, <1>10, <1>11, <1>12, Zenon DEF IrqInv, LinesDriven

\* The invariant is one of every step of the interrupt code, the drivers and the devices.
THEOREM IrqInvariant == IrqSpec => []IrqInv
<1>1. IrqInit => IrqInv
  BY IrqInitInv, Zenon
<1>2. IrqInv /\ [IrqNext]_irqVars => IrqInv'
  <2> SUFFICES ASSUME IrqInv, [IrqNext]_irqVars PROVE IrqInv'
    BY Zenon
  <2>1. ASSUME NEW o \in IrqObjs,
               BindPort(o) \/ BindDone(o) \/ DropInterrupt(o) \/ Acknowledge(o) \/ AcknowledgeRoute(o)
        PROVE  IrqInv'
    BY <2>1, BindPortStep, BindDoneStep, DropInterruptStep, AcknowledgeStep, AcknowledgeRouteStep, Zenon
  <2>2. ASSUME NEW o \in IrqObjs, NEW cpu \in OnlineCpus, JoinRoute(o, cpu) \/ NewRoute(o, cpu)
        PROVE  IrqInv'
    BY <2>2, JoinRouteStep, NewRouteStep, Zenon
  <2>3. ASSUME NEW g \in ActiveGsis, Device(g) \/ MaskGsi(g) \/ UnmaskGsi(g)
        PROVE  IrqInv'
    <3>1. g \in Gsis
      BY IrqAssumption, Zenon
    <3> QED BY <2>3, <3>1, HardwareStep, MaskGsiStep, UnmaskGsiStep, Zenon
  <2>4. ASSUME NEW g \in ActiveGsis, NEW cpu \in OnlineCpus, SetAffinity(g, cpu)
        PROVE  IrqInv'
    <3>1. g \in Gsis
      BY IrqAssumption, Zenon
    <3> QED BY <2>4, <3>1, SetAffinityStep, Zenon
  <2>5. ASSUME NEW v \in Vectors, BeginInterrupt(v) \/ Dispatch(v)
        PROVE  IrqInv'
    BY <2>5, BeginInterruptStep, DispatchStep, Zenon
  <2>6. ASSUME NEW s \in signals, QueueSignal(s)
        PROVE  IrqInv'
    BY <2>6, QueueSignalStep, Zenon
  <2>7. CASE UsePort
    BY <2>7, HardwareStep, Zenon
  <2>8. CASE UNCHANGED irqVars
    <3>1. UNCHANGED <<pins, routes, vecUsed, vecEvents, health, entering, obj, binder, acker, signals, lost>>
      BY <2>8, Zenon DEF irqVars
    <3>2. IrqType' /\ CallersHold'
      BY <3>1, Zenon DEF IrqInv, IrqType, CallersHold
    <3>3. ASSUME NEW h \in Working, NEW p \in IrqObjs, GsiOf[p] = h
          PROVE  /\ Drives(p, h)' <=> Drives(p, h)
                 /\ Drives(p, h) => (obj[p].ackReq)'
                 /\ (obj[p].pending)' = AckModulus - 1 => p \in lost'
                 /\ Drives(p, h) /\ routes[h].valid /\ routes[h].inService => Owes(p, h)'
      <4>1. (Drives(p, h)' <=> Drives(p, h)) /\ (Owes(p, h) => Owes(p, h)')
        BY <3>1, Zenon DEF Drives, Owes
      <4> HIDE DEF Drives, Owes
      <4> QED BY <3>1, <3>3, <4>1, DriverFacts, Zenon
    <3> QED BY <3>1, <3>2, <3>3, ObjectStep, Zenon
  <2> QED BY <2>1, <2>2, <2>3, <2>4, <2>5, <2>6, <2>7, <2>8, Zenon DEF IrqNext
<1> QED BY <1>1, <1>2, PTL DEF IrqSpec

\* For any number of pins, vectors and Interrupts, and whatever writes are lost: an open
\* pin belongs to a route whose vector is reserved and whose events are published, and a
\* working level line in service has somebody who is due to end the service.
THEOREM RoutesAlwaysSound == IrqSpec => []RoutesSound
<1>1. IrqInv => RoutesSound
  <2> SUFFICES ASSUME IrqInv, NEW g \in Gsis
               PROVE  /\ ~pins[g].masked =>
                            /\ routes[g].valid /\ routes[g].entry.vec = pins[g].vec
                            /\ pins[g].vec \in vecUsed /\ vecEvents[pins[g].vec] = routes[g].events
                      /\ routes[g].valid /\ routes[g].inService /\ health[g] = "good" => Owed(g)
    BY Zenon DEF RoutesSound
  <2>1. VectorsOwned /\ PinsOwned /\ KeyboardRouted
    BY Zenon DEF IrqInv
  <2>2. ~pins[g].masked =>
            /\ routes[g].valid /\ routes[g].entry.vec = pins[g].vec
            /\ pins[g].vec \in vecUsed /\ vecEvents[pins[g].vec] = routes[g].events
    BY <2>1, Zenon DEF VectorsOwned, PinsOwned
  <2>3. ASSUME routes[g].valid, routes[g].inService, health[g] = "good" PROVE Owed(g)
    <3>1. g \in Working
      BY <2>1, <2>3, Zenon DEF KeyboardRouted, Working
    <3>2. PICK o \in IrqObjs : Drives(o, g) /\ Owes(o, g)
      <4> HIDE DEF Drives, Owes
      <4> QED BY <2>3, <3>1, LineFacts, Zenon
    <3> QED BY <3>2, Zenon DEF Owed, Owes, Drives
  <2> QED BY <2>2, <2>3, Zenon
<1> QED BY <1>1, IrqInvariant, PTL
=============================================================================
