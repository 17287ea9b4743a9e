--------------------------- MODULE RunqueueToken ---------------------------
(***************************************************************************)
(* The runqueue-token mailbox of one target CPU                            *)
(* (crates/huesos-kernel/src/scheduler.rs).  A thread that wants to change *)
(* the runqueue of another CPU posts a request in that CPU's mailbox; the  *)
(* target CPU grants it from its next scheduler entry by writing the       *)
(* requesting CPU into the token and publishing GRANTED.  A requester that *)
(* has spun long enough cancels.  Every atomic load, store and             *)
(* compare-exchange of the code is one step here.                          *)
(***************************************************************************)
EXTENDS Integers, FiniteSets

CONSTANTS Threads,      \* threads that spawn or re-policy tasks on this CPU
          Cpus,         \* the CPUs those threads run on
          CpuOf,        \* the CPU of each thread
          RUNQUEUE_TOKEN_FREE,
          MaxRequests   \* bound on NEXT_TOKEN_REQUEST_ID

ASSUME RequestersAssumption == CpuOf \in [Threads -> Cpus]
ASSUME FreeAssumption == RUNQUEUE_TOKEN_FREE \notin Cpus
ASSUME RequestBoundAssumption == MaxRequests \in Nat

VARIABLES token,      \* RUNQUEUE_TOKENS[cpu]
          state,      \* TOKEN_MAILBOX_STATE[cpu]
          requester,  \* TOKEN_MAILBOX_REQUESTER[cpu]
          requestId,  \* TOKEN_MAILBOX_REQUEST_ID[cpu]
          nextId,     \* NEXT_TOKEN_REQUEST_ID
          pc,         \* where each thread is in acquire / drop / cancel
          myId,       \* request_id of each thread's current request
          ownerPc,    \* where the target CPU is in process_runqueue_token_mailbox
          ownerReq    \* the requester value the target CPU has loaded

vars == <<token, state, requester, requestId, nextId, pc, myId, ownerPc, ownerReq>>
mailbox == <<token, state, requester, requestId>>
owner == <<ownerPc, ownerReq>>

MailboxStates == {"EMPTY", "FILLING", "PENDING", "GRANTED"}

\* Program points between interrupts::disable() and the return of
\* acquire_runqueue_token: no other thread of that CPU runs meanwhile.
IrqOffPoints == {"try_fill", "store_requester", "store_id", "store_pending",
                 "wait_id", "wait_state", "cancel_id", "cancel_pending",
                 "cancel_id_again", "cancel_state", "cancel_token", "cancel_empty"}
\* Program points at which the thread owns a remote RunqueueTokenGuard.
GuardPoints == {"holding", "drop_token", "drop_id", "drop_empty"}
Points == {"idle"} \cup IrqOffPoints \cup GuardPoints

Ids == 0 .. MaxRequests

TypeOK ==
    /\ token \in Cpus \cup {RUNQUEUE_TOKEN_FREE}
    /\ state \in MailboxStates
    /\ requester \in Cpus
    /\ requestId \in Ids
    /\ nextId \in 1 .. MaxRequests + 1
    /\ pc \in [Threads -> Points]
    /\ myId \in [Threads -> Ids]
    /\ ownerPc \in {"idle", "load", "cas_token", "cas_state", "undo"}
    /\ ownerReq \in Cpus

Init ==
    /\ token = RUNQUEUE_TOKEN_FREE
    /\ state = "EMPTY"
    /\ requester \in Cpus
    /\ requestId = 0
    /\ nextId = 1
    /\ pc = [t \in Threads |-> "idle"]
    /\ myId = [t \in Threads |-> 0]
    /\ ownerPc = "idle"
    /\ ownerReq = requester

-----------------------------------------------------------------------------
(* Requesting threads *)

CanRun(t) == \A u \in Threads \ {t} : CpuOf[u] = CpuOf[t] => pc[u] \notin IrqOffPoints

\* Thread t moves between two program points of one request.
Step(t, from, to) ==
    /\ CanRun(t)
    /\ pc[t] = from
    /\ pc' = [pc EXCEPT ![t] = to]
    /\ UNCHANGED <<nextId, myId, owner>>

SetState(s) == state' = s /\ UNCHANGED <<token, requester, requestId>>
SetToken(c) == token' = c /\ UNCHANGED <<state, requester, requestId>>

\* acquire_runqueue_token draws a fresh request id.
BeginAcquire(t) ==
    /\ CanRun(t) /\ pc[t] = "idle"
    /\ nextId <= MaxRequests
    /\ myId' = [myId EXCEPT ![t] = nextId]
    /\ nextId' = nextId + 1
    /\ pc' = [pc EXCEPT ![t] = "try_fill"]
    /\ UNCHANGED <<mailbox, owner>>

\* The first spin loop succeeds, or runs out: the code then still enters the
\* second loop, with an id that is not in the mailbox.
ClaimMailbox(t) ==
    Step(t, "try_fill", "store_requester") /\ state = "EMPTY" /\ SetState("FILLING")
GiveUpClaim(t) ==
    Step(t, "try_fill", "wait_id") /\ state # "EMPTY" /\ UNCHANGED mailbox

StoreRequester(t) ==
    /\ Step(t, "store_requester", "store_id")
    /\ requester' = CpuOf[t]
    /\ UNCHANGED <<token, state, requestId>>
StoreRequestId(t) ==
    /\ Step(t, "store_id", "store_pending")
    /\ requestId' = myId[t]
    /\ UNCHANGED <<token, state, requester>>
StorePending(t) ==
    Step(t, "store_pending", "wait_id") /\ SetState("PENDING")

\* Mutant: the request id is not compared.
WaitIdUnchecked(t) ==
    Step(t, "wait_id", "wait_state") /\ UNCHANGED mailbox

\* The second spin loop: first the id is compared, then the state.
WaitId(t) ==
    Step(t, "wait_id", "wait_state") /\ requestId = myId[t] /\ UNCHANGED mailbox
WaitState(t) ==
    /\ Step(t, "wait_state", IF state = "GRANTED" THEN "holding" ELSE "wait_id")
    /\ UNCHANGED mailbox

\* TOKEN_WAIT_ITERS iterations have passed.
WaitTimeout(t) ==
    Step(t, "wait_id", "cancel_id") /\ UNCHANGED mailbox

\* cancel_runqueue_token_request: withdraw a PENDING request, else give back a
\* grant that came too late.
CancelLoadId(t) ==
    /\ Step(t, "cancel_id", IF requestId = myId[t] THEN "cancel_pending" ELSE "idle")
    /\ UNCHANGED mailbox
CancelPending(t) ==
    \/ /\ state = "PENDING"
       /\ Step(t, "cancel_pending", "idle")
       /\ SetState("EMPTY")
    \/ /\ state # "PENDING"
       /\ Step(t, "cancel_pending", "cancel_id_again")
       /\ UNCHANGED mailbox
CancelLoadIdAgain(t) ==
    /\ Step(t, "cancel_id_again", IF requestId = myId[t] THEN "cancel_state" ELSE "idle")
    /\ UNCHANGED mailbox
CancelLoadState(t) ==
    /\ Step(t, "cancel_state", IF state = "GRANTED" THEN "cancel_token" ELSE "idle")
    /\ UNCHANGED mailbox
CancelToken(t) ==
    /\ Step(t, "cancel_token", "cancel_empty")
    /\ SetToken(IF token = CpuOf[t] THEN RUNQUEUE_TOKEN_FREE ELSE token)
CancelEmpty(t) ==
    /\ Step(t, "cancel_empty", "idle")
    /\ SetState(IF state = "GRANTED" THEN "EMPTY" ELSE state)

\* The runqueue change is made and the guard goes out of scope.
EndCriticalSection(t) ==
    Step(t, "holding", "drop_token") /\ UNCHANGED mailbox
DropToken(t) ==
    Step(t, "drop_token", "drop_id") /\ SetToken(RUNQUEUE_TOKEN_FREE)
DropLoadId(t) ==
    /\ Step(t, "drop_id", IF requestId = myId[t] THEN "drop_empty" ELSE "idle")
    /\ UNCHANGED mailbox

\* Mutant: the guard frees the token but not the mailbox.
DropEmptyForgotten(t) ==
    Step(t, "drop_empty", "idle") /\ UNCHANGED mailbox
DropEmpty(t) ==
    Step(t, "drop_empty", "idle") /\ SetState("EMPTY")

-----------------------------------------------------------------------------
(* The target CPU: process_runqueue_token_mailbox *)

OwnerMove(from, to) ==
    /\ ownerPc = from
    /\ ownerPc' = to
    /\ UNCHANGED <<nextId, pc, myId>>

OwnerSeesPending ==
    OwnerMove("idle", "load") /\ state = "PENDING" /\ UNCHANGED <<mailbox, ownerReq>>

\* The requester is always a CPU index here, so the >= MAX_CPUS branch is dead.
OwnerLoadRequester ==
    OwnerMove("load", "cas_token") /\ ownerReq' = requester /\ UNCHANGED mailbox

OwnerCasToken ==
    /\ \/ /\ token = RUNQUEUE_TOKEN_FREE
          /\ OwnerMove("cas_token", "cas_state")
          /\ SetToken(ownerReq)
       \/ /\ token # RUNQUEUE_TOKEN_FREE
          /\ OwnerMove("cas_token", "idle")
          /\ UNCHANGED mailbox
    /\ UNCHANGED ownerReq

OwnerCasState ==
    /\ \/ state = "PENDING" /\ OwnerMove("cas_state", "idle") /\ SetState("GRANTED")
       \/ state # "PENDING" /\ OwnerMove("cas_state", "undo") /\ UNCHANGED mailbox
    /\ UNCHANGED ownerReq

OwnerUndo ==
    OwnerMove("undo", "idle") /\ SetToken(RUNQUEUE_TOKEN_FREE) /\ UNCHANGED ownerReq

-----------------------------------------------------------------------------
ThreadStep(t) ==
    \/ BeginAcquire(t) \/ ClaimMailbox(t) \/ GiveUpClaim(t)
    \/ StoreRequester(t) \/ StoreRequestId(t) \/ StorePending(t)
    \/ WaitId(t) \/ WaitState(t) \/ WaitTimeout(t)
    \/ CancelLoadId(t) \/ CancelPending(t) \/ CancelLoadIdAgain(t)
    \/ CancelLoadState(t) \/ CancelToken(t) \/ CancelEmpty(t)
    \/ EndCriticalSection(t) \/ DropToken(t) \/ DropLoadId(t) \/ DropEmpty(t)

OwnerStep ==
    \/ OwnerSeesPending \/ OwnerLoadRequester \/ OwnerCasToken
    \/ OwnerCasState \/ OwnerUndo

Next == OwnerStep \/ \E t \in Threads : ThreadStep(t)

\* The target CPU keeps entering its scheduler, threads keep running, and the
\* second spin loop is bounded by TOKEN_WAIT_ITERS, so a wait ends.
Fairness ==
    /\ WF_vars(OwnerStep)
    /\ \A t \in Threads : /\ WF_vars(pc[t] # "idle" /\ ThreadStep(t))
                          /\ SF_vars(WaitTimeout(t))

Spec == Init /\ [][Next]_vars
FairSpec == Spec /\ Fairness

-----------------------------------------------------------------------------
(* Properties *)

\* Mutual exclusion of remote runqueue changes: acquire_runqueue_token never
\* leaves two threads owning a remote RunqueueTokenGuard of the same CPU.
GuardExclusive ==
    \A t, u \in Threads : pc[t] \in GuardPoints /\ pc[u] \in GuardPoints => t = u

\* A posted or granted request always has a living requester that will consume
\* or cancel it: no path out of acquire_runqueue_token or out of the guard's
\* drop abandons the mailbox in PENDING or GRANTED.
MailboxOwned ==
    state \in {"PENDING", "GRANTED"} =>
        \E t \in Threads : pc[t] \notin {"idle", "try_fill"} /\ myId[t] = requestId

\* The mailbox is never blocked for good: it is EMPTY again and again, so later
\* remote spawns can always post their request.
MailboxReopens == []<>(state = "EMPTY")

=============================================================================
