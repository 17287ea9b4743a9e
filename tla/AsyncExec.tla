----------------------------- MODULE AsyncExec -----------------------------
(***************************************************************************)
(* The hues-async executor: a fixed array of task slots, a ready bitmask,  *)
(* generation-guarded task identifiers and wakers that are bare pointers   *)
(* to a slot; and drive, which runs one future to completion (block_on and *)
(* scope_on).  The executor is single-threaded: a future's poll is one     *)
(* step, in which the future may wake slots, spawn another future, keep a  *)
(* clone of its waker, finish, or stay pending.                            *)
(***************************************************************************)
EXTENDS Naturals, FiniteSets

CONSTANTS
    ExeTasks,       \* TASKS
    FutureRoom,     \* F, the inline storage of one slot
    FutureSizes,    \* sizes of the futures that are offered
    FutureAligns,   \* alignments of the futures that are offered
    GenModulus,     \* 2^32: generations wrap
    MaxFutures      \* bound: futures spawned in one behaviour

VARIABLE exe

ExeSlots == 0 .. ExeTasks - 1

\* Storage is repr(align(16)): in the units of FutureAligns.
StorageAlign == 16

NoFuture == 0

\* TaskId::INVALID names an index no executor has.
InvalidId == [index |-> ExeTasks, gen |-> GenModulus - 1, future |-> NoFuture]

\* new_with: every slot free, at generation 0, nothing ready.  `due`, `drops`
\* and the `future` of an identifier are history: the futures woken since
\* their last poll began, how often each was dropped, and whose id it was.
NewExecutor ==
    [kind |-> "executor", ready |-> {}, count |-> 0, pass |-> {}, phase |-> "idle",
     live |-> [i \in ExeSlots |-> NoFuture], gen |-> [i \in ExeSlots |-> 0],
     ids |-> {InvalidId}, wakers |-> {}, due |-> {}, answer |-> "none",
     spawned |-> 0, drops |-> [f \in 1 .. MaxFutures |-> 0]]

\* drive starts with the flag set.
NewDrive == [kind |-> "drive", woken |-> TRUE, at |-> "loop", parks |-> 0, silent |-> 0]

ExeInit == exe \in {NewExecutor, NewDrive}

FreeSlots(e) == {i \in ExeSlots : e.live[i] = NoFuture}

First(S) == CHOOSE i \in S : \A j \in S : i <= j

SpawnAnswer(e, size, align) ==
    CASE size > FutureRoom     -> "TooLarge"
      [] align > StorageAlign  -> "Misaligned"
      [] FreeSlots(e) = {}     -> "Full"
      [] OTHER                 -> "Ok"

\* spawn: the lowest free slot takes the future, its generation is bumped and
\* its first poll scheduled.
SpawnIn(e, size, align) ==
    LET answer == SpawnAnswer(e, size, align)
        i == First(FreeSlots(e))
        f == e.spawned + 1
        g == (e.gen[i] + 1) % GenModulus
    IN  IF answer # "Ok" THEN [e EXCEPT !.answer = answer]
        ELSE [e EXCEPT !.live[i] = f, !.gen[i] = g, !.count = @ + 1,
                       !.ready = @ \cup {i}, !.spawned = f, !.answer = answer,
                       !.due = @ \cup {f},
                       !.ids = @ \cup {[index |-> i, gen |-> g, future |-> f]}]

\* Without the generation guard any task now in the slot would be woken.
WakeAnyGeneration(e, id) ==
    IF id.index \in ExeSlots /\ e.live[id.index] # NoFuture
    THEN [e EXCEPT !.ready = @ \cup {id.index}, !.due = @ \cup {id.future}]
    ELSE e

\* wake: a stale identifier, or one past the slots, is ignored.
WakeSlot(e, id) ==
    IF id.index \in ExeSlots /\ e.gen[id.index] = id.gen /\ e.live[id.index] # NoFuture
    THEN [e EXCEPT !.ready = @ \cup {id.index}, !.due = @ \cup {id.future}]
    ELSE e

\* waker_wake_by_ref: a waker sets its slot's bit, whoever lives there now.
WakeByRef(e, w) ==
    [e EXCEPT !.ready = @ \cup {w.index},
              !.due = IF e.live[w.index] = w.future /\ w.future # NoFuture
                      THEN @ \cup {w.future} ELSE @]

Outside == exe.kind = "executor" /\ exe.phase \in {"idle", "parked"}

Spawn ==
    /\ Outside
    /\ exe.phase = "idle"
    /\ exe.spawned < MaxFutures
    /\ \E size \in FutureSizes, align \in FutureAligns : exe' = SpawnIn(exe, size, align)

\* A driver completes something: by identifier, or through a waker it kept.
\* In run this happens while the backend is parked, which then returns.
DriverWake ==
    /\ Outside
    /\ \/ \E id \in exe.ids : exe' = [WakeSlot(exe, id) EXCEPT !.phase = "idle"]
       \/ \E w \in exe.wakers : exe' = [WakeByRef(exe, w) EXCEPT !.phase = "idle"]

\* poll: one outer iteration takes the whole ready mask and clears it.
BeginPass ==
    /\ exe.kind = "executor"
    /\ exe.phase \in {"idle", "poll"}
    /\ exe.pass = {}
    /\ exe.ready # {}
    /\ exe' = [exe EXCEPT !.phase = "poll", !.pass = exe.ready, !.ready = {}]

SkipFreed ==
    /\ exe.kind = "executor"
    /\ exe.pass # {}
    /\ LET i == First(exe.pass)
       IN  /\ exe.live[i] = NoFuture
           /\ exe' = [exe EXCEPT !.pass = @ \ {i}]

\* What the polled future does before it returns: nothing, wake itself
\* (yield_now), keep a clone of its waker, fire a waker it was given, wake a
\* task by identifier, or spawn.
Effects(e, i) ==
    LET own == [index |-> i, future |-> e.live[i]]
    IN  {e, WakeByRef(e, own), [e EXCEPT !.wakers = @ \cup {own}]}
            \cup {WakeByRef(e, w) : w \in e.wakers}
            \cup {WakeSlot(e, id) : id \in e.ids}
            \cup (IF e.spawned < MaxFutures THEN {SpawnIn(e, FutureRoom, StorageAlign)} ELSE {})

\* A finished future is dropped in place and its slot freed.
Finish(e, i) ==
    [e EXCEPT !.drops[e.live[i]] = @ + 1, !.due = @ \ {e.live[i]},
              !.live[i] = NoFuture, !.gen[i] = (@ + 1) % GenModulus,
              !.count = IF @ = 0 THEN 0 ELSE @ - 1]

PollTask ==
    /\ exe.kind = "executor"
    /\ exe.pass # {}
    /\ LET i == First(exe.pass)
           e == [exe EXCEPT !.pass = @ \ {i}, !.due = @ \ {exe.live[i]}]
       IN  /\ exe.live[i] # NoFuture
           /\ \E after \in Effects(e, i) : exe' \in {after, Finish(after, i)}

\* poll returns when the mask is empty; run then leaves or parks.
EndPoll ==
    /\ exe.kind = "executor"
    /\ exe.phase = "poll"
    /\ exe.pass = {} /\ exe.ready = {}
    /\ exe' = [exe EXCEPT !.phase = IF exe.count = 0 THEN "idle" ELSE "parked"]

\* Drop for Executor: every future still in a slot is dropped.
DropExecutor ==
    /\ exe.kind = "executor"
    /\ exe.phase = "idle"
    /\ exe' = [exe EXCEPT !.phase = "dropped",
                          !.drops = [f \in 1 .. MaxFutures |->
                              exe.drops[f] + Cardinality({i \in ExeSlots : exe.live[i] = f})],
                          !.live = [i \in ExeSlots |-> NoFuture], !.due = {}, !.wakers = {}]

\* drive: clear the flag and poll; the future finishes, or is pending with or
\* without having woken itself.
DrivePoll ==
    /\ exe.kind = "drive"
    /\ exe.at = "loop"
    /\ \/ exe' = [exe EXCEPT !.woken = FALSE, !.at = "returned"]
       \/ exe.silent < MaxFutures
          /\ exe' = [exe EXCEPT !.woken = FALSE, !.at = "pending", !.silent = @ + 1]
       \/ exe' = [exe EXCEPT !.woken = TRUE, !.at = "pending"]

\* Only a future that did not wake itself parks the thread.
DriveWait ==
    /\ exe.kind = "drive"
    /\ exe.at = "pending"
    /\ exe' = IF exe.woken THEN [exe EXCEPT !.at = "loop"]
              ELSE [exe EXCEPT !.at = "loop", !.woken = TRUE, !.parks = @ + 1]

ExeNext ==
    \/ Spawn \/ DriverWake \/ BeginPass \/ SkipFreed \/ PollTask \/ EndPoll
    \/ DropExecutor \/ DrivePoll \/ DriveWait

Living(e) == {f \in 1 .. MaxFutures : \E i \in ExeSlots : e.live[i] = f}

\* A task that was woken is polled again: its bit is in the mask or in the
\* pass being worked off, so the executor never parks over it (poll, wake,
\* waker_wake_by_ref).  An identifier reaches only the future it was returned
\* for, each future is dropped exactly once, count is the number of occupied
\* slots, and drive parks once for each poll that returned without a wake.
ExecutorSound ==
    IF exe.kind = "executor"
    THEN /\ \A i \in ExeSlots : exe.live[i] \in exe.due => i \in exe.ready \cup exe.pass
         /\ exe.due \subseteq Living(exe)
         /\ exe.phase = "parked" => exe.ready = {} /\ exe.due = {} /\ exe.count > 0
         /\ exe.phase # "dropped" => exe.count = ExeTasks - Cardinality(FreeSlots(exe))
         /\ \A f \in 1 .. exe.spawned : exe.drops[f] = IF f \in Living(exe) THEN 0 ELSE 1
         /\ \A id \in exe.ids :
                id.index \in ExeSlots /\ exe.live[id.index] # NoFuture
                    /\ exe.gen[id.index] = id.gen => exe.live[id.index] = id.future
    ELSE exe.at # "pending" => exe.parks = exe.silent
=============================================================================
