--------------------------- MODULE HandleTransfer ---------------------------
(***************************************************************************)
(* Object lifetime in HuesOS: the global registry with its two-counter     *)
(* reference accounts, the per-process handle tables, handles in flight in *)
(* channel messages, and the kernel references of VMAR mappings.           *)
(*                                                                         *)
(* The registry lock is held for one step.  A handle-table lock that is    *)
(* held over a loop is in `lock`, and the loop takes one step per handle.  *)
(* Rights, and data bytes, are not modelled.                               *)
(***************************************************************************)
EXTENDS Integers, Sequences, FiniteSets

CONSTANTS Threads, Procs, ProcOf,  \* threads and the process each runs in
          Slots,      \* handle values (INVALID_HANDLE is not one)
          Messages,   \* channel messages that can exist at a time
          Batch,      \* most handles in one message
          Mappings,   \* VMAR mapping records
          Koids,      \* objects that are ever created
          Capacity,   \* messages the channel queues
          NoKoid, NoThread, NoMessage

Parts == 1 .. Batch

ASSUME ProcAssumption == ProcOf \in [Threads -> Procs]
ASSUME BoundsAssumption == Slots \subseteq Nat /\ Batch \in Nat /\ Capacity \in Nat
ASSUME FiniteAssumption == /\ IsFiniteSet(Threads) /\ IsFiniteSet(Procs) /\ IsFiniteSet(Slots)
                           /\ IsFiniteSet(Messages) /\ IsFiniteSet(Mappings)
ASSUME DistinctAssumption == /\ Procs \cap Messages = {} /\ Procs \cap Threads = {}
                             /\ Messages \cap Threads = {} /\ Mappings \cap Threads = {}
                             /\ NoKoid \notin Koids /\ NoThread \notin Threads
                             /\ NoMessage \notin Messages

\* The places that own one handle reference each: a table slot, a handle of a
\* message, and what a thread has taken out and not yet put down.
Slot(p, v) == <<p, v>>
Part(m, i) == <<m, i>>
Hand(t) == <<t, 0>>
Places == (Procs \X Slots) \cup (Messages \X Parts) \cup (Threads \X {0})
KernelPlaces == Mappings \cup Threads

VARIABLES state,    \* per koid: not created, discoverable in the registry, collected
          handles,  \* RefAccount.handle_refs
          kernel,   \* RefAccount.kernel_refs
          held,     \* per place: the koid of the handle in it
          kref,     \* per kernel place: the koid it holds a kernel reference to
          lock,     \* per process: the thread that holds its handle-table lock
          pc, koid, \* per thread: program point, the koid it copied out of a slot
          msg, vals,\* per thread: the message it owns, the handle values it was given
          queue,    \* the channel's queued messages
          chan      \* "open", "peer_gone" (reading end dropped), "gone"

registry == <<state, handles, kernel>>
thread == <<pc, koid, msg, vals>>
channel == <<queue, chan>>
vars == <<registry, held, kref, lock, thread, channel>>

Points == {"idle", "open", "insert", "close", "remove", "send", "enqueue", "restore",
           "close_lost", "deliver", "add", "drop", "clear", "drop_queue",
           "acquire", "record", "unref"}

TypeOK ==
    /\ state \in [Koids -> {"unborn", "live", "gone"}]
    /\ handles \in [Koids -> Nat] /\ kernel \in [Koids -> Nat]
    /\ held \in [Places -> Koids \cup {NoKoid}]
    /\ kref \in [KernelPlaces -> Koids \cup {NoKoid}]
    /\ lock \in [Procs -> Threads \cup {NoThread}]
    /\ pc \in [Threads -> Points]
    /\ koid \in [Threads -> Koids \cup {NoKoid}]
    /\ msg \in [Threads -> Messages \cup {NoMessage}]
    /\ vals \in [Threads -> Seq(Slots)]
    /\ queue \in Seq(Messages) /\ Len(queue) <= Capacity
    /\ chan \in {"open", "peer_gone", "gone"}

Init ==
    /\ state = [k \in Koids |-> "unborn"]
    /\ handles = [k \in Koids |-> 0] /\ kernel = [k \in Koids |-> 0]
    /\ held = [x \in Places |-> NoKoid]
    /\ kref = [x \in KernelPlaces |-> NoKoid]
    /\ lock = [p \in Procs |-> NoThread]
    /\ pc = [t \in Threads |-> "idle"]
    /\ koid = [t \in Threads |-> NoKoid]
    /\ msg = [t \in Threads |-> NoMessage]
    /\ vals = [t \in Threads |-> <<>>]
    /\ queue = <<>> /\ chan = "open"

-----------------------------------------------------------------------------
(* Registry *)

\* note_handle_open: a collected koid is left alone.
NoteHandleOpen(k) ==
    /\ handles' = IF state[k] = "live" THEN [handles EXCEPT ![k] = @ + 1] ELSE handles
    /\ UNCHANGED <<state, kernel>>

\* The account of k becomes (h, n); collect_object if both are zero.
SetAccount(k, h, n) ==
    /\ handles' = [handles EXCEPT ![k] = h]
    /\ kernel' = [kernel EXCEPT ![k] = n]
    /\ state' = IF h = 0 /\ n = 0 THEN [state EXCEPT ![k] = "gone"] ELSE state

Less(n) == IF n = 0 THEN 0 ELSE n - 1

\* Mutant: the count drops, but collect_object is not called.
HandleCloseNoCollect(k) ==
    /\ handles' = IF state[k] = "live" THEN [handles EXCEPT ![k] = Less(@)] ELSE handles
    /\ UNCHANGED <<state, kernel>>

\* note_handle_close and note_kernel_ref_close (saturating), then collect.
NoteHandleClose(k) ==
    IF state[k] = "live" THEN SetAccount(k, Less(handles[k]), kernel[k]) ELSE UNCHANGED registry
NoteKernelRefClose(k) ==
    IF state[k] = "live" THEN SetAccount(k, handles[k], Less(kernel[k])) ELSE UNCHANGED registry

-----------------------------------------------------------------------------
(* Threads *)

At(t, p) == pc[t] = p
Goto(t, p) == pc' = [pc EXCEPT ![t] = p]
Own(t) == ProcOf[t]
Unlocked(t) == lock[Own(t)] = NoThread
Lock(t) == lock' = [lock EXCEPT ![Own(t)] = t]
Unlock(t) == lock' = [lock EXCEPT ![Own(t)] = NoThread]
\* The handle in place x goes to the empty place y.
MoveHandle(x, y) == held' = [held EXCEPT ![x] = NoKoid, ![y] = held[x]]
Occupied(t) == {v \in Slots : held[Slot(Own(t), v)] # NoKoid}
\* The scan for the first empty slot; the table grows in the code, here it is full.
FirstFree(t, v) ==
    /\ v \in Slots \ Occupied(t)
    /\ \A u \in Slots \ Occupied(t) : v <= u

\* sys_*_create: register_object; add_with_commit follows at "open".
Create(t) ==
    /\ At(t, "idle")
    /\ \E k \in Koids :
         /\ state[k] = "unborn"
         /\ state' = [state EXCEPT ![k] = "live"]
         /\ koid' = [koid EXCEPT ![t] = k]
    /\ Goto(t, "open")
    /\ UNCHANGED <<handles, kernel, held, kref, lock, msg, vals, channel>>

\* sys_handle_duplicate and sys_vmar_map copy the koid out of a slot; they own
\* nothing yet.
Get(t) ==
    /\ At(t, "idle") /\ Unlocked(t)
    /\ \E v \in Occupied(t) : koid' = [koid EXCEPT ![t] = held[Slot(Own(t), v)]]
    /\ \E p \in {"open", "acquire"} : Goto(t, p)
    /\ UNCHANGED <<registry, held, kref, lock, msg, vals, channel>>

\* add_with_commit: the reference is counted before the slot is published ...
Open(t) ==
    /\ At(t, "open")
    /\ NoteHandleOpen(koid[t])
    /\ held' = [held EXCEPT ![Hand(t)] = koid[t]]
    /\ koid' = [koid EXCEPT ![t] = NoKoid]
    /\ Goto(t, "insert")
    /\ UNCHANGED <<kref, lock, msg, vals, channel>>

\* ... and closed again if the copy-out fails (the slot is never seen).
Insert(t) ==
    /\ At(t, "insert") /\ Unlocked(t)
    /\ \/ /\ \E v \in Slots : FirstFree(t, v) /\ MoveHandle(Hand(t), Slot(Own(t), v))
          /\ Goto(t, "idle")
       \/ Goto(t, "close") /\ UNCHANGED held
    /\ UNCHANGED <<registry, kref, lock, koid, msg, vals, channel>>

\* HandleTable::remove: take the slot under the table lock, release the count after.
Remove(t) ==
    /\ At(t, "idle") /\ Unlocked(t)
    /\ \E v \in Occupied(t) : MoveHandle(Slot(Own(t), v), Hand(t))
    /\ Goto(t, "close")
    /\ UNCHANGED <<registry, kref, lock, koid, msg, vals, channel>>

Close(t) ==
    /\ At(t, "close") \/ At(t, "close_lost")
    /\ NoteHandleClose(held[Hand(t)])
    /\ held' = [held EXCEPT ![Hand(t)] = NoKoid]
    /\ Goto(t, IF At(t, "close") THEN "idle" ELSE "restore")
    /\ UNCHANGED <<kref, lock, koid, msg, vals, channel>>

-----------------------------------------------------------------------------
(* Channel transfer *)

FreeMessages == {m \in Messages : /\ \A t \in Threads : msg[t] # m
                                  /\ \A i \in 1 .. Len(queue) : queue[i] # m}
Carried(m) == {i \in Parts : held[Part(m, i)] # NoKoid}

\* remove_many_keep_alive: distinct, occupied values, checked before the first is taken.
Write(t) ==
    /\ At(t, "idle") /\ Unlocked(t)
    /\ chan # "gone"
    /\ \E m \in FreeMessages, n \in Parts : \E f \in [1 .. n -> Occupied(t)] :
         /\ \A i, j \in 1 .. n : f[i] = f[j] => i = j
         /\ msg' = [msg EXCEPT ![t] = m]
         /\ vals' = [vals EXCEPT ![t] = f]
    /\ Lock(t)
    /\ Goto(t, "remove")
    /\ UNCHANGED <<registry, held, kref, koid, channel>>

\* Mutant: the count is given up when the handle leaves the table.
RemoveClosing(t) ==
    /\ At(t, "remove")
    /\ LET todo == (1 .. Len(vals[t])) \ Carried(msg[t])
       IN \/ /\ \E i \in todo :
                  /\ NoteHandleClose(held[Slot(Own(t), vals[t][i])])
                  /\ MoveHandle(Slot(Own(t), vals[t][i]), Part(msg[t], i))
             /\ UNCHANGED <<lock, pc>>
          \/ todo = {} /\ Unlock(t) /\ Goto(t, "send") /\ UNCHANGED <<registry, held>>
    /\ UNCHANGED <<kref, koid, msg, vals, channel>>

RemoveKeepAlive(t) ==
    /\ At(t, "remove")
    /\ LET todo == (1 .. Len(vals[t])) \ Carried(msg[t])
       IN \/ /\ \E i \in todo \cap Parts :
                  /\ \A j \in todo : i <= j
                  /\ MoveHandle(Slot(Own(t), vals[t][i]), Part(msg[t], i))
             /\ UNCHANGED <<lock, pc>>
          \/ todo = {} /\ Unlock(t) /\ Goto(t, "send") /\ UNCHANGED held
    /\ UNCHANGED <<registry, kref, koid, msg, vals, channel>>

\* Channel::send: the liveness test, then the admission under the queue lock.
Send(t) ==
    /\ At(t, "send")
    /\ Goto(t, IF chan = "open" THEN "enqueue" ELSE "restore")
    /\ UNCHANGED <<registry, held, kref, lock, koid, msg, vals, channel>>

Enqueue(t) ==
    /\ At(t, "enqueue")
    /\ \/ /\ Len(queue) < Capacity
          /\ queue' = Append(queue, msg[t])
          /\ msg' = [msg EXCEPT ![t] = NoMessage]
          /\ vals' = [vals EXCEPT ![t] = <<>>]
          /\ Goto(t, "idle")
       \/ Len(queue) >= Capacity /\ Goto(t, "restore") /\ UNCHANGED <<queue, msg, vals>>
    /\ UNCHANGED <<registry, held, kref, lock, koid, chan>>

\* send_or_restore: each handle goes back to its own slot, or is closed if the
\* slot has been taken meanwhile.
Restore(t) ==
    /\ At(t, "restore") /\ Unlocked(t)
    /\ \/ /\ \E i \in Carried(msg[t]) \cap (1 .. Len(vals[t])) :
               /\ \A j \in Carried(msg[t]) : i <= j
               /\ LET home == Slot(Own(t), vals[t][i])
                  IN IF held[home] = NoKoid
                     THEN MoveHandle(Part(msg[t], i), home) /\ UNCHANGED pc
                     ELSE MoveHandle(Part(msg[t], i), Hand(t)) /\ Goto(t, "close_lost")
          /\ UNCHANGED <<msg, vals>>
       \/ /\ Carried(msg[t]) = {}
          /\ msg' = [msg EXCEPT ![t] = NoMessage]
          /\ vals' = [vals EXCEPT ![t] = <<>>]
          /\ Goto(t, "idle")
          /\ UNCHANGED held
    /\ UNCHANGED <<registry, kref, lock, koid, channel>>

\* sys_channel_read_etc: dequeue; a failed copy-out drops the message.
Read(t) ==
    /\ At(t, "idle")
    /\ chan = "open" /\ queue # <<>>
    /\ msg' = [msg EXCEPT ![t] = Head(queue)]
    /\ queue' = Tail(queue)
    /\ Goto(t, "deliver")
    /\ UNCHANGED <<registry, held, kref, lock, koid, vals, chan>>

\* add_existing_many_with_commit: a batch whose publication fails is taken out
\* again before the lock is released, so only its closing remains.
Deliver(t) ==
    /\ At(t, "deliver")
    /\ \/ Unlocked(t) /\ Lock(t) /\ Goto(t, "add")
       \/ Goto(t, "drop") /\ UNCHANGED lock
    /\ UNCHANGED <<registry, held, kref, koid, msg, vals, channel>>

\* Mutant: a received handle is counted as a new one.
AddCounted(t) ==
    /\ At(t, "add")
    /\ \/ /\ \E i \in Carried(msg[t]), v \in Slots :
               /\ FirstFree(t, v)
               /\ NoteHandleOpen(held[Part(msg[t], i)])
               /\ MoveHandle(Part(msg[t], i), Slot(Own(t), v))
          /\ UNCHANGED <<lock, pc, msg>>
       \/ /\ Carried(msg[t]) = {}
          /\ Unlock(t)
          /\ msg' = [msg EXCEPT ![t] = NoMessage]
          /\ Goto(t, "idle")
          /\ UNCHANGED <<registry, held>>
    /\ UNCHANGED <<kref, koid, vals, channel>>

AddExisting(t) ==
    /\ At(t, "add")
    /\ \/ /\ \E i \in Carried(msg[t]), v \in Slots :
               /\ \A j \in Carried(msg[t]) : i <= j
               /\ FirstFree(t, v)
               /\ MoveHandle(Part(msg[t], i), Slot(Own(t), v))
          /\ UNCHANGED <<lock, pc, msg>>
       \/ /\ Carried(msg[t]) = {}
          /\ Unlock(t)
          /\ msg' = [msg EXCEPT ![t] = NoMessage]
          /\ Goto(t, "idle")
          /\ UNCHANGED held
    /\ UNCHANGED <<registry, kref, koid, vals, channel>>


\* close_all of message m: one note_handle_close per step.
CloseOne(m) ==
    \E i \in Carried(m) :
        /\ \A j \in Carried(m) : i <= j
        /\ NoteHandleClose(held[Part(m, i)])
        /\ held' = [held EXCEPT ![Part(m, i)] = NoKoid]

Drop(t) ==
    /\ At(t, "drop")
    /\ \/ CloseOne(msg[t]) /\ UNCHANGED <<pc, msg>>
       \/ /\ Carried(msg[t]) = {}
          /\ msg' = [msg EXCEPT ![t] = NoMessage]
          /\ Goto(t, "idle")
          /\ UNCHANGED <<registry, held>>
    /\ UNCHANGED <<kref, lock, koid, vals, channel>>

\* The reading end is dropped; the queue lives on in the writing end's outbox.
DropReader ==
    /\ chan = "open"
    /\ chan' = "peer_gone"
    /\ UNCHANGED <<registry, held, kref, lock, thread, queue>>

\* The writing end is dropped too (writers hold a reference): the queued
\* messages are dropped by the thread that dropped it.
DropChannel(t) ==
    /\ At(t, "idle")
    /\ chan = "peer_gone"
    /\ \A u \in Threads : pc[u] \notin {"remove", "send", "enqueue", "restore", "close_lost"}
    /\ chan' = "gone"
    /\ Goto(t, "drop_queue")
    /\ UNCHANGED <<registry, held, kref, lock, koid, msg, vals, queue>>

DropQueue(t) ==
    /\ At(t, "drop_queue")
    /\ \/ queue # <<>> /\ CloseOne(Head(queue)) /\ UNCHANGED <<pc, queue>>
       \/ /\ queue # <<>> /\ Carried(Head(queue)) = {}
          /\ queue' = Tail(queue)
          /\ UNCHANGED <<registry, held, pc>>
       \/ queue = <<>> /\ Goto(t, "idle") /\ UNCHANGED <<registry, held, queue>>
    /\ UNCHANGED <<kref, lock, koid, msg, vals, chan>>

-----------------------------------------------------------------------------
(* Process teardown and kernel references *)

\* HandleTable::clear: every slot is taken and closed under the table lock.
BeginClear(t) ==
    /\ At(t, "idle") /\ Unlocked(t)
    /\ Occupied(t) # {}
    /\ Lock(t)
    /\ Goto(t, "clear")
    /\ UNCHANGED <<registry, held, kref, koid, msg, vals, channel>>

Clear(t) ==
    /\ At(t, "clear")
    /\ \/ /\ \E v \in Occupied(t) :
               /\ \A u \in Occupied(t) : v <= u
               /\ NoteHandleClose(held[Slot(Own(t), v)])
               /\ held' = [held EXCEPT ![Slot(Own(t), v)] = NoKoid]
          /\ UNCHANGED <<lock, pc>>
       \/ Occupied(t) = {} /\ Unlock(t) /\ Goto(t, "idle") /\ UNCHANGED <<registry, held>>
    /\ UNCHANGED <<kref, koid, msg, vals, channel>>

\* acquire_kernel_ref: lookup and count in one critical section.
Acquire(t) ==
    /\ At(t, "acquire")
    /\ IF state[koid[t]] = "live"
       THEN /\ kernel' = [kernel EXCEPT ![koid[t]] = @ + 1]
            /\ kref' = [kref EXCEPT ![t] = koid[t]]
            /\ Goto(t, "record")
       ELSE Goto(t, "idle") /\ UNCHANGED <<kernel, kref>>
    /\ koid' = [koid EXCEPT ![t] = NoKoid]
    /\ UNCHANGED <<state, handles, held, lock, msg, vals, channel>>

\* record_mapping and the page-table transaction, or its rollback.
Record(t) ==
    /\ At(t, "record")
    /\ \/ /\ \E x \in Mappings : /\ kref[x] = NoKoid
                                 /\ kref' = [kref EXCEPT ![t] = NoKoid, ![x] = kref[t]]
          /\ Goto(t, "idle")
       \/ Goto(t, "unref") /\ UNCHANGED kref
    /\ UNCHANGED <<registry, held, lock, koid, msg, vals, channel>>

\* Unmap (or Vmar::drop): the record goes first, its reference after.
Unmap(t) ==
    /\ At(t, "idle")
    /\ \E x \in Mappings : /\ kref[x] # NoKoid
                           /\ kref' = [kref EXCEPT ![x] = NoKoid, ![t] = kref[x]]
    /\ Goto(t, "unref")
    /\ UNCHANGED <<registry, held, lock, koid, msg, vals, channel>>

Unref(t) ==
    /\ At(t, "unref")
    /\ NoteKernelRefClose(kref[t])
    /\ kref' = [kref EXCEPT ![t] = NoKoid]
    /\ Goto(t, "idle")
    /\ UNCHANGED <<held, lock, koid, msg, vals, channel>>

-----------------------------------------------------------------------------
ThreadStep(t) ==
    \/ Create(t) \/ Get(t) \/ Open(t) \/ Insert(t) \/ Remove(t) \/ Close(t)
    \/ Write(t) \/ RemoveKeepAlive(t) \/ Send(t) \/ Enqueue(t) \/ Restore(t)
    \/ Read(t) \/ Deliver(t) \/ AddExisting(t) \/ Drop(t) \/ DropChannel(t) \/ DropQueue(t)
    \/ BeginClear(t) \/ Clear(t) \/ Acquire(t) \/ Record(t) \/ Unmap(t) \/ Unref(t)

Next == DropReader \/ \E t \in Threads : ThreadStep(t)

Spec == Init /\ [][Next]_vars

-----------------------------------------------------------------------------
(* Properties *)

Holders(k) == {x \in Places : held[x] = k}
KernelHolders(k) == {x \in KernelPlaces : kref[x] = k}

\* The account of a live object counts exactly the handles in tables, in
\* messages and in the hands of threads, and exactly the kernel references,
\* through every transfer, rollback, copy-out failure and teardown.
CountsExact ==
    \A k \in Koids : state[k] = "live" =>
        /\ handles[k] = Cardinality(Holders(k))
        /\ kernel[k] = Cardinality(KernelHolders(k))

\* acquire_kernel_ref cannot race with the last close: what a mapping holds is
\* in the registry.
MappedStaysLive ==
    \A x \in KernelPlaces : kref[x] # NoKoid => state[kref[x]] = "live"

\* An object nobody refers to has been collected, unless its creator is about to
\* install its first handle: closing never leaks the registry's reference.
NoLeak ==
    \A k \in Koids : (state[k] = "live" /\ handles[k] = 0 /\ kernel[k] = 0) =>
        \E t \in Threads : At(t, "open") /\ koid[t] = k

\* An object is collected only when no table, message or thread owns a handle
\* to it; in particular a handle in flight keeps its object.
CollectedUnused ==
    [][\A k \in Koids : (state[k] = "live" /\ state'[k] = "gone") =>
          \A x \in Places : held'[x] # k]_vars

=============================================================================
