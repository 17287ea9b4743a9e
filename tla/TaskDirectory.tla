---------------------------- MODULE TaskDirectory ----------------------------
(***************************************************************************)
(* The task-slot allocator and the task directory of huesos-sched: slots   *)
(* that are reused under ever larger generations, a seqlock around the     *)
(* published location, and a pending-operations word that carries the      *)
(* generation it belongs to.                                               *)
(*                                                                         *)
(* Every atomic load, store and read-modify-write is a step.  The          *)
(* scheduler lock that serialises the owners of one identity is the set    *)
(* `live`: an owner takes an identity out of it before it retires it.      *)
(***************************************************************************)
EXTENDS Integers

CONSTANTS Slots,
          MaxGen,          \* bound on the generations of a slot
          Cpus, Indices,   \* parts of a location; 0 is the value of a cleared field
          Owners,          \* threads that publish and retire identities
          Clients,         \* threads that look up, post operations and take them
          Tries,           \* attempts of one lookup (8 in the code)
          MaxSeq,          \* bound on the sequence up to which live identities are moved
          NoId

ASSUME DirectoryAssumption ==
    /\ Slots \subseteq Nat /\ MaxGen \in Nat /\ Tries \in Nat \ {0} /\ MaxSeq \in Nat
    /\ 0 \in Cpus /\ 0 \in Indices
    /\ NoId \notin Slots \X Nat /\ Owners \cap Clients = {}

Ids == Slots \X (1 .. MaxGen)
SlotOf(i) == i[1]
GenOf(i) == i[2]
Places == [cpu : Cpus, index : Indices]
Nowhere == [cpu |-> 0, index |-> 0]

VARIABLES
    seq, gen, owner, index,  \* entry: sequence, published generation (0: none), location
    tag, flag,               \* pending_operations: generation bits, and whether a flag is set
    allocated, generation,   \* TaskSlotAllocator: bitmap and generation counters
    live,                    \* identities that were handed out and are not being retired
    home,                    \* the places each identity was published with
    posted,                  \* identities to which publish_operations ever succeeded
    pc, id, seen, loc, tries \* per thread

entry == <<seq, gen, owner, index>>
operations == <<tag, flag>>
slots == <<allocated, generation>>
ghosts == <<live, home, posted>>
locals == <<id, seen, loc, tries>>
vars == <<entry, operations, slots, ghosts, pc, locals>>

Publishing == {"publish", "publish_owner", "publish_index", "publish_tag", "publish_id", "publish_end"}
Retiring == {"retire", "retire_seq", "retire_id", "retire_owner", "retire_index", "retire_end", "free"}
Locating == {"locate", "locate_id", "locate_owner", "locate_index", "locate_again"}
Operating == {"post", "post_rmw", "take", "take_rmw"}
Threads == Owners \cup Clients

TypeOK ==
    /\ seq \in [Slots -> Nat] /\ gen \in [Slots -> 0 .. MaxGen]
    /\ owner \in [Slots -> Cpus] /\ index \in [Slots -> Indices]
    /\ tag \in [Slots -> 0 .. MaxGen] /\ flag \in [Slots -> BOOLEAN]
    /\ allocated \in SUBSET Slots /\ generation \in [Slots -> 0 .. MaxGen]
    /\ live \in SUBSET Ids /\ posted \in SUBSET Ids /\ home \in [Ids -> SUBSET Places]
    /\ pc \in [Threads -> {"idle", "found"} \cup Publishing \cup Retiring \cup Locating \cup Operating]
    /\ id \in [Threads -> Ids \cup {NoId}] /\ seen \in [Threads -> Nat]
    /\ loc \in [Threads -> Places] /\ tries \in [Threads -> 0 .. Tries]

Init ==
    /\ seq = [s \in Slots |-> 0] /\ gen = [s \in Slots |-> 0]
    /\ owner = [s \in Slots |-> 0] /\ index = [s \in Slots |-> 0]
    /\ tag = [s \in Slots |-> 0] /\ flag = [s \in Slots |-> FALSE]
    /\ allocated = {} /\ generation = [s \in Slots |-> 0]
    /\ live = {} /\ posted = {} /\ home = [i \in Ids |-> {}]
    /\ pc = [t \in Threads |-> "idle"] /\ id = [t \in Threads |-> NoId]
    /\ seen = [t \in Threads |-> 0] /\ loc = [t \in Threads |-> Nowhere]
    /\ tries = [t \in Threads |-> 0]

-----------------------------------------------------------------------------
At(t, p) == pc[t] = p
Goto(t, p) == pc' = [pc EXCEPT ![t] = p]
Mine(t) == SlotOf(id[t])
Done(t) ==
    /\ Goto(t, "idle")
    /\ id' = [id EXCEPT ![t] = NoId]
    /\ seen' = [seen EXCEPT ![t] = 0]
    /\ loc' = [loc EXCEPT ![t] = Nowhere]
    /\ tries' = [tries EXCEPT ![t] = 0]

\* TaskSlotAllocator::allocate: the lowest clear bit, the next generation.
Allocate(o) ==
    /\ At(o, "idle")
    /\ \E s \in Slots \ allocated, p \in Places :
         /\ \A r \in Slots \ allocated : s <= r
         /\ generation[s] < MaxGen
         /\ LET i == <<s, generation[s] + 1>>
            IN /\ allocated' = allocated \cup {s}
               /\ generation' = [generation EXCEPT ![s] = @ + 1]
               /\ id' = [id EXCEPT ![o] = i]
               /\ loc' = [loc EXCEPT ![o] = p]
               /\ home' = [home EXCEPT ![i] = @ \cup {p}]
    /\ Goto(o, "publish")
    /\ UNCHANGED <<entry, operations, live, posted, seen, tries>>

\* One atomic access of owner o to its entry, from point p to point q.
Access(o, p, q) ==
    /\ At(o, p) /\ Goto(o, q)
    /\ UNCHANGED <<slots, ghosts, locals>>

\* TaskDirectory::publish
Publish(o) ==
    /\ Access(o, "publish", "publish_owner")
    /\ seq' = [seq EXCEPT ![Mine(o)] = @ + 1]
    /\ UNCHANGED <<gen, owner, index, operations>>
PublishOwner(o) ==
    /\ Access(o, "publish_owner", "publish_index")
    /\ owner' = [owner EXCEPT ![Mine(o)] = loc[o].cpu]
    /\ UNCHANGED <<seq, gen, index, operations>>
PublishIndex(o) ==
    /\ Access(o, "publish_index", "publish_tag")
    /\ index' = [index EXCEPT ![Mine(o)] = loc[o].index]
    /\ UNCHANGED <<seq, gen, owner, operations>>
\* The flags of another generation go with their tag.
PublishTag(o) ==
    /\ Access(o, "publish_tag", "publish_id")
    /\ tag' = [tag EXCEPT ![Mine(o)] = GenOf(id[o])]
    /\ flag' = [flag EXCEPT ![Mine(o)] = @ /\ tag[Mine(o)] = GenOf(id[o])]
    /\ UNCHANGED entry
\* Mutant: the identity is handed out before its entry is even again.
PublishIdEarly(o) ==
    /\ At(o, "publish_id") /\ Goto(o, "publish_end")
    /\ gen' = [gen EXCEPT ![Mine(o)] = GenOf(id[o])]
    /\ live' = live \cup {id[o]}
    /\ UNCHANGED <<seq, owner, index, operations, slots, home, posted, locals>>
PublishId(o) ==
    /\ Access(o, "publish_id", "publish_end")
    /\ gen' = [gen EXCEPT ![Mine(o)] = GenOf(id[o])]
    /\ UNCHANGED <<seq, owner, index, operations>>
\* The identity is handed out.
PublishEnd(o) ==
    /\ At(o, "publish_end")
    /\ seq' = [seq EXCEPT ![Mine(o)] = @ + 1]
    /\ live' = live \cup {id[o]}
    /\ Done(o)
    /\ UNCHANGED <<gen, owner, index, operations, slots, home, posted>>

\* publish again for a live identity: its owner moves it.
Migrate(o) ==
    /\ At(o, "idle")
    /\ \E i \in live, p \in Places :
         /\ seq[SlotOf(i)] < MaxSeq /\ p \notin home[i]
         /\ live' = live \ {i}
         /\ id' = [id EXCEPT ![o] = i]
         /\ loc' = [loc EXCEPT ![o] = p]
         /\ home' = [home EXCEPT ![i] = @ \cup {p}]
    /\ Goto(o, "publish")
    /\ UNCHANGED <<entry, operations, slots, posted, seen, tries>>

\* TaskDirectory::retire; the pending operations are discarded first.
BeginRetire(o) ==
    /\ At(o, "idle")
    /\ \E i \in live : live' = live \ {i} /\ id' = [id EXCEPT ![o] = i]
    /\ Goto(o, "retire")
    /\ UNCHANGED <<entry, operations, slots, home, posted, seen, loc, tries>>
Retire(o) ==
    /\ Access(o, "retire", "retire_seq")
    /\ tag' = [tag EXCEPT ![Mine(o)] = 0]
    /\ flag' = [flag EXCEPT ![Mine(o)] = FALSE]
    /\ UNCHANGED entry
\* TaskDirectory::clear; refused, with nothing changed, while a flag is set.
Clear(o) ==
    /\ At(o, "idle")
    /\ \E i \in live :
         /\ ~flag[SlotOf(i)]
         /\ tag' = [tag EXCEPT ![SlotOf(i)] = 0]
         /\ live' = live \ {i}
         /\ id' = [id EXCEPT ![o] = i]
    /\ Goto(o, "retire_seq")
    /\ UNCHANGED <<entry, flag, slots, home, posted, seen, loc, tries>>
RetireSequence(o) ==
    /\ Access(o, "retire_seq", "retire_id")
    /\ seq' = [seq EXCEPT ![Mine(o)] = @ + 1]
    /\ UNCHANGED <<gen, owner, index, operations>>
RetireId(o) ==
    /\ Access(o, "retire_id", "retire_owner")
    /\ gen' = [gen EXCEPT ![Mine(o)] = 0]
    /\ UNCHANGED <<seq, owner, index, operations>>
RetireOwner(o) ==
    /\ Access(o, "retire_owner", "retire_index")
    /\ owner' = [owner EXCEPT ![Mine(o)] = 0]
    /\ UNCHANGED <<seq, gen, index, operations>>

RetireIndex(o) ==
    /\ Access(o, "retire_index", "retire_end")
    /\ index' = [index EXCEPT ![Mine(o)] = 0]
    /\ UNCHANGED <<seq, gen, owner, operations>>
RetireEnd(o) ==
    /\ Access(o, "retire_end", "free")
    /\ seq' = [seq EXCEPT ![Mine(o)] = @ + 1]
    /\ UNCHANGED <<gen, owner, index, operations>>
\* TaskSlotAllocator::free
Free(o) ==
    /\ At(o, "free")
    /\ allocated' = allocated \ {Mine(o)}
    /\ Done(o)
    /\ UNCHANGED <<entry, operations, generation, ghosts>>

-----------------------------------------------------------------------------
(* Clients: lookups and operations on identities that are live or stale *)

\* Whoever has an identity got it after it was published.
Begin(t) ==
    /\ At(t, "idle")
    /\ \E i \in Ids : /\ i \in live \/ GenOf(i) < generation[SlotOf(i)]
                      /\ id' = [id EXCEPT ![t] = i]
    /\ \E p \in {"locate", "post", "take"} : Goto(t, p)
    /\ UNCHANGED <<entry, operations, slots, ghosts, seen, loc, tries>>

Retry(t) ==
    /\ tries' = [tries EXCEPT ![t] = @ + 1]
    /\ Goto(t, "locate")
    /\ UNCHANGED <<id, seen, loc>>

\* TaskDirectory::locate
LoadSequence(t) ==
    /\ At(t, "locate")
    /\ \/ tries[t] = Tries /\ Done(t)
       \/ tries[t] < Tries /\ seq[Mine(t)] % 2 = 1 /\ Retry(t)
       \/ /\ tries[t] < Tries /\ seq[Mine(t)] % 2 = 0
          /\ seen' = [seen EXCEPT ![t] = seq[Mine(t)]]
          /\ Goto(t, "locate_id")
          /\ UNCHANGED <<id, loc, tries>>
    /\ UNCHANGED <<entry, operations, slots, ghosts>>
LoadId(t) ==
    /\ At(t, "locate_id")
    /\ IF gen[Mine(t)] = GenOf(id[t]) THEN Goto(t, "locate_owner") /\ UNCHANGED locals ELSE Done(t)
    /\ UNCHANGED <<entry, operations, slots, ghosts>>
LoadOwner(t) ==
    /\ At(t, "locate_owner")
    /\ loc' = [loc EXCEPT ![t].cpu = owner[Mine(t)]]
    /\ Goto(t, "locate_index")
    /\ UNCHANGED <<entry, operations, slots, ghosts, id, seen, tries>>
LoadIndex(t) ==
    /\ At(t, "locate_index")
    /\ loc' = [loc EXCEPT ![t].index = index[Mine(t)]]
    /\ Goto(t, "locate_again")
    /\ UNCHANGED <<entry, operations, slots, ghosts, id, seen, tries>>
\* Mutant: the location is used without a second look at the sequence.
LoadOnce(t) ==
    /\ At(t, "locate_again")
    /\ Goto(t, "found") /\ UNCHANGED locals
    /\ UNCHANGED <<entry, operations, slots, ghosts>>
LoadAgain(t) ==
    /\ At(t, "locate_again")
    /\ IF seq[Mine(t)] = seen[t] THEN Goto(t, "found") /\ UNCHANGED locals ELSE Retry(t)
    /\ UNCHANGED <<entry, operations, slots, ghosts>>
\* The caller uses the location.
Use(t) ==
    /\ At(t, "found") /\ Done(t)
    /\ UNCHANGED <<entry, operations, slots, ghosts>>

\* publish_operations and take_operations: the identity is loaded first.
CheckId(t) ==
    /\ At(t, "post") \/ At(t, "take")
    /\ IF gen[Mine(t)] = GenOf(id[t])
       THEN Goto(t, IF At(t, "post") THEN "post_rmw" ELSE "take_rmw") /\ UNCHANGED locals
       ELSE Done(t)
    /\ UNCHANGED <<entry, operations, slots, ghosts>>
\* operation_update: only a word of the same generation is changed.
Untagged(i) == tag[SlotOf(i)] # 0  \* mutant: any generation will do
Tagged(i) == tag[SlotOf(i)] = GenOf(i)
PublishOperations(t) ==
    /\ At(t, "post_rmw")
    /\ IF Tagged(id[t])
       THEN flag' = [flag EXCEPT ![Mine(t)] = TRUE] /\ posted' = posted \cup {id[t]}
       ELSE UNCHANGED <<flag, posted>>
    /\ Done(t)
    /\ UNCHANGED <<entry, tag, slots, live, home>>
TakeOperations(t) ==
    /\ At(t, "take_rmw")
    /\ flag' = [flag EXCEPT ![Mine(t)] = @ /\ ~Tagged(id[t])]
    /\ Done(t)
    /\ UNCHANGED <<entry, tag, slots, ghosts>>

-----------------------------------------------------------------------------
OwnerStep(o) ==
    \/ Allocate(o) \/ Publish(o) \/ PublishOwner(o) \/ PublishIndex(o) \/ PublishTag(o)
    \/ PublishId(o) \/ PublishEnd(o) \/ Migrate(o) \/ BeginRetire(o) \/ Retire(o) \/ Clear(o)
    \/ RetireSequence(o) \/ RetireId(o) \/ RetireOwner(o) \/ RetireIndex(o) \/ RetireEnd(o) \/ Free(o)
ClientStep(t) ==
    \/ Begin(t) \/ LoadSequence(t) \/ LoadId(t) \/ LoadOwner(t) \/ LoadIndex(t) \/ LoadAgain(t)
    \/ Use(t) \/ CheckId(t) \/ PublishOperations(t) \/ TakeOperations(t)
Next == (\E o \in Owners : OwnerStep(o)) \/ (\E t \in Clients : ClientStep(t))
Spec == Init /\ [][Next]_vars

-----------------------------------------------------------------------------
(* Properties *)

\* The seqlock: a lookup that succeeds returns a place its identity was really
\* published with, never the CPU of one publication and the index of another.
LookupCoherent ==
    \A t \in Clients : At(t, "found") => loc[t] \in home[id[t]]

\* Contention never loses a live task: a lookup, a post or a take fails only for
\* an identity that is being retired or that was moved to another place.
LiveNeverStale ==
    [][\A t \in Clients :
         (pc[t] \in Locating \cup {"post", "take"} /\ pc'[t] = "idle") =>
             (id[t] \in live => \E p, q \in home[id[t]] : p # q)]_vars

\* Reuse is safe for operations: a set flag was posted to the generation whose
\* tag the word carries, and a published entry carries its own tag.
FlagsOfGeneration ==
    \A s \in Slots : /\ flag[s] => <<s, tag[s]>> \in posted
                     /\ tag[s] # 0 /\ gen[s] # 0 => tag[s] = gen[s]

\* A delayed consumer of an old generation never clears a successor's flag.
FlagTakenByItsOwn ==
    [][\A s \in Slots : (flag[s] /\ ~flag'[s] /\ tag'[s] = tag[s]) =>
         \E t \in Clients : At(t, "take_rmw") /\ id[t] = <<s, tag[s]>>]_vars

\* The allocator's bit is the writers' lock: no two owners write one entry.
SingleWriter ==
    \A o, p \in Owners : (o # p /\ id[o] # NoId /\ id[p] # NoId) => Mine(o) # Mine(p)
=============================================================================
