------------------------- MODULE TaskDirectoryProofs -------------------------
(***************************************************************************)
(* The inductive invariant of the task directory, and that the owners'     *)
(* steps keep its slots, its sequences and its generations in order.       *)
(***************************************************************************)
EXTENDS TaskDirectory, TLAPS

\* Program points at which the sequence of the owner's entry is odd.
Section == {"publish_owner", "publish_index", "publish_tag", "publish_id", "publish_end",
            "retire_id", "retire_owner", "retire_index", "retire_end"}
Reading == {"locate_id", "locate_owner", "locate_index", "locate_again"}
Even(n) == n % 2 = 0

\* Who is at work on what: owners and clients hold an identity while busy.
Busy ==
    /\ \A o \in Owners : /\ pc[o] \in {"idle"} \cup Publishing \cup Retiring
                         /\ pc[o] # "idle" => id[o] \in Ids
                         /\ pc[o] = "idle" => id[o] = NoId
    /\ \A t \in Clients : /\ pc[t] \in {"idle", "found"} \cup Locating \cup Operating
                          /\ pc[t] # "idle" => id[t] \in Ids
                          /\ pc[t] \in Reading => tries[t] < Tries

\* A slot belongs to one owner at work on it, or to one live identity.
Held(o, s) == id[o] # NoId /\ Mine(o) = s
Exclusive ==
    /\ \A o, p \in Owners : (o # p /\ id[o] # NoId /\ id[p] # NoId) => Mine(o) # Mine(p)
    /\ \A o \in Owners : id[o] # NoId => /\ Mine(o) \in allocated
                                         /\ GenOf(id[o]) = generation[Mine(o)]
    /\ \A i \in live : /\ SlotOf(i) \in allocated /\ GenOf(i) = generation[SlotOf(i)]
                       /\ \A o \in Owners : id[o] # NoId => Mine(o) # SlotOf(i)

\* The sequence of an entry is odd exactly while its owner writes it.
Parity ==
    \A s \in Slots : /\ \A o \in Owners : Held(o, s) => (Even(seq[s]) <=> pc[o] \notin Section)
                     /\ (\A o \in Owners : ~Held(o, s)) => Even(seq[s])

\* What an owner has written so far.
Written ==
    \A o \in Owners :
        /\ pc[o] \in Publishing => loc[o] \in home[id[o]]
        /\ pc[o] \in {"publish_index", "publish_tag", "publish_id", "publish_end"}
             => owner[Mine(o)] = loc[o].cpu
        /\ pc[o] \in {"publish_tag", "publish_id", "publish_end"} => index[Mine(o)] = loc[o].index
        /\ pc[o] = "publish_end" => gen[Mine(o)] = GenOf(id[o])
        /\ pc[o] \in {"retire_owner", "retire_index", "retire_end", "free"} => gen[Mine(o)] = 0
        /\ pc[o] \in Retiring \ {"retire"} => tag[Mine(o)] = 0

\* Entries and tags name the latest generation or none.
Generations ==
    \A s \in Slots : /\ gen[s] \in {0, generation[s]} /\ tag[s] \in {0, generation[s]}
                     /\ s \notin allocated => gen[s] = 0 /\ tag[s] = 0
                     /\ flag[s] => <<s, tag[s]>> \in posted

\* An entry at rest holds a place its identity was published with.
AtRest ==
    \A s \in Slots : (Even(seq[s]) /\ gen[s] # 0) =>
                        [cpu |-> owner[s], index |-> index[s]] \in home[<<s, gen[s]>>]

\* What a reader has seen is still so if the sequence has not changed.
Snapshot ==
    \A t \in Clients :
        /\ pc[t] \in Reading => seen[t] <= seq[Mine(t)] /\ Even(seen[t])
        /\ (pc[t] \in Reading /\ seen[t] = seq[Mine(t)]) =>
              /\ pc[t] # "locate_id" => gen[Mine(t)] = GenOf(id[t])
              /\ pc[t] \in {"locate_index", "locate_again"} => loc[t].cpu = owner[Mine(t)]
              /\ pc[t] = "locate_again" => loc[t].index = index[Mine(t)]

IInv == TypeOK /\ Busy /\ Exclusive /\ Parity /\ Written /\ Generations /\ AtRest /\ Snapshot
        /\ LookupCoherent

-----------------------------------------------------------------------------
\* An identity is a slot and a generation, and differs from NoId.
LEMMA IdShape ==
    /\ \A i \in Ids : /\ SlotOf(i) \in Slots /\ GenOf(i) \in 1 .. MaxGen
                      /\ i = <<SlotOf(i), GenOf(i)>> /\ i # NoId
    /\ \A s \in Slots, g \in 1 .. MaxGen :
         <<s, g>> \in Ids /\ SlotOf(<<s, g>>) = s /\ GenOf(<<s, g>>) = g
BY DirectoryAssumption DEF Ids, SlotOf, GenOf

\* Adding one turns an even sequence odd and an odd one even.
LEMMA ParityFlips == \A n \in Nat : Even(n + 1) <=> ~Even(n)
BY DEF Even

\* A client's step changes nothing but its own registers and the flags.
LEMMA ClientFrame ==
    ASSUME TypeOK, NEW t \in Clients, ClientStep(t)
    PROVE  /\ UNCHANGED <<seq, gen, owner, index, tag, allocated, generation, live, home>>
           /\ \A u \in Threads \ {t} : /\ pc'[u] = pc[u] /\ id'[u] = id[u] /\ seen'[u] = seen[u]
                                       /\ loc'[u] = loc[u] /\ tries'[u] = tries[u]
<1> USE DEF TypeOK, entry, operations, slots, ghosts, locals, Goto, Done
<1>1. CASE Begin(t)
  BY <1>1, Zenon DEF Begin
<1>2. CASE LoadSequence(t)
  BY <1>2, Zenon DEF LoadSequence, Retry
<1>3. CASE LoadId(t) \/ Use(t) \/ CheckId(t)
  BY <1>3 DEF LoadId, Use, CheckId
<1>4. CASE LoadOwner(t) \/ LoadIndex(t) \/ LoadAgain(t)
  BY <1>4, Zenon DEF LoadOwner, LoadIndex, LoadAgain, Retry
<1>5. CASE PublishOperations(t) \/ TakeOperations(t)
  BY <1>5 DEF PublishOperations, TakeOperations
<1> QED BY <1>1, <1>2, <1>3, <1>4, <1>5, Zenon DEF ClientStep

\* An owner's step leaves the registers of all others alone.
LEMMA OwnerFrame ==
    ASSUME TypeOK, NEW o \in Owners, OwnerStep(o)
    PROVE  /\ posted' = posted
           /\ \A u \in Threads \ {o} : /\ pc'[u] = pc[u] /\ id'[u] = id[u] /\ seen'[u] = seen[u]
                                       /\ loc'[u] = loc[u] /\ tries'[u] = tries[u]
<1> USE DEF TypeOK, entry, operations, slots, ghosts, locals, Goto, Done
<1>1. CASE Allocate(o) \/ Migrate(o)
  BY <1>1, Zenon DEF Allocate, Migrate
<1>2. CASE BeginRetire(o) \/ Clear(o)
  BY <1>2, Zenon DEF BeginRetire, Clear
<1>3. CASE PublishEnd(o) \/ Free(o)
  BY <1>3 DEF PublishEnd, Free
<1>4. CASE \E p, q \in Publishing \cup Retiring : Access(o, p, q)
  BY <1>4, Zenon DEF Access, At
<1>5. CASE Publish(o) \/ PublishOwner(o) \/ PublishIndex(o) \/ PublishTag(o) \/ PublishId(o)
  BY <1>5, <1>4, Zenon DEF Publish, PublishOwner, PublishIndex, PublishTag, PublishId, Publishing
<1>6. CASE \/ Retire(o) \/ RetireSequence(o) \/ RetireId(o) \/ RetireOwner(o) \/ RetireIndex(o)
           \/ RetireEnd(o)
  BY <1>6, <1>4, Zenon DEF Retire, RetireSequence, RetireId, RetireOwner, RetireIndex, RetireEnd, Retiring
<1> QED BY <1>1, <1>2, <1>3, <1>5, <1>6, Zenon DEF OwnerStep

\* The owner's steps by what they do to its entry.
Starts(o) == Allocate(o) \/ Migrate(o) \/ BeginRetire(o) \/ Clear(o)
Writes(o) == \/ Publish(o) \/ PublishOwner(o) \/ PublishIndex(o) \/ PublishTag(o) \/ PublishId(o)
             \/ Retire(o) \/ RetireSequence(o) \/ RetireId(o) \/ RetireOwner(o) \/ RetireIndex(o)
             \/ RetireEnd(o)
Ends(o) == PublishEnd(o) \/ Free(o)

\* An owner's step starts, writes or ends its work on an entry.
LEMMA OwnerCases == \A o \in Owners : OwnerStep(o) <=> Starts(o) \/ Writes(o) \/ Ends(o)
BY Zenon DEF OwnerStep, Starts, Writes, Ends

\* The owners' steps keep the types.
LEMMA TypeOwner == ASSUME TypeOK, Busy, NEW o \in Owners, OwnerStep(o) PROVE TypeOK'
<1> USE DEF TypeOK, entry, operations, slots, ghosts, locals, Goto, Done, Mine, At
<1>0. Nowhere \in Places
  BY DirectoryAssumption, Zenon DEF Nowhere, Places
<1>1. o \in Threads /\ (pc[o] # "idle" => SlotOf(id[o]) \in Slots /\ GenOf(id[o]) \in 0 .. MaxGen)
  BY IdShape DEF Busy, Threads
<1>2. CASE Allocate(o)
  BY <1>1, <1>2, IdShape, DirectoryAssumption DEF Allocate, Publishing
<1>3. CASE Migrate(o)
  BY <1>1, <1>3 DEF Migrate, Publishing
<1>4. CASE BeginRetire(o) \/ Clear(o)
  <2>1. CASE BeginRetire(o)
    BY <1>1, <2>1, Zenon DEF BeginRetire, Retiring
  <2>2. CASE Clear(o)
    <3>1. tag' \in [Slots -> 0 .. MaxGen]
      <4>1. 0 \in 0 .. MaxGen
        BY DirectoryAssumption
      <4> QED BY <2>2, <4>1, Zenon DEF Clear
    <3> QED BY <1>1, <2>2, <3>1, Zenon DEF Clear, Retiring
  <2> QED BY <1>4, <2>1, <2>2, Zenon
<1>5. CASE PublishEnd(o)
  <2>1. live' \in SUBSET Ids /\ seq' \in [Slots -> Nat]
    BY <1>1, <1>5 DEF PublishEnd, Busy
  <2>2. id' \in [Threads -> Ids \cup {NoId}] /\ seen' \in [Threads -> Nat]
    BY <1>1, <1>5, Zenon DEF PublishEnd
  <2>3. loc' \in [Threads -> Places] /\ tries' \in [Threads -> 0 .. Tries]
    BY <1>1, <1>5, <1>0, DirectoryAssumption DEF PublishEnd
  <2> QED BY <1>1, <1>5, <2>1, <2>2, <2>3, Zenon DEF PublishEnd
<1>6. CASE Free(o)
  <2>2. id' \in [Threads -> Ids \cup {NoId}] /\ seen' \in [Threads -> Nat]
    BY <1>1, <1>6, Zenon DEF Free
  <2>3. loc' \in [Threads -> Places] /\ tries' \in [Threads -> 0 .. Tries]
    BY <1>1, <1>6, <1>0, DirectoryAssumption DEF Free
  <2> QED BY <1>1, <1>6, <2>2, <2>3, Zenon DEF Free
<1>7. CASE Publish(o) \/ RetireSequence(o) \/ RetireEnd(o)
  BY <1>1, <1>7 DEF Access, Publish, RetireSequence, RetireEnd, Publishing, Retiring
<1>8. CASE PublishOwner(o) \/ PublishIndex(o)
  BY <1>1, <1>8, Zenon DEF Access, PublishOwner, PublishIndex, Publishing, Places
<1>9. CASE PublishTag(o) \/ PublishId(o)
  <2>1. CASE PublishTag(o)
    BY <1>1, <2>1, Zenon DEF Access, PublishTag, Publishing
  <2>2. CASE PublishId(o)
    BY <1>1, <2>2, Zenon DEF Access, PublishId, Publishing
  <2> QED BY <1>9, <2>1, <2>2, Zenon
<1>10. CASE Retire(o) \/ RetireId(o)
  <2>1. 0 \in 0 .. MaxGen
    BY DirectoryAssumption
  <2>2. CASE Retire(o)
    BY <1>1, <2>1, <2>2, Zenon DEF Access, Retire, Retiring
  <2>3. CASE RetireId(o)
    BY <1>1, <2>1, <2>3, Zenon DEF Access, RetireId, Retiring
  <2> QED BY <1>10, <2>2, <2>3, Zenon
<1>11. CASE RetireOwner(o) \/ RetireIndex(o)
  <2>1. 0 \in Cpus /\ 0 \in Indices
    BY DirectoryAssumption, Zenon
  <2>2. CASE RetireOwner(o)
    BY <1>1, <2>1, <2>2, Zenon DEF Access, RetireOwner, Retiring
  <2>3. CASE RetireIndex(o)
    BY <1>1, <2>1, <2>3, Zenon DEF Access, RetireIndex, Retiring
  <2> QED BY <1>11, <2>2, <2>3, Zenon
<1> QED BY <1>2, <1>3, <1>4, <1>5, <1>6, <1>7, <1>8, <1>9, <1>10, <1>11, Zenon DEF OwnerStep

\* The clients' steps keep the types; a lookup makes no more than Tries
\* attempts.
LEMMA TypeClient == ASSUME TypeOK, Busy, NEW t \in Clients, ClientStep(t) PROVE TypeOK'
<1> USE DEF TypeOK, entry, operations, slots, ghosts, locals, Goto, Mine, At
<1>1. t \in Threads /\ (pc[t] # "idle" => SlotOf(id[t]) \in Slots /\ id[t] \in Ids)
  BY IdShape, Zenon DEF Busy, Threads
<1>2. Nowhere \in Places
  BY DirectoryAssumption, Zenon DEF Nowhere, Places
<1>3. CASE Begin(t)
  BY <1>1, <1>3 DEF Begin, Locating, Operating
<1>10. ASSUME Done(t) PROVE /\ pc' \in [Threads -> {"idle", "found"} \cup Publishing \cup Retiring
                                                         \cup Locating \cup Operating]
                             /\ id' \in [Threads -> Ids \cup {NoId}] /\ seen' \in [Threads -> Nat]
                             /\ loc' \in [Threads -> Places] /\ tries' \in [Threads -> 0 .. Tries]
  <2>1. 0 \in 0 .. Tries
    BY DirectoryAssumption
  <2> QED BY <1>1, <1>2, <1>10, <2>1, Zenon DEF Done
<1>4. CASE LoadSequence(t)
  <2>1. CASE Done(t)
    BY <1>4, <1>10, <2>1, Zenon DEF LoadSequence
  <2>2. CASE Retry(t) /\ tries[t] < Tries
    <3>1. tries' \in [Threads -> 0 .. Tries]
      BY <1>1, <2>2, DirectoryAssumption DEF Retry
    <3> QED BY <1>1, <1>4, <2>2, <3>1, Zenon DEF LoadSequence, Retry, Locating
  <2>3. CASE pc' = [pc EXCEPT ![t] = "locate_id"]
    BY <1>1, <1>4, <2>3, Zenon DEF LoadSequence, Locating, Done, Retry
  <2> QED BY <1>4, <2>1, <2>2, <2>3, Zenon DEF LoadSequence
<1>5. CASE LoadId(t) \/ Use(t) \/ CheckId(t)
  <2>1. CASE Done(t)
    BY <1>5, <1>10, <2>1, Zenon DEF LoadId, Use, CheckId
  <2>2. CASE ~Done(t)
    BY <1>1, <1>5, <2>2, Zenon DEF LoadId, Use, CheckId, Locating, Operating
  <2> QED BY <2>1, <2>2, Zenon
<1>6. CASE LoadOwner(t) \/ LoadIndex(t)
  <2>1. loc' \in [Threads -> Places]
    BY <1>1, <1>6 DEF LoadOwner, LoadIndex, Places
  <2> QED BY <1>1, <1>6, <2>1, Zenon DEF LoadOwner, LoadIndex, Locating
<1>7. CASE LoadAgain(t)
  <2>1. CASE Retry(t)
    <3>1. tries' \in [Threads -> 0 .. Tries]
      BY <1>1, <1>7, <2>1, DirectoryAssumption DEF LoadAgain, Retry, Busy, Reading
    <3> QED BY <1>1, <1>7, <2>1, <3>1, Zenon DEF LoadAgain, Retry, Locating
  <2>2. CASE ~Retry(t)
    BY <1>1, <1>7, <2>2, Zenon DEF LoadAgain
  <2> QED BY <2>1, <2>2, Zenon
<1>8. CASE PublishOperations(t) \/ TakeOperations(t)
  <2>1. Done(t)
    BY <1>8, Zenon DEF PublishOperations, TakeOperations
  <2>2. flag' \in [Slots -> BOOLEAN] /\ posted' \in SUBSET Ids
    BY <1>1, <1>8, Zenon DEF PublishOperations, TakeOperations
  <2> QED BY <1>8, <1>10, <2>1, <2>2, Zenon DEF PublishOperations, TakeOperations
<1> QED BY <1>3, <1>4, <1>5, <1>6, <1>7, <1>8, Zenon DEF ClientStep

\* An owner has an identity exactly while it is at work.
LEMMA BusyOwner ==
    ASSUME TypeOK, Busy, NEW u \in Owners, OwnerStep(u) PROVE Busy'
<1> USE DEF TypeOK, entry, operations, slots, ghosts, locals, Goto, At, Threads, Publishing, Retiring,
            Locating, Operating, Reading
<1>1. /\ pc'[u] \in {"idle"} \cup Publishing \cup Retiring
      /\ pc'[u] # "idle" => id'[u] \in Ids
      /\ pc'[u] = "idle" => id'[u] = NoId
  <2>1. CASE Allocate(u)
    <3>1. PICK s \in Slots : generation[s] < MaxGen /\ id' = [id EXCEPT ![u] = <<s, generation[s] + 1>>]
      BY <2>1, Zenon DEF Allocate
    <3>2. <<s, generation[s] + 1>> \in Ids
      BY <3>1, IdShape, DirectoryAssumption
    <3> QED BY <2>1, <3>1, <3>2, Zenon DEF Allocate
  <2>2. CASE Migrate(u) \/ BeginRetire(u) \/ Clear(u)
    BY <2>2 DEF Migrate, BeginRetire, Clear
  <2>3. CASE Ends(u)
    BY <2>3, Zenon DEF Ends, PublishEnd, Free, Done
  <2>4. CASE Publish(u) \/ PublishOwner(u) \/ PublishIndex(u) \/ PublishTag(u) \/ PublishId(u)
    BY <2>4, Zenon DEF Busy, Access, Publish, PublishOwner, PublishIndex, PublishTag, PublishId
  <2>5. CASE \/ Retire(u) \/ RetireSequence(u) \/ RetireId(u) \/ RetireOwner(u) \/ RetireIndex(u)
             \/ RetireEnd(u)
    BY <2>5, Zenon DEF Busy, Access, Retire, RetireSequence, RetireId, RetireOwner, RetireIndex, RetireEnd
  <2> QED BY <2>1, <2>2, <2>3, <2>4, <2>5, OwnerCases, Zenon DEF Starts, Writes
<1>2. \A v \in Threads \ {u} : pc'[v] = pc[v] /\ id'[v] = id[v] /\ tries'[v] = tries[v]
  BY OwnerFrame, Zenon
<1> QED BY <1>1, <1>2, DirectoryAssumption DEF Busy

\* A client has an identity while it is at work.
LEMMA BusyClient ==
    ASSUME TypeOK, Busy, NEW u \in Clients, ClientStep(u) PROVE Busy'
<1> USE DEF TypeOK, entry, operations, slots, ghosts, locals, Goto, At, Threads, Publishing, Retiring,
            Locating, Operating, Reading
<1>1. /\ pc'[u] \in {"idle", "found"} \cup Locating \cup Operating
      /\ pc'[u] # "idle" => id'[u] \in Ids
      /\ pc'[u] \in Reading => tries'[u] < Tries
  <2>1. CASE Begin(u)
    BY <2>1, Zenon DEF Begin
  <2>2. CASE Done(u)
    BY <2>2, Zenon DEF Done
  <2>3. CASE (LoadSequence(u) \/ LoadAgain(u)) /\ Retry(u)
    BY <2>3, Zenon DEF LoadSequence, LoadAgain, Retry, Busy
  <2>4. CASE LoadSequence(u) /\ ~Done(u) /\ ~Retry(u)
    BY <2>4, Zenon DEF LoadSequence, Busy
  <2>5. CASE (LoadId(u) \/ Use(u) \/ CheckId(u)) /\ ~Done(u)
    BY <2>5 DEF LoadId, Use, CheckId, Busy
  <2>6. CASE LoadOwner(u) \/ LoadIndex(u)
    BY <2>6, Zenon DEF LoadOwner, LoadIndex, Busy
  <2>7. CASE LoadAgain(u) /\ ~Retry(u)
    BY <2>7 DEF LoadAgain, Busy
  <2>8. CASE PublishOperations(u) \/ TakeOperations(u)
    BY <2>2, <2>8, Zenon DEF PublishOperations, TakeOperations
  <2> QED BY <2>1, <2>2, <2>3, <2>4, <2>5, <2>6, <2>7, <2>8, Zenon DEF ClientStep
<1>2. \A v \in Threads \ {u} : pc'[v] = pc[v] /\ id'[v] = id[v] /\ tries'[v] = tries[v]
  BY ClientFrame, Zenon
<1> QED BY <1>1, <1>2, DirectoryAssumption DEF Busy

-----------------------------------------------------------------------------
\* What an owner's step does to the allocator and to the set of live identities.
LEMMA StartFrame ==
    ASSUME TypeOK, Busy, Exclusive, NEW o \in Owners, Starts(o)
    PROVE  \E i \in Ids :
             /\ id[o] = NoId /\ id'[o] = i /\ live' = live \ {i} /\ pc'[o] \notin Section
             /\ \A p \in Owners : id[p] # NoId => SlotOf(id[p]) # SlotOf(i)
             /\ \A j \in live \ {i} : SlotOf(j) # SlotOf(i)
             /\ allocated' = allocated \cup {SlotOf(i)} /\ generation'[SlotOf(i)] = GenOf(i)
             /\ \A s \in Slots \ {SlotOf(i)} : generation'[s] = generation[s]
             /\ UNCHANGED <<seq, gen, owner, index>>
<1> USE DEF TypeOK, entry, operations, slots, ghosts, locals, Goto, At, Mine
<1>0. o \in Threads
  BY Zenon DEF Threads
<1>1. CASE Allocate(o)
  <2>1. PICK s \in Slots \ allocated : 
           /\ generation[s] < MaxGen /\ allocated' = allocated \cup {s}
           /\ generation' = [generation EXCEPT ![s] = @ + 1]
           /\ id' = [id EXCEPT ![o] = <<s, generation[s] + 1>>]
    BY <1>1, Zenon DEF Allocate
  <2> DEFINE i == <<s, generation[s] + 1>>
  <2>2. i \in Ids /\ SlotOf(i) = s /\ GenOf(i) = generation[s] + 1
    BY <2>1, IdShape, DirectoryAssumption
  <2>3. id[o] = NoId /\ id'[o] = i /\ pc'[o] \notin Section /\ live' = live /\ UNCHANGED <<seq, gen, owner, index>>
    BY <1>0, <1>1, <2>1 DEF Allocate, Busy, Section
  <2>4. \A j \in live : SlotOf(j) # s
    BY Zenon DEF Exclusive
  <2>5. i \notin live
    BY <2>2, <2>4, Zenon
  <2>6. \A p \in Owners : id[p] # NoId => SlotOf(id[p]) # s
    BY Zenon DEF Exclusive
  <2> QED BY <2>1, <2>2, <2>3, <2>4, <2>5, <2>6
<1>2. CASE Migrate(o) \/ BeginRetire(o) \/ Clear(o)
  <2>1. PICK i \in live : id' = [id EXCEPT ![o] = i] /\ live' = live \ {i}
    BY <1>2, Zenon DEF Migrate, BeginRetire, Clear
  <2>2. id[o] = NoId /\ pc'[o] \notin Section /\ UNCHANGED <<seq, gen, owner, index, allocated, generation>>
    BY <1>0, <1>2, Zenon DEF Migrate, BeginRetire, Clear, Busy, Section
  <2>3. \A j \in live : SlotOf(j) = SlotOf(i) => j = i
    <3>1. \A j \in live : SlotOf(j) = SlotOf(i) => GenOf(j) = GenOf(i)
      BY <2>1, Zenon DEF Exclusive
    <3>2. \A j \in live : j = <<SlotOf(j), GenOf(j)>>
      BY IdShape, Zenon
    <3> QED BY <2>1, <3>1, <3>2, Zenon
  <2> QED BY <1>0, <2>1, <2>2, <2>3 DEF Exclusive
<1> QED BY <1>1, <1>2, Zenon DEF Starts

\* Exclusive speaks of nothing but the owners' identities, the slots and the live set.
LEMMA ExclusiveFrame ==
    ASSUME Exclusive, \A o \in Owners : id'[o] = id[o], UNCHANGED <<live, allocated, generation>>
    PROVE  Exclusive'
<1>1. \A o, p \in Owners : (o # p /\ id'[o] # NoId /\ id'[p] # NoId) => SlotOf(id'[o]) # SlotOf(id'[p])
  BY Zenon DEF Exclusive, Mine
<1>2. \A o \in Owners : id'[o] # NoId => /\ SlotOf(id'[o]) \in allocated'
                                         /\ GenOf(id'[o]) = generation'[SlotOf(id'[o])]
  BY Zenon DEF Exclusive, Mine
<1>3. \A i \in live' : /\ SlotOf(i) \in allocated' /\ GenOf(i) = generation'[SlotOf(i)]
                       /\ \A o \in Owners : id'[o] # NoId => SlotOf(id'[o]) # SlotOf(i)
  BY Zenon DEF Exclusive, Mine
<1> QED BY <1>1, <1>2, <1>3, Zenon DEF Exclusive, Mine

\* An owner writes no entry but that of its identity.
LEMMA WriteFrame ==
    ASSUME TypeOK, Busy, NEW o \in Owners, Writes(o)
    PROVE  /\ UNCHANGED <<id, loc, allocated, generation, live, home>>
           /\ id[o] \in Ids /\ SlotOf(id[o]) \in Slots /\ id[o] # NoId
           /\ \A s \in Slots \ {SlotOf(id[o])} : /\ seq'[s] = seq[s] /\ gen'[s] = gen[s]
                                                 /\ owner'[s] = owner[s] /\ index'[s] = index[s]
                                                 /\ tag'[s] = tag[s] /\ flag'[s] = flag[s]
<1> USE DEF TypeOK, entry, operations, slots, ghosts, locals, At, Mine, Access
<1>1. UNCHANGED <<id, loc, allocated, generation, live, home>> /\ pc[o] # "idle"
  BY Zenon DEF Writes, Publish, PublishOwner, PublishIndex, PublishTag, PublishId, Retire, RetireSequence,
         RetireId, RetireOwner, RetireIndex, RetireEnd
<1>2. id[o] \in Ids /\ SlotOf(id[o]) \in Slots /\ id[o] # NoId
  BY <1>1, IdShape, Zenon DEF Busy
<1>3. CASE Publish(o) \/ PublishOwner(o) \/ PublishIndex(o) \/ PublishTag(o) \/ PublishId(o)
  BY <1>1, <1>2, <1>3, Zenon DEF Publish, PublishOwner, PublishIndex, PublishTag, PublishId
<1>4. CASE \/ Retire(o) \/ RetireSequence(o) \/ RetireId(o) \/ RetireOwner(o) \/ RetireIndex(o)
           \/ RetireEnd(o)
  BY <1>1, <1>2, <1>4, Zenon DEF Retire, RetireSequence, RetireId, RetireOwner, RetireIndex, RetireEnd
<1> QED BY <1>3, <1>4, Zenon DEF Writes

\* An owner that ends hands its identity out, or gives its slot back.
LEMMA EndFrame ==
    ASSUME TypeOK, Busy, NEW o \in Owners, Ends(o)
    PROVE  /\ id[o] \in Ids /\ SlotOf(id[o]) \in Slots /\ id[o] # NoId
           /\ id'[o] = NoId /\ pc'[o] = "idle"
           /\ UNCHANGED <<gen, owner, index, tag, flag, generation, home>>
           /\ \/ /\ pc[o] = "publish_end" /\ live' = live \cup {id[o]} /\ allocated' = allocated
                 /\ seq'[SlotOf(id[o])] = seq[SlotOf(id[o])] + 1
                 /\ \A s \in Slots \ {SlotOf(id[o])} : seq'[s] = seq[s]
              \/ /\ pc[o] = "free" /\ live' = live /\ allocated' = allocated \ {SlotOf(id[o])}
                 /\ seq' = seq
<1> USE DEF TypeOK, entry, operations, slots, ghosts, locals, At, Mine, Goto, Done, Threads
<1>1. id[o] \in Ids /\ SlotOf(id[o]) \in Slots /\ id[o] # NoId
  BY IdShape, Zenon DEF Busy, Ends, PublishEnd, Free
<1>2. CASE PublishEnd(o)
  BY <1>1, <1>2, Zenon DEF PublishEnd
<1>3. CASE Free(o)
  BY <1>1, <1>3, Zenon DEF Free
<1> QED BY <1>2, <1>3, Zenon DEF Ends

\* The owners' steps leave a slot to one owner or to one live identity.
LEMMA ExclusiveOwner ==
    ASSUME TypeOK, Busy, Exclusive, NEW o \in Owners, OwnerStep(o)
    PROVE  Exclusive'
<1> USE DEF Mine
<1>0. \A p \in Owners \ {o} : id'[p] = id[p]
  BY OwnerFrame, Zenon DEF Threads
<1>00. \A p \in Owners : id[p] # NoId => id[p] \in Ids /\ SlotOf(id[p]) \in Slots
  BY IdShape, Zenon DEF Busy
<1>01. \A i \in live : SlotOf(i) \in Slots
  BY IdShape, Zenon DEF TypeOK
<1>1. CASE Starts(o)
  <2>1. PICK i \in Ids :
             /\ id[o] = NoId /\ id'[o] = i /\ live' = live \ {i} /\ pc'[o] \notin Section
             /\ \A p \in Owners : id[p] # NoId => SlotOf(id[p]) # SlotOf(i)
             /\ \A j \in live \ {i} : SlotOf(j) # SlotOf(i)
             /\ allocated' = allocated \cup {SlotOf(i)} /\ generation'[SlotOf(i)] = GenOf(i)
             /\ \A s \in Slots \ {SlotOf(i)} : generation'[s] = generation[s]
             /\ UNCHANGED <<seq, gen, owner, index>>
    BY <1>1, StartFrame, Zenon
  <2>2. \A p \in Owners \ {o} : id'[p] # NoId => SlotOf(id'[p]) # SlotOf(i)
    BY <1>0, <2>1, Zenon
  <2>3. \A p, q \in Owners : (p # q /\ id'[p] # NoId /\ id'[q] # NoId) => SlotOf(id'[p]) # SlotOf(id'[q])
    BY <1>0, <2>1, <2>2 DEF Exclusive
  <2>4. \A p \in Owners : id'[p] # NoId => /\ SlotOf(id'[p]) \in allocated'
                                           /\ GenOf(id'[p]) = generation'[SlotOf(id'[p])]
    BY <1>0, <1>00, <2>1, <2>2 DEF Exclusive
  <2>5. \A j \in live' : /\ SlotOf(j) \in allocated' /\ GenOf(j) = generation'[SlotOf(j)]
                         /\ \A p \in Owners : id'[p] # NoId => SlotOf(id'[p]) # SlotOf(j)
    BY <1>0, <1>01, <2>1, <2>2 DEF Exclusive
  <2> QED BY <2>3, <2>4, <2>5, Zenon DEF Exclusive
<1>2. CASE Writes(o)
  BY <1>2, WriteFrame, ExclusiveFrame, Zenon
<1>3. CASE Ends(o)
  <2> DEFINE s == SlotOf(id[o])
  <2>1. /\ id[o] # NoId /\ id'[o] = NoId /\ generation' = generation
        /\ \/ live' = live \cup {id[o]} /\ allocated' = allocated
           \/ live' = live /\ allocated' = allocated \ {s}
    BY <1>3, EndFrame, Zenon
  <2>2. \A p \in Owners \ {o} : id[p] # NoId => SlotOf(id[p]) # s
    BY <2>1, Zenon DEF Exclusive
  <2>3. \A j \in live : SlotOf(j) # s
    BY <2>1, Zenon DEF Exclusive
  <2> HIDE DEF s
  <2>4. s \in allocated /\ GenOf(id[o]) = generation[s]
    BY <2>1, Zenon DEF Exclusive, s
  <2>5. \A p, q \in Owners : (p # q /\ id'[p] # NoId /\ id'[q] # NoId) => SlotOf(id'[p]) # SlotOf(id'[q])
    BY <1>0, <2>1 DEF Exclusive
  <2>6. \A p \in Owners : id'[p] # NoId => /\ SlotOf(id'[p]) \in allocated'
                                           /\ GenOf(id'[p]) = generation'[SlotOf(id'[p])]
    BY <1>0, <2>1, <2>2 DEF Exclusive
  <2>7. \A j \in live' : /\ SlotOf(j) \in allocated' /\ GenOf(j) = generation'[SlotOf(j)]
                         /\ \A p \in Owners : id'[p] # NoId => SlotOf(id'[p]) # SlotOf(j)
    BY <1>0, <2>1, <2>2, <2>3, <2>4 DEF Exclusive, s
  <2> QED BY <2>5, <2>6, <2>7, Zenon DEF Exclusive
<1> QED BY <1>1, <1>2, <1>3, OwnerCases, Zenon

\* The sequence is odd exactly between an owner's first and last write.
LEMMA ParityOwner ==
    ASSUME TypeOK, Busy, Exclusive, Parity, NEW o \in Owners, OwnerStep(o)
    PROVE  Parity'
<1> USE DEF Mine, Held
<1>0. \A p \in Owners \ {o} : id'[p] = id[p] /\ pc'[p] = pc[p]
  BY OwnerFrame, Zenon DEF Threads
<1>00. seq \in [Slots -> Nat] /\ o \in Threads
       /\ pc \in [Threads -> {"idle", "found"} \cup Publishing \cup Retiring \cup Locating \cup Operating]
  BY Zenon DEF TypeOK, Threads
<1>1. CASE Starts(o)
  <2>1. PICK i \in Ids :
             /\ id[o] = NoId /\ id'[o] = i /\ pc'[o] \notin Section /\ seq' = seq
             /\ \A p \in Owners : id[p] # NoId => SlotOf(id[p]) # SlotOf(i)
    BY <1>1, StartFrame, Zenon
  <2>2. Even(seq[SlotOf(i)])
    BY <2>1, IdShape, Zenon DEF Parity
  <2>3. \A s \in Slots, p \in Owners : Held(p, s)' => (Even(seq'[s]) <=> pc'[p] \notin Section)
    BY <1>0, <2>1, <2>2, Zenon DEF Parity
  <2>4. \A s \in Slots : (\A p \in Owners : ~Held(p, s)') => Even(seq'[s])
    BY <1>0, <2>1, Zenon DEF Parity
  <2> QED BY <2>3, <2>4, Zenon DEF Parity
<1>2. CASE Writes(o)
  <2>1. /\ id' = id /\ id[o] # NoId /\ SlotOf(id[o]) \in Slots
        /\ \A s \in Slots \ {SlotOf(id[o])} : seq'[s] = seq[s]
    BY <1>2, WriteFrame, Zenon
  <2>2. Even(seq[SlotOf(id[o])]) <=> pc[o] \notin Section
    BY <2>1, Zenon DEF Parity
  <2>3. Even(seq'[SlotOf(id[o])]) <=> pc'[o] \notin Section
    <3> USE DEF Access, At, Goto, Section
    <3>1. CASE Publish(o) \/ RetireSequence(o) \/ RetireEnd(o)
      <4>1. seq'[SlotOf(id[o])] = seq[SlotOf(id[o])] + 1
        BY <1>00, <2>1, <3>1, Zenon DEF Publish, RetireSequence, RetireEnd
      <4>2. pc'[o] \in Section <=> pc[o] \notin Section
        BY <1>00, <3>1, Zenon DEF Publish, RetireSequence, RetireEnd
      <4> QED BY <1>00, <2>1, <2>2, <4>1, <4>2, ParityFlips, Zenon
    <3>2. CASE ~(Publish(o) \/ RetireSequence(o) \/ RetireEnd(o))
      <4>1. seq' = seq /\ (pc'[o] \in Section <=> pc[o] \in Section)
        BY <1>00, <1>2, <3>2, Zenon DEF Writes, PublishOwner, PublishIndex, PublishTag, PublishId, Retire,
              RetireId, RetireOwner, RetireIndex, entry
      <4> QED BY <2>2, <4>1, Zenon
    <3> QED BY <3>1, <3>2, Zenon
  <2>4. \A p \in Owners \ {o} : id[p] # NoId => SlotOf(id[p]) # SlotOf(id[o])
    BY <2>1, Zenon DEF Exclusive
  <2>5. \A s \in Slots, p \in Owners : Held(p, s)' => (Even(seq'[s]) <=> pc'[p] \notin Section)
    BY <1>0, <2>1, <2>3, <2>4, Zenon DEF Parity
  <2>6. \A s \in Slots : (\A p \in Owners : ~Held(p, s)') => Even(seq'[s])
    BY <2>1, Zenon DEF Parity
  <2> QED BY <2>5, <2>6, Zenon DEF Parity
<1>3. CASE Ends(o)
  <2>1. /\ id[o] # NoId /\ id'[o] = NoId /\ SlotOf(id[o]) \in Slots
        /\ \/ /\ pc[o] = "publish_end" /\ seq'[SlotOf(id[o])] = seq[SlotOf(id[o])] + 1
              /\ \A s \in Slots \ {SlotOf(id[o])} : seq'[s] = seq[s]
           \/ pc[o] = "free" /\ seq' = seq
    BY <1>3, EndFrame, Zenon
  <2>2. Even(seq'[SlotOf(id[o])])
    <3>1. Even(seq[SlotOf(id[o])]) <=> pc[o] \notin Section
      BY <2>1, Zenon DEF Parity
    <3> QED BY <1>00, <2>1, <3>1, ParityFlips, Zenon DEF Section
  <2>3. \A s \in Slots \ {SlotOf(id[o])} : seq'[s] = seq[s]
    BY <2>1, Zenon
  <2>4. \A p \in Owners \ {o} : id[p] # NoId => SlotOf(id[p]) # SlotOf(id[o])
    BY <2>1, Zenon DEF Exclusive
  <2>5. \A s \in Slots, p \in Owners : Held(p, s)' => (Even(seq'[s]) <=> pc'[p] \notin Section)
    BY <1>0, <2>1, <2>3, <2>4 DEF Parity
  <2>6. \A s \in Slots : (\A p \in Owners : ~Held(p, s)') => Even(seq'[s])
    BY <1>0, <2>1, <2>2, <2>3 DEF Parity
  <2> QED BY <2>5, <2>6, Zenon DEF Parity
<1> QED BY <1>1, <1>2, <1>3, OwnerCases, Zenon

\* Entries, tags and flags belong to the latest generation of their slot.
LEMMA GenerationsOwner ==
    ASSUME TypeOK, Busy, Exclusive, Written, Generations, NEW o \in Owners, OwnerStep(o)
    PROVE  Generations'
<1> USE DEF Mine
<1>0. posted' = posted
  BY OwnerFrame, Zenon
<1>1. CASE Allocate(o)
  <2>1. PICK s \in Slots \ allocated :
           /\ allocated' = allocated \cup {s} /\ generation' = [generation EXCEPT ![s] = @ + 1]
    BY <1>1, Zenon DEF Allocate
  <2>2. UNCHANGED <<gen, tag, flag>>
    BY <1>1, Zenon DEF Allocate, entry, operations
  <2> QED BY <1>0, <2>1, <2>2, Zenon DEF Generations, TypeOK
<1>2. CASE Migrate(o) \/ BeginRetire(o)
  BY <1>0, <1>2, Zenon DEF Migrate, BeginRetire, entry, operations, slots, Generations
<1>3. CASE Clear(o)
  <2>1. PICK i \in live : ~flag[SlotOf(i)] /\ tag' = [tag EXCEPT ![SlotOf(i)] = 0]
    BY <1>3, Zenon DEF Clear
  <2>2. UNCHANGED <<gen, flag, allocated, generation>>
    BY <1>3, Zenon DEF Clear, entry, slots
  <2> QED BY <1>0, <2>1, <2>2, Zenon DEF Generations, TypeOK
<1>4. CASE Writes(o)
  <2> DEFINE s == SlotOf(id[o])
  <2>1. /\ UNCHANGED <<allocated, generation>> /\ id[o] # NoId /\ s \in Slots /\ id[o] = <<s, GenOf(id[o])>>
        /\ \A r \in Slots \ {s} : gen'[r] = gen[r] /\ tag'[r] = tag[r] /\ flag'[r] = flag[r]
    BY <1>4, WriteFrame, IdShape, Zenon
  <2>2. s \in allocated /\ GenOf(id[o]) = generation[s]
    BY <2>1, Zenon DEF Exclusive
  <2>3. gen'[s] \in {0, generation[s]} /\ tag'[s] \in {0, generation[s]}
    BY <1>4, <2>1, <2>2, Zenon DEF Generations, TypeOK, Writes, Access, Publish, PublishOwner, PublishIndex, PublishTag, PublishId,
       Retire, RetireSequence, RetireId, RetireOwner, RetireIndex, RetireEnd, entry, operations
  <2>4. flag'[s] => <<s, tag'[s]>> \in posted
    <3>1. CASE PublishTag(o)
      BY <2>1, <2>2, <3>1, Zenon DEF Generations, TypeOK, PublishTag
    <3>2. CASE Retire(o)
      BY <2>1, <3>2, Zenon DEF TypeOK, Retire
    <3>3. CASE ~PublishTag(o) /\ ~Retire(o)
      <4>1. UNCHANGED <<tag, flag>>
        BY <1>4, <3>3, Zenon DEF Writes, Publish, PublishOwner, PublishIndex, PublishId,
             RetireSequence, RetireId, RetireOwner, RetireIndex, RetireEnd, operations
      <4> QED BY <2>1, <4>1, Zenon DEF Generations
    <3> QED BY <3>1, <3>2, <3>3, Zenon
  <2> HIDE DEF s
  <2>5. \A r \in Slots : /\ gen'[r] \in {0, generation[r]} /\ tag'[r] \in {0, generation[r]}
                         /\ flag'[r] => <<r, tag'[r]>> \in posted
    BY <2>1, <2>3, <2>4, Zenon DEF Generations
  <2>6. \A r \in Slots : r \notin allocated => gen'[r] = 0 /\ tag'[r] = 0
    BY <2>1, <2>2, Zenon DEF Generations
  <2> QED BY <1>0, <2>1, <2>5, <2>6, Zenon DEF Generations
<1>5. CASE Ends(o)
  <2>1. /\ UNCHANGED <<gen, tag, flag, generation>> /\ SlotOf(id[o]) \in Slots
        /\ \/ allocated' = allocated
           \/ pc[o] = "free" /\ allocated' = allocated \ {SlotOf(id[o])}
    BY <1>5, EndFrame, Zenon
  <2>2. pc[o] = "free" => gen[SlotOf(id[o])] = 0 /\ tag[SlotOf(id[o])] = 0
    BY Zenon DEF Written, Retiring
  <2> QED BY <1>0, <2>1, <2>2, Zenon DEF Generations
<1> QED BY <1>1, <1>2, <1>3, <1>4, <1>5, OwnerCases, Zenon DEF Starts

-----------------------------------------------------------------------------
(***************************************************************************)
(* The task directory is coherent and its generations keep operations      *)
(* apart, for any number of slots, owners, clients and generations.        *)
(***************************************************************************)

\* Places are only added to what an identity was published with.
LEMMA HomeGrows ==
    ASSUME TypeOK, Busy, NEW o \in Owners, OwnerStep(o)
    PROVE  \A i \in Ids : \A x \in home[i] : x \in home'[i]
<1>1. CASE Allocate(o) \/ Migrate(o)
  <2>1. \E i, x : home' = [home EXCEPT ![i] = @ \cup {x}]
    BY <1>1, Zenon DEF Allocate, Migrate
  <2>2. PICK i, x : home' = [home EXCEPT ![i] = @ \cup {x}]
    BY <2>1, Zenon
  <2> QED BY <2>2, Zenon DEF TypeOK
<1>2. CASE ~(Allocate(o) \/ Migrate(o))
  <2>1. home' = home
    BY <1>2, OwnerCases, WriteFrame, EndFrame, Zenon DEF Starts, BeginRetire, Clear
  <2> QED BY <2>1, Zenon
<1> QED BY <1>1, <1>2, Zenon

\* What an owner has written is still there: nobody else writes its entry.
LEMMA WrittenOwner ==
    ASSUME TypeOK, Busy, Exclusive, Written, NEW o \in Owners, OwnerStep(o)
    PROVE  Written'
<1> USE DEF Mine
<1>0. \A p \in Owners \ {o} : id'[p] = id[p] /\ pc'[p] = pc[p] /\ loc'[p] = loc[p]
  BY OwnerFrame, Zenon DEF Threads
<1> DEFINE W(p) ==
        /\ pc[p] \in Publishing => loc[p] \in home[id[p]]
        /\ pc[p] \in {"publish_index", "publish_tag", "publish_id", "publish_end"}
             => owner[Mine(p)] = loc[p].cpu
        /\ pc[p] \in {"publish_tag", "publish_id", "publish_end"} => index[Mine(p)] = loc[p].index
        /\ pc[p] = "publish_end" => gen[Mine(p)] = GenOf(id[p])
        /\ pc[p] \in {"retire_owner", "retire_index", "retire_end", "free"} => gen[Mine(p)] = 0
        /\ pc[p] \in Retiring \ {"retire"} => tag[Mine(p)] = 0
<1>1. \A p \in Owners \ {o} : W(p)'
  <2> SUFFICES ASSUME NEW p \in Owners \ {o} PROVE W(p)'
    BY Zenon
  <2>1. pc[p] # "idle" => id[p] \in Ids /\ id[p] # NoId /\ SlotOf(id[p]) \in Slots
    BY IdShape, Zenon DEF Busy
  <2>2. pc[p] # "idle" => LET s == SlotOf(id[p]) IN
             gen'[s] = gen[s] /\ owner'[s] = owner[s] /\ index'[s] = index[s] /\ tag'[s] = tag[s]
    <3>1. CASE Starts(o)
      <4>1. CASE Clear(o)
        <5>1. PICK i \in live : tag' = [tag EXCEPT ![SlotOf(i)] = 0]
          BY <4>1, Zenon DEF Clear
        <5>2. UNCHANGED <<gen, owner, index>>
          BY <4>1, Zenon DEF Clear, entry
        <5> QED BY <2>1, <5>1, <5>2, Zenon DEF Exclusive, TypeOK
      <4>2. CASE ~Clear(o)
        BY <3>1, <4>2, Zenon DEF Starts, Allocate, Migrate, BeginRetire, entry, operations
      <4> QED BY <4>1, <4>2, Zenon
    <3>2. CASE Writes(o)
      <4>1. id[o] # NoId
        BY <3>2, WriteFrame, Zenon
      <4>2. pc[p] # "idle" => SlotOf(id[p]) # SlotOf(id[o])
        BY <2>1, <4>1, Zenon DEF Exclusive
      <4> QED BY <2>1, <3>2, <4>2, WriteFrame, Zenon
    <3>3. CASE Ends(o)
      BY <3>3, EndFrame, Zenon
    <3> QED BY <3>1, <3>2, <3>3, OwnerCases, Zenon
  <2>3. pc[p] # "idle" => \A x \in home[id[p]] : x \in home'[id[p]]
    BY <2>1, HomeGrows, Zenon
  <2>4. W(p)
    BY Zenon DEF Written
  <2> QED BY <1>0, <2>2, <2>3, <2>4, Zenon DEF Publishing, Retiring
<1>2. W(o)'
  <2> USE DEF TypeOK, entry, operations, slots, ghosts, locals, Goto, At, Access, Publishing, Retiring, Threads
  <2>0. pc[o] # "idle" => id[o] \in Ids /\ SlotOf(id[o]) \in Slots
    BY IdShape, Zenon DEF Busy
  <2>00. W(o)
    BY Zenon DEF Written
  <2>1. CASE Allocate(o)
    <3>1. PICK s \in Slots, x \in Places :
             /\ generation[s] < MaxGen /\ id' = [id EXCEPT ![o] = <<s, generation[s] + 1>>]
             /\ loc' = [loc EXCEPT ![o] = x]
             /\ home' = [home EXCEPT ![<<s, generation[s] + 1>>] = @ \cup {x}]
      BY <2>1, Zenon DEF Allocate
    <3>2. <<s, generation[s] + 1>> \in Ids
      BY <3>1, IdShape, DirectoryAssumption
    <3>3. pc'[o] = "publish" /\ loc'[o] \in home'[id'[o]]
      BY <2>1, <3>1, <3>2, Zenon DEF Allocate
    <3> QED BY <3>3, Zenon
  <2>2. CASE Migrate(o)
    <3>1. pc'[o] = "publish" /\ loc'[o] \in home'[id'[o]]
      BY <2>2 DEF Migrate
    <3> QED BY <3>1, Zenon
  <2>3. CASE BeginRetire(o)
    BY <2>3, Zenon DEF BeginRetire
  <2>4. CASE Clear(o)
    <3>1. pc'[o] = "retire_seq" /\ tag'[SlotOf(id'[o])] = 0
      BY <2>4, IdShape, Zenon DEF Clear
    <3> QED BY <3>1, Zenon
  <2>5. CASE Publish(o) \/ PublishOwner(o) \/ PublishIndex(o) \/ PublishTag(o) \/ PublishId(o)
    BY <2>0, <2>00, <2>5 DEF Publish, PublishOwner, PublishIndex, PublishTag, PublishId
  <2>6. CASE Retire(o) \/ RetireSequence(o) \/ RetireId(o)
    BY <2>0, <2>00, <2>6, Zenon DEF Retire, RetireSequence, RetireId
  <2>7. CASE RetireOwner(o) \/ RetireIndex(o) \/ RetireEnd(o)
    BY <2>0, <2>00, <2>7, Zenon DEF RetireOwner, RetireIndex, RetireEnd
  <2>8. CASE Ends(o)
    BY <2>8, EndFrame, Zenon
  <2> QED BY <2>1, <2>2, <2>3, <2>4, <2>5, <2>6, <2>7, <2>8, Zenon DEF OwnerStep, Ends
<1>3. \A p \in Owners : W(p)'
  BY <1>1, <1>2, Zenon
<1> QED BY <1>3, Zenon DEF Written

\* When the sequence is even again the entry holds a published place.
LEMMA AtRestOwner ==
    ASSUME TypeOK, Busy, Exclusive, Parity, Written, Generations, AtRest, NEW o \in Owners, OwnerStep(o)
    PROVE  AtRest'
<1> USE DEF Mine
<1>0. \A i \in Ids : \A x \in home[i] : x \in home'[i]
  BY HomeGrows, Zenon
<1>00. \A s \in Slots : gen[s] # 0 => <<s, gen[s]>> \in Ids
  BY IdShape, DirectoryAssumption DEF TypeOK
<1>1. CASE Starts(o)
  <2>1. UNCHANGED <<seq, gen, owner, index>>
    BY <1>1, StartFrame, Zenon
  <2> QED BY <1>0, <1>00, <2>1, Zenon DEF AtRest
<1>2. CASE Writes(o)
  <2>1. \A s \in Slots \ {SlotOf(id[o])} : seq'[s] = seq[s] /\ gen'[s] = gen[s] /\ owner'[s] = owner[s]
                                           /\ index'[s] = index[s]
    BY <1>2, WriteFrame, Zenon
  <2>2. /\ UNCHANGED <<id, home>> /\ id[o] \in Ids /\ id[o] # NoId /\ SlotOf(id[o]) \in Slots
    BY <1>2, WriteFrame, Zenon
  <2>3. Even(seq'[SlotOf(id[o])]) <=> pc'[o] \notin Section
    BY <2>2, ParityOwner, Zenon DEF Parity, Held
  <2>4. CASE Even(seq'[SlotOf(id[o])])
    <3>1. CASE Retire(o)
      <4>1. UNCHANGED entry
        BY <3>1, Zenon DEF Retire
      <4> QED BY <2>2, <4>1, Zenon DEF AtRest, entry
    <3>2. CASE RetireEnd(o)
      <4>1. gen[SlotOf(id[o])] = 0 /\ gen' = gen
        BY <3>2, Zenon DEF Written, RetireEnd, Access, At
      <4> QED BY <2>1, <2>2, <4>1, Zenon DEF AtRest
    <3>3. CASE ~(Retire(o) \/ RetireEnd(o))
      <4>1. pc'[o] \in Section
        BY <1>2, <3>3, Zenon DEF Writes, Publish, PublishOwner, PublishIndex, PublishTag, PublishId, RetireSequence,
           RetireId, RetireOwner, RetireIndex, Access, Goto, Section, TypeOK, Threads
      <4> QED BY <2>3, <2>4, <4>1, Zenon
    <3> QED BY <3>1, <3>2, <3>3, Zenon
  <2>5. CASE ~Even(seq'[SlotOf(id[o])])
    BY <2>1, <2>2, <2>5, Zenon DEF AtRest
  <2> QED BY <2>4, <2>5, Zenon
<1>3. CASE Ends(o)
  <2>1. CASE pc[o] = "free"
    <3>1. UNCHANGED <<seq, gen, owner, index, home>>
      BY <1>3, <2>1, EndFrame, Zenon
    <3> QED BY <3>1, Zenon DEF AtRest
  <2>2. CASE pc[o] = "publish_end"
    <3> DEFINE s == SlotOf(id[o])
    <3>1. /\ UNCHANGED <<gen, owner, index, home>> /\ s \in Slots /\ id[o] \in Ids
          /\ \A r \in Slots \ {s} : seq'[r] = seq[r]
      BY <1>3, <2>2, EndFrame, Zenon
    <3>2. /\ loc[o] \in home[id[o]] /\ owner[s] = loc[o].cpu /\ index[s] = loc[o].index
          /\ gen[s] = GenOf(id[o])
      BY <2>2, Zenon DEF Written, Publishing
    <3>3. id[o] = <<s, gen[s]>> /\ loc[o] = [cpu |-> owner[s], index |-> index[s]]
      BY <3>1, <3>2, IdShape, Zenon DEF TypeOK, Places, Threads
    <3> HIDE DEF s
    <3> QED BY <3>1, <3>2, <3>3, Zenon DEF AtRest
  <2> QED BY <1>3, <2>1, <2>2, EndFrame, Zenon
<1> QED BY <1>1, <1>2, <1>3, OwnerCases, Zenon

-----------------------------------------------------------------------------
\* A reader's snapshot survives the steps of owners: they change the entry only
\* while its sequence is odd, and the sequence never returns to a value.
LEMMA SnapshotOwner ==
    ASSUME TypeOK, Busy, Exclusive, Parity, Snapshot, NEW o \in Owners, OwnerStep(o)
    PROVE  Snapshot'
<1> USE DEF Mine
<1> SUFFICES ASSUME NEW t \in Clients, pc'[t] \in Reading
             PROVE  /\ seen'[t] <= seq'[SlotOf(id'[t])] /\ Even(seen'[t])
                    /\ seen'[t] = seq'[SlotOf(id'[t])] =>
                         /\ pc'[t] # "locate_id" => gen'[SlotOf(id'[t])] = GenOf(id'[t])
                         /\ pc'[t] \in {"locate_index", "locate_again"} => loc'[t].cpu = owner'[SlotOf(id'[t])]
                         /\ pc'[t] = "locate_again" => loc'[t].index = index'[SlotOf(id'[t])]
  BY Zenon DEF Snapshot
<1> DEFINE s == SlotOf(id[t])
<1>1. pc'[t] = pc[t] /\ id'[t] = id[t] /\ seen'[t] = seen[t] /\ loc'[t] = loc[t]
  BY OwnerFrame, DirectoryAssumption DEF Threads
<1>2. s \in Slots /\ seq[s] \in Nat /\ seen[t] \in Nat
  BY <1>1, IdShape, Zenon DEF Busy, Reading, TypeOK, Threads
<1>3. /\ seen[t] <= seq[s] /\ Even(seen[t])
      /\ seen[t] = seq[s] => /\ pc[t] # "locate_id" => gen[s] = GenOf(id[t])
                             /\ pc[t] \in {"locate_index", "locate_again"} => loc[t].cpu = owner[s]
                             /\ pc[t] = "locate_again" => loc[t].index = index[s]
  BY <1>1, Zenon DEF Snapshot
<1> HIDE DEF s
<1>4. ASSUME seq'[s] = seq[s] + 1 PROVE seen[t] <= seq'[s] /\ seen[t] # seq'[s]
  <2>1. seen[t] <= seq[s]
    BY <1>3, Zenon
  <2> QED BY <1>2, <1>4, <2>1
<1>5. CASE Starts(o)
  <2>1. UNCHANGED <<seq, gen, owner, index>>
    BY <1>5, StartFrame, Zenon
  <2> QED BY <1>1, <1>3, <2>1, Zenon DEF s
<1>6. CASE Writes(o)
  <2>1. CASE SlotOf(id[o]) # s
    <3>1. seq'[s] = seq[s] /\ gen'[s] = gen[s] /\ owner'[s] = owner[s] /\ index'[s] = index[s]
      BY <1>2, <1>6, <2>1, WriteFrame, Zenon
    <3> QED BY <1>1, <1>3, <3>1, Zenon DEF s
  <2>2. CASE SlotOf(id[o]) = s
    <3>1. CASE Publish(o) \/ RetireSequence(o) \/ RetireEnd(o)
      <4>1. seq'[s] = seq[s] + 1
        BY <1>2, <2>2, <3>1, Zenon DEF Publish, RetireSequence, RetireEnd, TypeOK
      <4> QED BY <1>1, <1>3, <1>4, <4>1, Zenon DEF s
    <3>2. CASE Retire(o)
      <4>1. UNCHANGED <<seq, gen, owner, index>>
        BY <3>2, Zenon DEF Retire, entry
      <4> QED BY <1>1, <1>3, <4>1, Zenon DEF s
    <3>3. CASE ~(Publish(o) \/ RetireSequence(o) \/ RetireEnd(o) \/ Retire(o))
      <4>1. pc[o] \in Section /\ seq' = seq
        BY <1>6, <3>3, Zenon DEF Writes, PublishOwner, PublishIndex, PublishTag, PublishId, RetireId, RetireOwner,
             RetireIndex, Access, At, Section, entry
      <4>2. ~Even(seq[s])
        BY <1>2, <1>6, <2>2, <4>1, WriteFrame, Zenon DEF Parity, Held
      <4>3. seen[t] # seq'[s] /\ seen[t] <= seq'[s]
        BY <1>3, <4>1, <4>2, Zenon
      <4> QED BY <1>1, <1>3, <4>3, Zenon DEF s
    <3> QED BY <3>1, <3>2, <3>3, Zenon
  <2> QED BY <2>1, <2>2, Zenon
<1>7. CASE Ends(o)
  <2>1. UNCHANGED <<gen, owner, index>> /\ (seq'[s] = seq[s] \/ seq'[s] = seq[s] + 1)
    BY <1>2, <1>7, EndFrame, Zenon
  <2> QED BY <1>1, <1>3, <1>4, <2>1, Zenon DEF s
<1> QED BY <1>5, <1>6, <1>7, OwnerCases, Zenon

\* A reader's own loads agree with the entry.
LEMMA SnapshotClient ==
    ASSUME TypeOK, Busy, Snapshot, AtRest, LookupCoherent, NEW t \in Clients, ClientStep(t)
    PROVE  Snapshot' /\ LookupCoherent'
<1> USE DEF Mine
<1> DEFINE s == SlotOf(id[t])
           Seen == /\ pc[t] \in Reading => seen[t] <= seq[SlotOf(id[t])] /\ Even(seen[t])
                   /\ (pc[t] \in Reading /\ seen[t] = seq[SlotOf(id[t])]) =>
                        /\ pc[t] # "locate_id" => gen[SlotOf(id[t])] = GenOf(id[t])
                        /\ pc[t] \in {"locate_index", "locate_again"} => loc[t].cpu = owner[SlotOf(id[t])]
                        /\ pc[t] = "locate_again" => loc[t].index = index[SlotOf(id[t])]
           Found == pc[t] = "found" => loc[t] \in home[id[t]]
<1>0. /\ UNCHANGED <<seq, gen, owner, index, home>>
      /\ \A u \in Clients \ {t} : pc'[u] = pc[u] /\ id'[u] = id[u] /\ seen'[u] = seen[u] /\ loc'[u] = loc[u]
  BY ClientFrame, Zenon DEF Threads
<1>1. pc[t] # "idle" => id[t] \in Ids /\ s \in Slots /\ seq[s] \in Nat /\ gen[s] \in Nat
  <2>1. pc[t] # "idle" => id[t] \in Ids /\ s \in Slots
    BY IdShape, Zenon DEF Busy
  <2>2. \A r \in Slots : seq[r] \in Nat /\ gen[r] \in Nat
    BY DirectoryAssumption DEF TypeOK
  <2> QED BY <2>1, <2>2, Zenon
<1>2. Seen /\ t \in Threads
  BY Zenon DEF Snapshot, Threads
<1>3. Seen' /\ Found'
  <2> USE DEF TypeOK, entry, operations, slots, ghosts, locals, Goto, At, Reading
  <2>1. CASE Begin(t)
    BY <1>2, <2>1, Zenon DEF Begin
  <2>2. CASE Done(t) \/ Retry(t)
    BY <1>2, <2>2, Zenon DEF Done, Retry
  <2>3. CASE LoadSequence(t) /\ ~Done(t) /\ ~Retry(t)
    <3>1. pc'[t] = "locate_id" /\ seen'[t] = seq[s] /\ Even(seq[s]) /\ id' = id /\ pc[t] # "idle"
      BY <1>2, <2>3, Zenon DEF LoadSequence, Even
    <3>2. /\ seen'[t] <= seq'[SlotOf(id'[t])] /\ Even(seen'[t])
          /\ pc'[t] = "locate_id" /\ pc'[t] # "found"
          /\ pc'[t] \notin {"locate_index", "locate_again"} /\ pc'[t] # "locate_again"
      <4>1. seq[s] \in Nat /\ seq' = seq /\ id' = id
        BY <1>0, <1>1, <3>1, Zenon
      <4>2. seq[s] <= seq[s]
        BY <4>1
      <4> QED BY <3>1, <4>1, <4>2, Zenon
    <3> QED BY <3>2, Zenon
  <2>4. CASE LoadId(t) /\ ~Done(t)
    <3>1. pc[t] = "locate_id" /\ pc'[t] = "locate_owner" /\ gen[s] = GenOf(id[t]) /\ UNCHANGED <<id, seen, loc>>
      BY <1>2, <2>4, Zenon DEF LoadId
    <3> QED BY <1>0, <1>2, <3>1, Zenon
  <2>5. CASE LoadOwner(t)
    <3>1. /\ pc[t] = "locate_owner" /\ pc'[t] = "locate_index" /\ loc'[t].cpu = owner[s]
          /\ UNCHANGED <<id, seen>>
      BY <1>2, <2>5, Zenon DEF LoadOwner, Places
    <3> QED BY <1>0, <1>2, <3>1, Zenon
  <2>6. CASE LoadIndex(t)
    <3>1. /\ pc[t] = "locate_index" /\ pc'[t] = "locate_again" /\ loc'[t].index = index[s]
          /\ loc'[t].cpu = loc[t].cpu /\ UNCHANGED <<id, seen>>
      BY <1>2, <2>6, Zenon DEF LoadIndex, Places
    <3> QED BY <1>0, <1>2, <3>1, Zenon
  <2>7. CASE LoadAgain(t) /\ ~Retry(t)
    <3>1. pc[t] = "locate_again" /\ pc'[t] = "found" /\ seq[s] = seen[t] /\ UNCHANGED <<id, seen, loc>>
      BY <1>2, <2>7, Zenon DEF LoadAgain
    <3>2. gen[s] = GenOf(id[t]) /\ loc[t].cpu = owner[s] /\ loc[t].index = index[s] /\ Even(seq[s])
      BY <1>2, <3>1, Zenon
    <3>3. id[t] = <<s, gen[s]>> /\ gen[s] # 0
      BY <1>1, <3>1, <3>2, IdShape
    <3>4. loc[t] = [cpu |-> owner[s], index |-> index[s]]
      BY <1>2, <3>2, Zenon DEF Places
    <3>5. loc[t] \in home[id[t]]
      BY <1>1, <3>1, <3>2, <3>3, <3>4, Zenon DEF AtRest
    <3> QED BY <1>0, <3>1, <3>5, Zenon
  <2>8. CASE Use(t) \/ PublishOperations(t) \/ TakeOperations(t)
    BY <2>2, <2>8, Zenon DEF Use, PublishOperations, TakeOperations
  <2>9. CASE CheckId(t) /\ ~Done(t)
    BY <1>2, <2>9, Zenon DEF CheckId
  <2> QED BY <2>1, <2>2, <2>3, <2>4, <2>5, <2>6, <2>7, <2>8, <2>9, Zenon DEF ClientStep
<1>4. Snapshot'
  <2>1. \A u \in Clients \ {t} :
        /\ pc'[u] \in Reading => seen'[u] <= seq'[SlotOf(id'[u])] /\ Even(seen'[u])
        /\ (pc'[u] \in Reading /\ seen'[u] = seq'[SlotOf(id'[u])]) =>
              /\ pc'[u] # "locate_id" => gen'[SlotOf(id'[u])] = GenOf(id'[u])
              /\ pc'[u] \in {"locate_index", "locate_again"} => loc'[u].cpu = owner'[SlotOf(id'[u])]
              /\ pc'[u] = "locate_again" => loc'[u].index = index'[SlotOf(id'[u])]
    BY <1>0, Zenon DEF Snapshot
  <2> QED BY <1>3, <2>1, Zenon DEF Snapshot
<1>5. LookupCoherent'
  BY <1>0, <1>3, Zenon DEF LookupCoherent, At
<1> QED BY <1>4, <1>5, Zenon

\* Clients change no entry: they set flags of the generation they name.
LEMMA ClientKeeps ==
    ASSUME TypeOK, Busy, Exclusive, Parity, Written, Generations, AtRest, NEW t \in Clients, ClientStep(t)
    PROVE  (Exclusive /\ Parity /\ Written /\ Generations /\ AtRest)'
<1>1. UNCHANGED <<seq, gen, owner, index, tag, allocated, generation, live, home>>
  BY ClientFrame, Zenon
<1>2. \A o \in Owners : pc'[o] = pc[o] /\ id'[o] = id[o] /\ loc'[o] = loc[o]
  BY ClientFrame, DirectoryAssumption DEF Threads
<1>3. Exclusive'
  BY <1>1, <1>2, ExclusiveFrame, Zenon
<1>4. Parity'
  BY <1>1, <1>2, Zenon DEF Parity, Held, Mine
<1>5. Written'
  BY <1>1, <1>2 DEF Written, Mine
<1>6. AtRest'
  BY <1>1, Zenon DEF AtRest
<1>7. \A s \in Slots : flag'[s] => <<s, tag[s]>> \in posted'
  <2>1. CASE PublishOperations(t)
    <3>1. id[t] \in Ids
      BY <2>1, Zenon DEF PublishOperations, At, Busy
    <3>2. Tagged(id[t]) => id[t] = <<SlotOf(id[t]), tag[SlotOf(id[t])]>>
      BY <3>1, IdShape, Zenon DEF Tagged
    <3> QED BY <2>1, <3>2 DEF PublishOperations, Generations, TypeOK, Mine
  <2>2. CASE TakeOperations(t)
    BY <2>2, Zenon DEF TakeOperations, Generations, TypeOK, ghosts
  <2>3. CASE ~PublishOperations(t) /\ ~TakeOperations(t)
    <3>1. UNCHANGED <<flag, posted>>
      BY <2>3, Zenon DEF ClientStep, Begin, LoadSequence, LoadId, LoadOwner, LoadIndex, LoadAgain, Use, CheckId,
           operations, ghosts
    <3> QED BY <3>1, Zenon DEF Generations
  <2> QED BY <2>1, <2>2, <2>3, Zenon
<1>8. Generations'
  BY <1>1, <1>7, Zenon DEF Generations
<1> QED BY <1>3, <1>4, <1>5, <1>6, <1>8, Zenon

\* Places already returned stay places of their identity.
LEMMA LookupOwner ==
    ASSUME TypeOK, Busy, LookupCoherent, NEW o \in Owners, OwnerStep(o)
    PROVE  LookupCoherent'
<1>1. \A t \in Clients : pc'[t] = pc[t] /\ id'[t] = id[t] /\ loc'[t] = loc[t]
  BY OwnerFrame, DirectoryAssumption DEF Threads
<1>2. \A t \in Clients : pc[t] # "idle" => id[t] \in Ids
  BY Zenon DEF Busy
<1> QED BY <1>1, <1>2, HomeGrows, Zenon DEF LookupCoherent, At

\* The empty directory satisfies the invariant.
LEMMA InitIInv == Init => IInv
<1> SUFFICES ASSUME Init PROVE IInv
  BY Zenon
<1> USE DEF Init
<1>1. TypeOK
  <2>1. 0 \in 0 .. MaxGen /\ 0 \in 0 .. Tries /\ Nowhere \in Places
    BY DirectoryAssumption DEF Nowhere, Places
  <2> QED BY <2>1, DirectoryAssumption, Zenon DEF TypeOK
<1>2. Even(0)
  BY DEF Even
<1>3. \A u \in Threads : pc[u] = "idle" /\ id[u] = NoId
  BY Zenon
<1>4. Busy
  BY <1>3, Zenon DEF Busy, Threads, Reading
<1>5. Exclusive /\ Parity
  BY <1>2, <1>3, Zenon DEF Exclusive, Parity, Held, Threads
<1>6. Written /\ Snapshot /\ LookupCoherent
  BY <1>3, Zenon DEF Written, Snapshot, LookupCoherent, At, Threads, Publishing, Retiring, Reading
<1>7. Generations /\ AtRest
  BY Zenon DEF Generations, AtRest
<1> QED BY <1>1, <1>4, <1>5, <1>6, <1>7, Zenon DEF IInv

\* The invariant of the directory holds of every reachable state.
LEMMA Inductive == Spec => []IInv
<1>1. IInv /\ [Next]_vars => IInv'
  <2> SUFFICES ASSUME IInv, [Next]_vars PROVE IInv'
    BY Zenon
  <2>1. ASSUME NEW o \in Owners, OwnerStep(o) PROVE IInv'
    <3>1. o \in Threads
      BY Zenon DEF Threads
    <3>2. TypeOK' /\ Busy'
      <4>1. TypeOK /\ Busy
        BY Zenon DEF IInv
      <4>2. TypeOK'
        BY <2>1, <4>1, TypeOwner, Zenon
      <4>3. Busy'
        BY <2>1, <4>1, BusyOwner, Zenon
      <4> QED BY <4>2, <4>3, Zenon
    <3>3. Exclusive' /\ Parity'
      BY <2>1, ExclusiveOwner, ParityOwner, Zenon DEF IInv
    <3>4. Written' /\ Generations'
      BY <2>1, WrittenOwner, GenerationsOwner, Zenon DEF IInv
    <3>5. AtRest' /\ Snapshot' /\ LookupCoherent'
      BY <2>1, AtRestOwner, SnapshotOwner, LookupOwner, Zenon DEF IInv
    <3> QED BY <3>2, <3>3, <3>4, <3>5, Zenon DEF IInv
  <2>2. ASSUME NEW t \in Clients, ClientStep(t) PROVE IInv'
    <3> QED BY <2>2, TypeClient, BusyClient, ClientKeeps, SnapshotClient, Zenon DEF IInv
  <2>3. CASE UNCHANGED vars
    <3> USE <2>3 DEF vars, entry, operations, slots, ghosts, locals
    <3>1. TypeOK' /\ Busy' /\ Exclusive'
      BY Zenon DEF IInv, TypeOK, Busy, Exclusive, Mine
    <3>2. Parity' /\ Written' /\ Generations'
      BY Zenon DEF IInv, Parity, Held, Written, Generations, Mine
    <3>3. AtRest' /\ Snapshot' /\ LookupCoherent'
      BY Zenon DEF IInv, AtRest, Snapshot, LookupCoherent, At, Mine
    <3> QED BY <3>1, <3>2, <3>3, Zenon DEF IInv
  <2> QED BY <2>1, <2>2, <2>3, Zenon DEF Next
<1> QED BY InitIInv, <1>1, PTL DEF Spec

-----------------------------------------------------------------------------
\* Entries, tags, bitmap and registers keep their types; locate makes a bounded
\* number of attempts.
THEOREM DirectoryTypeCorrect == Spec => []TypeOK
BY Inductive, PTL DEF IInv

\* TaskDirectory::locate never mixes the owner of one publication with the
\* index of another, whatever is published, retired and reused meanwhile.
THEOREM LookupsCoherent == Spec => []LookupCoherent
BY Inductive, PTL DEF IInv

\* The allocator's bit gives an entry one writer, as publish requires.
THEOREM OneWriterPerEntry == Spec => []SingleWriter
<1>1. IInv => SingleWriter
  BY Zenon DEF IInv, Exclusive, SingleWriter
<1> QED BY Inductive, <1>1, PTL

\* A pending operation belongs to the generation whose tag the word carries.
THEOREM OperationsKeepGeneration == Spec => []FlagsOfGeneration
<1>1. IInv => FlagsOfGeneration
  BY Zenon DEF IInv, Generations, FlagsOfGeneration
<1> QED BY Inductive, <1>1, PTL

\* take_operations by a delayed consumer of an old generation clears nothing of
\* its successor.
THEOREM OnlyOwnFlagsTaken == Spec => FlagTakenByItsOwn
<1> DEFINE Own == \A s \in Slots : (flag[s] /\ ~flag'[s] /\ tag'[s] = tag[s]) =>
                     \E t \in Clients : At(t, "take_rmw") /\ id[t] = <<s, tag[s]>>
<1>1. IInv /\ [Next]_vars => [Own]_vars
  <2> SUFFICES ASSUME IInv, Next, NEW s \in Slots, flag[s], ~flag'[s], tag'[s] = tag[s]
               PROVE  \E t \in Clients : At(t, "take_rmw") /\ id[t] = <<s, tag[s]>>
    BY Zenon
  <2> USE DEF IInv
  <2>1. tag[s] # 0
    <3>1. <<s, tag[s]>> \in Ids
      BY Zenon DEF TypeOK, Generations
    <3>2. tag[s] \in 1 .. MaxGen
      BY <3>1, Zenon DEF Ids
    <3> QED BY <3>2, DirectoryAssumption
  <2>2. ASSUME NEW o \in Owners, OwnerStep(o) PROVE FALSE
    <3>1. CASE PublishTag(o)
      BY <3>1, Zenon DEF PublishTag, TypeOK
    <3>2. CASE Retire(o)
      BY <2>1, <3>2, Zenon DEF Retire, TypeOK
    <3>3. CASE ~PublishTag(o) /\ ~Retire(o)
      <4>1. flag' = flag
        BY <2>2, <3>3, Zenon DEF OwnerStep, Allocate, Publish, PublishOwner, PublishIndex, PublishId, PublishEnd,
             Migrate, BeginRetire, Clear, RetireSequence, RetireId, RetireOwner, RetireIndex, RetireEnd,
             Free, operations
      <4> QED BY <4>1, Zenon
    <3> QED BY <3>1, <3>2, <3>3, Zenon
  <2>3. ASSUME NEW t \in Clients, ClientStep(t) PROVE At(t, "take_rmw") /\ id[t] = <<s, tag[s]>>
    <3>1. CASE TakeOperations(t)
      <4>1. At(t, "take_rmw") /\ id[t] \in Ids
        BY <3>1, Zenon DEF TakeOperations, At, Busy
      <4>2. s = SlotOf(id[t]) /\ Tagged(id[t])
        BY <3>1, Zenon DEF TakeOperations, TypeOK, Mine
      <4> QED BY <4>1, <4>2, IdShape, Zenon DEF Tagged
    <3>2. CASE PublishOperations(t)
      BY <3>2, Zenon DEF PublishOperations, TypeOK
    <3>3. CASE ~PublishOperations(t) /\ ~TakeOperations(t)
      <4>1. flag' = flag
        BY <2>3, <3>3, Zenon DEF ClientStep, Begin, LoadSequence, LoadId, LoadOwner, LoadIndex, LoadAgain, Use,
             CheckId, operations
      <4> QED BY <4>1, Zenon
    <3> QED BY <3>1, <3>2, <3>3, Zenon
  <2> QED BY <2>2, <2>3, Zenon DEF Next
<1> QED BY Inductive, <1>1, PTL DEF Spec, FlagTakenByItsOwn

-----------------------------------------------------------------------------
(* Lookups of live identities *)

\* An identity that its owner has moved.
Moved(i) == \E p, q \in home[i] : p # q

\* A client's identity was handed out before: its slot has no earlier generation,
\* and whoever publishes it again is moving it.
Handed(t) ==
    /\ pc[t] = "idle" => tries[t] = 0
    /\ pc[t] # "idle" =>
          /\ GenOf(id[t]) <= generation[Mine(t)]
          /\ \A o \in Owners : (id[o] = id[t] /\ pc[o] \in Publishing) => Moved(id[t])

\* The entry of a live identity is not written while it is looked up, unless the
\* identity was moved: no attempt fails, and what was read stays.
Undisturbed(t) ==
    (pc[t] \in Locating /\ id[t] \in live) =>
        Moved(id[t]) \/ (tries[t] = 0 /\ (pc[t] \in Reading => seen[t] = seq[Mine(t)]))

Named == \A i \in live : gen[SlotOf(i)] = GenOf(i)

Steady == Named /\ \A t \in Clients : Handed(t) /\ Undisturbed(t)

\* Between owners the entry of a live identity is even, held by no owner, and has
\* a place.
LEMMA LiveAtRest ==
    ASSUME IInv, Named, NEW i \in live
    PROVE  /\ i \in Ids /\ SlotOf(i) \in Slots /\ Even(seq[SlotOf(i)]) /\ home[i] # {}
           /\ \A o \in Owners : id[o] # NoId => Mine(o) # SlotOf(i)
           /\ GenOf(i) = generation[SlotOf(i)]
<1>1. i \in Ids
  BY Zenon DEF IInv, TypeOK
<1>2. SlotOf(i) \in Slots /\ GenOf(i) \in 1 .. MaxGen /\ i = <<SlotOf(i), GenOf(i)>>
  BY <1>1, IdShape, Zenon
<1>3. /\ \A o \in Owners : id[o] # NoId => Mine(o) # SlotOf(i)
      /\ GenOf(i) = generation[SlotOf(i)]
  BY Zenon DEF IInv, Exclusive
<1>4. Even(seq[SlotOf(i)])
  BY <1>2, <1>3, Zenon DEF IInv, Parity, Held
<1>5. gen[SlotOf(i)] = GenOf(i) /\ gen[SlotOf(i)] # 0
  BY <1>2 DEF Named
<1>6. [cpu |-> owner[SlotOf(i)], index |-> index[SlotOf(i)]] \in home[<<SlotOf(i), gen[SlotOf(i)]>>]
  BY <1>2, <1>4, <1>5, Zenon DEF IInv, AtRest
<1> QED BY <1>1, <1>2, <1>3, <1>4, <1>5, <1>6, Zenon

\* Generation counters are natural numbers.
LEMMA CounterNat ==
    ASSUME NEW f \in [Slots -> 0 .. MaxGen], NEW s \in Slots
    PROVE  f[s] \in Nat
BY DirectoryAssumption

\* A generation counter never goes back.
LEMMA GenerationGrows ==
    ASSUME TypeOK, NEW o \in Owners, OwnerStep(o)
    PROVE  \A s \in Slots : generation[s] <= generation'[s]
<1>0. \A s \in Slots : generation[s] \in Nat
  BY DirectoryAssumption DEF TypeOK
<1>1. CASE Allocate(o)
  <2>1. PICK s \in Slots : generation' = [generation EXCEPT ![s] = @ + 1]
    BY <1>1, Zenon DEF Allocate
  <2> QED BY <1>0, <2>1 DEF TypeOK
<1>2. CASE ~Allocate(o)
  <2>1. generation' = generation
    BY <1>2, Zenon DEF OwnerStep, Access, Publish, PublishOwner, PublishIndex, PublishTag, PublishId, PublishEnd,
         Migrate, BeginRetire, Retire, Clear, RetireSequence, RetireId, RetireOwner, RetireIndex, RetireEnd,
         Free, slots
  <2> QED BY <1>0, <2>1
<1> QED BY <1>1, <1>2, Zenon

\* An owner that takes up a client's identity to publish it moves it.
LEMMA StartsMoves ==
    ASSUME IInv, Named, NEW o \in Owners, Starts(o), pc'[o] \in Publishing, NEW i \in Ids,
           id'[o] = i, GenOf(i) <= generation[SlotOf(i)]
    PROVE  Moved(i)'
<1> USE DEF IInv, TypeOK, Goto, At, Threads
<1>1. CASE Allocate(o)
  <2>1. PICK s \in Slots : id' = [id EXCEPT ![o] = <<s, generation[s] + 1>>]
    BY <1>1, Zenon DEF Allocate
  <2>2. i = <<s, generation[s] + 1>> /\ generation[s] \in Nat
    BY <2>1, DirectoryAssumption
  <2>3. SlotOf(i) = s /\ GenOf(i) = generation[s] + 1
    BY <2>2 DEF SlotOf, GenOf
  <2> QED BY <2>2, <2>3
<1>2. CASE Migrate(o)
  <2>1. PICK j \in live, p \in Places : /\ p \notin home[j] /\ id' = [id EXCEPT ![o] = j]
                                        /\ home' = [home EXCEPT ![j] = @ \cup {p}]
    BY <1>2, Zenon DEF Migrate
  <2>2. i = j
    BY <2>1, Zenon
  <2>3. home[i] # {}
    BY <2>2, LiveAtRest, Zenon
  <2>4. home'[i] = home[i] \cup {p}
    BY <2>1, <2>2, Zenon
  <2> QED BY <2>1, <2>2, <2>3, <2>4 DEF Moved
<1>3. CASE BeginRetire(o) \/ Clear(o)
  BY <1>3, Zenon DEF BeginRetire, Clear, Publishing
<1> QED BY <1>1, <1>2, <1>3, Zenon DEF Starts

\* What a client may assume of its identity holds while the owners work.
LEMMA HandedOwner ==
    ASSUME IInv, Named, NEW o \in Owners, OwnerStep(o), NEW t \in Clients, Handed(t)
    PROVE  Handed(t)'
<1> USE DEF IInv
<1>1. t \in Threads \ {o}
  BY DirectoryAssumption, Zenon DEF Threads
<1>2. pc'[t] = pc[t] /\ id'[t] = id[t] /\ tries'[t] = tries[t]
  BY <1>1, OwnerFrame, Zenon
<1>3. CASE pc[t] = "idle"
  BY <1>2, <1>3, Zenon DEF Handed
<1>4. CASE pc[t] # "idle"
  <2>1. id[t] \in Ids /\ SlotOf(id[t]) \in Slots /\ GenOf(id[t]) \in Nat /\ id[t] # NoId
    BY <1>4, IdShape, DirectoryAssumption DEF Busy
  <2>2. GenOf(id[t]) <= generation[SlotOf(id[t])]
    BY <1>4, Zenon DEF Handed, Mine
  <2>3. generation[SlotOf(id[t])] \in Nat /\ generation'[SlotOf(id[t])] \in Nat
    <3>1. TypeOK'
      BY TypeOwner, Zenon
    <3>2. generation \in [Slots -> 0 .. MaxGen] /\ generation' \in [Slots -> 0 .. MaxGen]
      BY <3>1, Zenon DEF TypeOK
    <3> QED BY <2>1, <3>2, CounterNat, Zenon
  <2>4. GenOf(id[t]) <= generation'[SlotOf(id[t])]
    BY <2>1, <2>2, <2>3, GenerationGrows
  <2>5. Moved(id[t]) => Moved(id[t])'
    BY <1>2, <2>1, HomeGrows, Zenon DEF Moved
  <2>6. ASSUME NEW q \in Owners, id'[q] = id[t], pc'[q] \in Publishing PROVE Moved(id[t])'
    <3>1. CASE id[q] = id[t] /\ pc[q] \in Publishing
      BY <1>4, <2>5, <3>1, Zenon DEF Handed
    <3>2. CASE q # o
      <4>1. id'[q] = id[q] /\ pc'[q] = pc[q]
        BY <3>2, OwnerFrame, Zenon DEF Threads
      <4> QED BY <2>6, <3>1, <4>1, Zenon
    <3>3. CASE q = o
      <4>1. CASE Starts(o)
        <5>1. PICK i \in Ids : i = id[t] /\ id'[o] = i
          BY <2>1, <2>6, <3>3, Zenon
        <5>2. Moved(i)'
          BY <2>2, <2>6, <3>3, <4>1, <5>1, StartsMoves, Zenon
        <5> QED BY <1>2, <5>1, <5>2, Zenon DEF Moved
      <4>2. CASE Writes(o)
        <5>1. id'[o] = id[o]
          BY <4>2, WriteFrame, Zenon
        <5>2. pc[o] \in Publishing
          BY <2>6, <3>3, <4>2, Zenon DEF Writes, Access, At, Goto, Publish, PublishOwner, PublishIndex, PublishTag,
               PublishId, Retire, RetireSequence, RetireId, RetireOwner, RetireIndex, RetireEnd,
               Publishing, TypeOK, Threads
        <5> QED BY <2>6, <3>1, <3>3, <5>1, <5>2, Zenon
      <4>3. CASE Ends(o)
        BY <2>1, <2>6, <3>3, <4>3, EndFrame, Zenon
      <4> QED BY <4>1, <4>2, <4>3, OwnerCases, Zenon
    <3> QED BY <3>2, <3>3, Zenon
  <2> QED BY <1>2, <1>4, <2>4, <2>6, Zenon DEF Handed, Mine
<1> QED BY <1>3, <1>4, Zenon

\* The entry of a live identity names it, whatever the owners do.
LEMMA NamedOwner ==
    ASSUME IInv, Named, NEW o \in Owners, OwnerStep(o)
    PROVE  Named'
<1> USE DEF IInv
<1> SUFFICES ASSUME NEW i \in live' PROVE gen'[SlotOf(i)] = GenOf(i)
  BY Zenon DEF Named
<1>1. CASE i \in live
  <2>1. SlotOf(i) \in Slots /\ gen[SlotOf(i)] = GenOf(i)
    BY <1>1, LiveAtRest, Zenon DEF Named
  <2>2. \A p \in Owners : id[p] # NoId => SlotOf(id[p]) # SlotOf(i)
    BY <1>1, LiveAtRest, Zenon DEF Mine
  <2>3. CASE Starts(o)
    BY <2>1, <2>3, StartFrame, Zenon
  <2>4. CASE Writes(o)
    BY <2>1, <2>2, <2>4, WriteFrame, Zenon
  <2>5. CASE Ends(o)
    BY <2>1, <2>5, EndFrame, Zenon
  <2> QED BY <2>3, <2>4, <2>5, OwnerCases, Zenon
<1>2. CASE i \notin live
  <2>1. CASE Starts(o)
    BY <1>2, <2>1, StartFrame, Zenon
  <2>2. CASE Writes(o)
    BY <1>2, <2>2, WriteFrame, Zenon
  <2>3. CASE Ends(o)
    <3>1. pc[o] = "publish_end" /\ i = id[o] /\ gen' = gen
      BY <1>2, <2>3, EndFrame, Zenon
    <3> QED BY <3>1, Zenon DEF Written, Mine
  <2> QED BY <2>1, <2>2, <2>3, OwnerCases, Zenon
<1> QED BY <1>1, <1>2, Zenon

\* An owner disturbs a lookup only by moving or retiring its identity.
LEMMA UndisturbedOwner ==
    ASSUME IInv, Named, NEW o \in Owners, OwnerStep(o), NEW t \in Clients, Handed(t), Undisturbed(t)
    PROVE  Undisturbed(t)'
<1> USE DEF IInv
<1>1. t \in Threads \ {o}
  BY DirectoryAssumption, Zenon DEF Threads
<1>2. pc'[t] = pc[t] /\ id'[t] = id[t] /\ tries'[t] = tries[t] /\ seen'[t] = seen[t]
  BY <1>1, OwnerFrame, Zenon
<1> SUFFICES ASSUME pc[t] \in Locating, id[t] \in live'
             PROVE  Moved(id[t])' \/ (tries[t] = 0 /\ (pc[t] \in Reading => seen[t] = seq'[Mine(t)]))
  BY <1>2, Zenon DEF Undisturbed, Mine
<1>3. pc[t] # "idle" /\ id[t] \in Ids /\ SlotOf(id[t]) \in Slots
  BY IdShape, Zenon DEF Busy, Locating
<1>4. Moved(id[t]) => Moved(id[t])'
  BY <1>2, <1>3, HomeGrows, Zenon DEF Moved
<1>5. CASE id[t] \in live
  <2>1. \A p \in Owners : id[p] # NoId => SlotOf(id[p]) # SlotOf(id[t])
    BY <1>5, LiveAtRest, Zenon DEF Mine
  <2>2. seq'[SlotOf(id[t])] = seq[SlotOf(id[t])]
    <3>1. CASE Starts(o)
      BY <3>1, StartFrame, Zenon
    <3>2. CASE Writes(o)
      BY <1>3, <2>1, <3>2, WriteFrame, Zenon
    <3>3. CASE Ends(o)
      BY <1>3, <2>1, <3>3, EndFrame, Zenon
    <3> QED BY <3>1, <3>2, <3>3, OwnerCases, Zenon
  <2> QED BY <1>4, <1>5, <2>2, Zenon DEF Undisturbed, Mine
<1>6. CASE id[t] \notin live
  <2>1. CASE Starts(o)
    BY <1>6, <2>1, StartFrame, Zenon
  <2>2. CASE Writes(o)
    BY <1>6, <2>2, WriteFrame, Zenon
  <2>3. CASE Ends(o)
    <3>1. pc[o] \in Publishing /\ id[t] = id[o]
      BY <1>6, <2>3, EndFrame DEF Publishing
    <3> QED BY <1>3, <1>4, <3>1, Zenon DEF Handed
  <2> QED BY <2>1, <2>2, <2>3, OwnerCases, Zenon
<1> QED BY <1>5, <1>6, Zenon

\* What the steps of a client leave it with: a new identity, none, or its own.
LEMMA ClientCases ==
    ASSUME IInv, NEW t \in Clients, ClientStep(t)
    PROVE  \/ Begin(t)
           \/ pc'[t] = "idle" /\ tries'[t] = 0
           \/ pc[t] # "idle" /\ pc'[t] # "idle" /\ id'[t] = id[t]
<1> USE DEF IInv, TypeOK, Threads, Goto, At, locals
<1>1. CASE Done(t)
  BY <1>1, Zenon DEF Done
<1>2. CASE Retry(t)
  BY <1>2, Zenon DEF ClientStep, Begin, LoadSequence, LoadId, LoadOwner, LoadIndex, LoadAgain, Use, CheckId,
              PublishOperations, TakeOperations, Retry
<1>3. CASE ~Done(t) /\ ~Retry(t)
  <2>1. CASE LoadSequence(t) \/ LoadId(t) \/ CheckId(t)
    BY <1>3, <2>1, Zenon DEF LoadSequence, LoadId, CheckId
  <2>2. CASE LoadOwner(t) \/ LoadIndex(t) \/ LoadAgain(t)
    BY <1>3, <2>2, Zenon DEF LoadOwner, LoadIndex, LoadAgain
  <2>3. CASE Use(t) \/ PublishOperations(t) \/ TakeOperations(t)
    BY <1>3, <2>3, Zenon DEF Use, PublishOperations, TakeOperations
  <2> QED BY <2>1, <2>2, <2>3, Zenon DEF ClientStep
<1> QED BY <1>1, <1>2, <1>3, Zenon

\* A client starts with an identity that was handed out, and keeps it.
LEMMA HandedClient ==
    ASSUME IInv, Named, NEW u \in Clients, ClientStep(u), NEW t \in Clients, Handed(t)
    PROVE  Handed(t)'
<1> USE DEF IInv
<1>1. UNCHANGED <<generation, home>>
  BY ClientFrame, Zenon
<1>2. \A o \in Owners : id'[o] = id[o] /\ pc'[o] = pc[o]
  BY ClientFrame, DirectoryAssumption DEF Threads
<1>3. ASSUME pc'[t] # "idle", pc[t] # "idle", id'[t] = id[t] PROVE Handed(t)'
  <2>1. Moved(id[t]) => Moved(id[t])'
    BY <1>1, <1>3, Zenon DEF Moved
  <2>2. GenOf(id'[t]) <= generation'[SlotOf(id'[t])]
    BY <1>1, <1>3, Zenon DEF Handed, Mine
  <2>3. ASSUME NEW o \in Owners, id'[o] = id'[t], pc'[o] \in Publishing PROVE Moved(id[t])'
    BY <1>2, <1>3, <2>1, <2>3, Zenon DEF Handed
  <2> QED BY <1>3, <2>2, <2>3, Zenon DEF Handed, Mine
<1>4. CASE u # t
  <2>1. pc'[t] = pc[t] /\ id'[t] = id[t] /\ tries'[t] = tries[t]
    BY <1>4, ClientFrame, Zenon DEF Threads
  <2>2. CASE pc[t] = "idle"
    BY <2>1, <2>2, Zenon DEF Handed
  <2> QED BY <1>3, <2>1, <2>2, Zenon
<1>5. CASE u = t /\ Begin(t)
  <2>1. PICK i \in Ids : /\ i \in live \/ GenOf(i) < generation[SlotOf(i)]
                         /\ id' = [id EXCEPT ![t] = i]
    BY <1>5, Zenon DEF Begin
  <2>2. id'[t] = i /\ pc'[t] # "idle"
    BY <1>5, <2>1, Zenon DEF Begin, TypeOK, Threads, Goto
  <2>3. SlotOf(i) \in Slots /\ GenOf(i) \in Nat /\ generation[SlotOf(i)] \in Nat
    <3>1. SlotOf(i) \in Slots /\ GenOf(i) \in Nat
      BY IdShape, DirectoryAssumption
    <3> QED BY <3>1, CounterNat, Zenon DEF TypeOK
  <2>4. GenOf(i) <= generation[SlotOf(i)]
    BY <2>1, <2>3, LiveAtRest
  <2>5. ASSUME NEW o \in Owners, id[o] = i PROVE FALSE
    <3>1. id[o] # NoId
      BY <2>5, IdShape, Zenon
    <3>2. GenOf(id[o]) = generation[SlotOf(id[o])]
      BY <3>1, Zenon DEF Exclusive, Mine
    <3>3. i \in live
      BY <2>1, <2>3, <2>5, <3>2
    <3> QED BY <2>5, <3>1, <3>3, LiveAtRest, Zenon DEF Mine
  <2> QED BY <1>1, <1>2, <2>2, <2>4, <2>5, Zenon DEF Handed, Mine
<1>6. CASE u = t /\ pc'[t] = "idle" /\ tries'[t] = 0
  BY <1>6, Zenon DEF Handed
<1> QED BY <1>3, <1>4, <1>5, <1>6, ClientCases, Zenon

\* A lookup of a live, unmoved identity sees an even sequence, and sees it again.
LEMMA UndisturbedClient ==
    ASSUME IInv, Named, NEW u \in Clients, ClientStep(u), NEW t \in Clients, Handed(t), Undisturbed(t)
    PROVE  Undisturbed(t)'
<1> USE DEF IInv, Mine
<1>1. UNCHANGED <<seq, live, home>>
  BY ClientFrame, Zenon
<1>2. ASSUME id'[t] = id[t], tries'[t] = tries[t], seen'[t] = seen[t], pc[t] \in Locating,
             pc'[t] \in Reading => pc[t] \in Reading
      PROVE  Undisturbed(t)'
  BY <1>1, <1>2, Zenon DEF Undisturbed, Moved
<1>3. ASSUME pc'[t] \notin Locating PROVE Undisturbed(t)'
  BY <1>3, Zenon DEF Undisturbed
<1>4. CASE u # t
  <2>1. pc'[t] = pc[t] /\ id'[t] = id[t] /\ tries'[t] = tries[t] /\ seen'[t] = seen[t]
    BY <1>4, ClientFrame, Zenon DEF Threads
  <2> QED BY <1>2, <1>3, <2>1, Zenon
<1>5. CASE u = t
  <2> USE DEF TypeOK, Threads, Goto, At, locals, Locating, Reading
  <2>1. CASE Begin(t)
    <3>1. tries'[t] = 0 /\ pc'[t] \notin Reading
      BY <2>1, Zenon DEF Begin, Handed
    <3> QED BY <3>1, Zenon DEF Undisturbed
  <2>2. CASE Done(t)
    BY <1>3, <2>2, Zenon DEF Done
  <2>3. CASE (LoadSequence(t) \/ LoadAgain(t)) /\ Retry(t)
    <3>1. pc[t] \in Locating /\ id'[t] = id[t] /\ pc'[t] = "locate"
      BY <2>3, Zenon DEF LoadSequence, LoadAgain, Retry
    <3>2. CASE id[t] \in live
      <4>1. Even(seq[SlotOf(id[t])])
        BY <3>2, LiveAtRest, Zenon
      <4>2. LoadAgain(t) /\ seq[SlotOf(id[t])] # seen[t]
        BY <2>3, <4>1 DEF LoadSequence, LoadAgain, Retry, Even, Done
      <4>3. Moved(id[t])
        BY <3>2, <4>2, Zenon DEF Undisturbed, LoadAgain
      <4> QED BY <1>1, <3>1, <4>3, Zenon DEF Undisturbed, Moved
    <3>3. CASE id[t] \notin live
      BY <1>1, <3>1, <3>3, Zenon DEF Undisturbed
    <3> QED BY <3>2, <3>3, Zenon
  <2>4. CASE LoadSequence(t) /\ ~Done(t) /\ ~Retry(t)
    <3>1. /\ pc[t] = "locate" /\ id'[t] = id[t] /\ tries'[t] = tries[t]
          /\ seen'[t] = seq[SlotOf(id[t])]
      BY <2>4, Zenon DEF LoadSequence
    <3> QED BY <1>1, <3>1, Zenon DEF Undisturbed, Moved
  <2>5. CASE LoadId(t) \/ LoadOwner(t) \/ LoadIndex(t)
    <3>1. CASE LoadId(t) /\ ~Done(t)
      BY <1>2, <3>1, Zenon DEF LoadId
    <3>2. CASE LoadOwner(t) \/ LoadIndex(t)
      BY <1>2, <3>2, Zenon DEF LoadOwner, LoadIndex
    <3> QED BY <2>2, <2>5, <3>1, <3>2, Zenon
  <2>6. CASE LoadAgain(t) /\ ~Retry(t)
    BY <1>3, <2>6, Zenon DEF LoadAgain
  <2>7. CASE Use(t) \/ CheckId(t) \/ PublishOperations(t) \/ TakeOperations(t)
    <3>1. Done(t) \/ pc'[t] \in {"post_rmw", "take_rmw"}
      BY <2>7, Zenon DEF Use, CheckId, PublishOperations, TakeOperations
    <3> QED BY <1>3, <2>2, <3>1, Zenon
  <2> QED BY <1>5, <2>1, <2>2, <2>3, <2>4, <2>5, <2>6, <2>7, Zenon DEF ClientStep
<1> QED BY <1>4, <1>5, Zenon

\* Steady holds of every reachable state.
LEMMA AlwaysSteady == Spec => []Steady
<1>1. Init => Steady
  BY Zenon DEF Init, Steady, Named, Handed, Undisturbed, Locating, Threads
<1>2. IInv /\ Steady /\ [Next]_vars => Steady'
  <2> SUFFICES ASSUME IInv, Steady, [Next]_vars PROVE Steady'
    BY Zenon
  <2>0. Named /\ \A t \in Clients : Handed(t) /\ Undisturbed(t)
    BY Zenon DEF Steady
  <2>1. ASSUME NEW o \in Owners, OwnerStep(o) PROVE Steady'
    <3>1. Named'
      BY <2>0, <2>1, NamedOwner, Zenon
    <3>2. \A t \in Clients : Handed(t)'
      BY <2>0, <2>1, HandedOwner, Zenon
    <3>3. \A t \in Clients : Undisturbed(t)'
      BY <2>0, <2>1, UndisturbedOwner, Zenon
    <3> QED BY <3>1, <3>2, <3>3, Zenon DEF Steady
  <2>2. ASSUME NEW u \in Clients, ClientStep(u) PROVE Steady'
    <3>1. Named'
      BY <2>0, <2>2, ClientFrame, Zenon DEF IInv, Named
    <3>2. \A t \in Clients : Handed(t)'
      BY <2>0, <2>2, HandedClient, Zenon
    <3>3. \A t \in Clients : Undisturbed(t)'
      BY <2>0, <2>2, UndisturbedClient, Zenon
    <3> QED BY <3>1, <3>2, <3>3, Zenon DEF Steady
  <2>3. CASE UNCHANGED vars
    BY <2>3, Zenon DEF vars, entry, operations, slots, ghosts, locals, Steady, Named, Handed, Undisturbed,
         Moved, Mine
  <2> QED BY <2>1, <2>2, <2>3, Zenon DEF Next
<1> QED BY Inductive, <1>1, <1>2, PTL DEF Spec

\* TaskDirectory::locate, publish_operations and take_operations never fail for a
\* live task that stays where it is, however many writers and readers contend.
THEOREM LiveTasksFound == Spec => LiveNeverStale
<1> DEFINE Kept == \A t \in Clients :
                     (pc[t] \in Locating \cup {"post", "take"} /\ pc'[t] = "idle") =>
                        (id[t] \in live => \E p, q \in home[id[t]] : p # q)
<1>1. IInv /\ Steady /\ [Next]_vars => [Kept]_vars
  <2> SUFFICES ASSUME IInv, Steady, Next, NEW t \in Clients, pc[t] \in Locating \cup {"post", "take"},
                      pc'[t] = "idle", id[t] \in live
               PROVE  Moved(id[t])
    BY Zenon DEF Moved
  <2>1. pc[t] # "idle"
    BY Zenon DEF Locating
  <2>2. ASSUME NEW o \in Owners, OwnerStep(o) PROVE FALSE
    <3>1. t \in Threads \ {o}
      BY DirectoryAssumption, Zenon DEF Threads
    <3> QED BY <2>1, <2>2, <3>1, OwnerFrame, Zenon DEF IInv
  <2>3. ASSUME NEW u \in Clients, ClientStep(u) PROVE Moved(id[t])
    <3>1. u = t
      BY <2>1, <2>3, ClientFrame, Zenon DEF IInv, Threads
    <3>2. gen[SlotOf(id[t])] = GenOf(id[t])
      BY Zenon DEF Steady, Named
    <3> USE DEF IInv, TypeOK, Threads, Goto, At
    <3>3. LoadSequence(t)
      BY <2>1, <2>3, <3>1, <3>2, Zenon DEF ClientStep, Begin, LoadId, LoadOwner, LoadIndex, LoadAgain, Use, CheckId,
           PublishOperations, TakeOperations, Retry, Mine, Locating
    <3>4. tries[t] = Tries /\ pc[t] \in Locating
      BY <3>3, Zenon DEF LoadSequence, Retry, Locating
    <3> QED BY <3>4, DirectoryAssumption, Zenon DEF Steady, Undisturbed
  <2> QED BY <2>2, <2>3, Zenon DEF Next
<1> QED BY Inductive, AlwaysSteady, <1>1, PTL DEF Spec, LiveNeverStale
=============================================================================
