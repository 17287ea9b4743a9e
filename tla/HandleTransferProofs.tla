------------------------ MODULE HandleTransferProofs ------------------------
(***************************************************************************)
(* Reference accounts are exact for any number of threads, processes,      *)
(* slots, messages and objects; hence nothing is collected while it is     *)
(* referred to, and nothing unreferenced stays registered.                 *)
(***************************************************************************)
EXTENDS HandleTransfer, FiniteSetTheorems, TLAPS

\* Where a thread has a handle in its hand, a kernel reference, a message.
Holding == {"insert", "close", "close_lost"}
Referring == {"record", "unref"}
Owning == {"remove", "send", "enqueue", "restore", "close_lost", "deliver", "add", "drop"}

ThreadOK(t) ==
    /\ pc[t] \in {"open", "acquire"} => koid[t] \in Koids
    /\ IF pc[t] \in Holding THEN held[Hand(t)] \in Koids ELSE held[Hand(t)] = NoKoid
    /\ IF pc[t] \in Referring THEN kref[t] \in Koids ELSE kref[t] = NoKoid
    /\ pc[t] \in Owning => msg[t] \in Messages

\* What refers to an object at all refers to one that has been created.
Born(k) == k \in Koids => state[k] # "unborn"
AllBorn ==
    /\ \A x \in Places : Born(held[x])
    /\ \A x \in KernelPlaces : Born(kref[x])
    /\ \A t \in Threads : Born(koid[t])
    /\ \A k \in Koids : state[k] = "unborn" => handles[k] = 0 /\ kernel[k] = 0

Counts == CountsExact /\ MappedStaysLive /\ NoLeak /\ AllBorn

Ind == TypeOK /\ Counts /\ \A t \in Threads : ThreadOK(t)

-----------------------------------------------------------------------------
(* Counting the places of a finite set that hold k *)

Count(f, D, k) == Cardinality({z \in D : f[z] = k})

\* A count is zero exactly when nobody holds the koid.
LEMMA CountZero ==
    ASSUME NEW D, IsFiniteSet(D), NEW f, NEW k
    PROVE  /\ Count(f, D, k) \in Nat
           /\ Count(f, D, k) = 0 <=> \A z \in D : f[z] # k
<1> DEFINE S == {z \in D : f[z] = k}
<1>1. IsFiniteSet(S)
  BY FS_Subset, Zenon
<1>2. Cardinality(S) \in Nat /\ (Cardinality(S) = 0 <=> S = {})
  BY <1>1, FS_CardinalityType, FS_EmptySet, Zenon
<1> QED BY <1>2, Zenon DEF Count

\* g is f without the contents of x.
Emptied(f, g, D, x) == g[x] = NoKoid /\ \A z \in D \ {x} : g[z] = f[z]

\* ... and with k in x, which was empty.
Filled(f, g, D, x, k) == f[x] = NoKoid /\ g[x] = k /\ \A z \in D \ {x} : g[z] = f[z]

\* Emptying x takes one away from the count of what it held, filling it adds one.
LEMMA CountEmptied ==
    ASSUME NEW D, IsFiniteSet(D), NEW f, NEW g, NEW x \in D, NEW k, k # NoKoid,
           Emptied(f, g, D, x)
    PROVE  Count(g, D, k) = IF f[x] = k THEN Count(f, D, k) - 1 ELSE Count(f, D, k)
<1> DEFINE S == {z \in D : f[z] = k}
           T == {z \in D : g[z] = k}
<1>1. IsFiniteSet(S)
  BY FS_Subset, Zenon
<1>2. CASE f[x] = k
  <2>1. T = S \ {x} /\ x \in S
    BY <1>2 DEF Emptied
  <2> QED BY <1>1, <1>2, <2>1, FS_RemoveElement, Zenon DEF Count
<1>3. CASE f[x] # k
  <2>1. T = S
    BY <1>3, Zenon DEF Emptied
  <2> QED BY <1>3, <2>1, Zenon DEF Count
<1> QED BY <1>2, <1>3, Zenon

\* Filling one empty place adds one to the count of what was put there.
LEMMA CountFilled ==
    ASSUME NEW D, IsFiniteSet(D), NEW f, NEW g, NEW x \in D, NEW j, NEW k, k # NoKoid,
           Filled(f, g, D, x, j)
    PROVE  Count(g, D, k) = IF j = k THEN Count(f, D, k) + 1 ELSE Count(f, D, k)
<1> DEFINE S == {z \in D : f[z] = k}
           T == {z \in D : g[z] = k}
<1>1. IsFiniteSet(S)
  BY FS_Subset, Zenon
<1>2. CASE j = k
  <2>1. T = S \cup {x} /\ x \notin S
    BY <1>2 DEF Filled
  <2> QED BY <1>1, <1>2, <2>1, FS_AddElement, Zenon DEF Count
<1>3. CASE j # k
  <2>1. T = S
    BY <1>3, Zenon DEF Filled
  <2> QED BY <1>3, <2>1, Zenon DEF Count
<1> QED BY <1>2, <1>3, Zenon

\* Moving a koid from one place to an empty one changes no count.
LEMMA CountMove ==
    ASSUME NEW D, IsFiniteSet(D), NEW f, NEW g, NEW x \in D, NEW y \in D, NEW k,
           x # y, g[x] = f[y], g[y] = f[x], \A z \in D \ {x, y} : g[z] = f[z]
    PROVE  Count(g, D, k) = Count(f, D, k)
<1> DEFINE S == {z \in D : f[z] = k}
           T == {z \in D : g[z] = k}
<1>1. IsFiniteSet(S)
  BY FS_Subset, Zenon
<1>2. CASE f[x] = k /\ f[y] # k
  <2>1. T = (S \ {x}) \cup {y} /\ x \in S /\ y \notin S
    BY <1>2, Zenon
  <2>2. IsFiniteSet(S \ {x}) /\ Cardinality(S \ {x}) = Cardinality(S) - 1
    BY <1>1, <2>1, FS_RemoveElement, Zenon
  <2>3. Cardinality(T) = Cardinality(S \ {x}) + 1
    BY <2>1, <2>2, FS_AddElement, Zenon
  <2> QED BY <1>1, <2>2, <2>3, FS_CardinalityType DEF Count
<1>3. CASE f[y] = k /\ f[x] # k
  <2>1. T = (S \ {y}) \cup {x} /\ y \in S /\ x \notin S
    BY <1>3, Zenon
  <2>2. IsFiniteSet(S \ {y}) /\ Cardinality(S \ {y}) = Cardinality(S) - 1
    BY <1>1, <2>1, FS_RemoveElement, Zenon
  <2>3. Cardinality(T) = Cardinality(S \ {y}) + 1
    BY <2>1, <2>2, FS_AddElement, Zenon
  <2> QED BY <1>1, <2>2, <2>3, FS_CardinalityType DEF Count
<1>4. CASE (f[x] = k) <=> (f[y] = k)
  <2>1. T = S
    BY <1>4, Zenon
  <2> QED BY <2>1, Zenon DEF Count
<1> QED BY <1>2, <1>3, <1>4, Zenon

-----------------------------------------------------------------------------
(* What the operations do to the accounts *)

\* There are finitely many places.
LEMMA PlacesFinite == IsFiniteSet(Places) /\ IsFiniteSet(KernelPlaces)
<1>1. IsFiniteSet(Parts) /\ IsFiniteSet({0})
  <2>1. 1 \in Int /\ Batch \in Int
    BY BoundsAssumption
  <2>2. IsFiniteSet(1 .. Batch)
    BY <2>1, FS_Interval, Zenon
  <2> QED BY <2>2, FS_Singleton, Zenon DEF Parts
<1>2. /\ IsFiniteSet(Procs \X Slots) /\ IsFiniteSet(Messages \X Parts)
      /\ IsFiniteSet(Threads \X {0})
  BY <1>1, FiniteAssumption, FS_Product, Zenon
<1>3. IsFiniteSet((Procs \X Slots) \cup (Messages \X Parts))
  BY <1>2, FS_Union, Zenon
<1>4. IsFiniteSet(Places)
  BY <1>2, <1>3, FS_Union, Zenon DEF Places
<1> QED BY <1>4, FiniteAssumption, FS_Union, Zenon DEF KernelPlaces

\* The accounts in terms of counts.
LEMMA CountsDef ==
    /\ CountsExact <=> \A k \in Koids : state[k] = "live" =>
           handles[k] = Count(held, Places, k) /\ kernel[k] = Count(kref, KernelPlaces, k)
    /\ CountsExact' <=> \A k \in Koids : state'[k] = "live" =>
           handles'[k] = Count(held', Places, k) /\ kernel'[k] = Count(kref', KernelPlaces, k)
  BY Zenon DEF CountsExact, Holders, KernelHolders, Count

\* The creator of an object stays where it is.
CreatorsStay == \A t \in Threads : At(t, "open") => pc'[t] = "open" /\ koid'[t] = koid[t]
\* A copied koid was in a slot.
KoidsCopied == \A t \in Threads : \/ koid'[t] \in {koid[t], NoKoid}
                                   \/ \E x \in Places : koid'[t] = held[x]

\* g is f with the contents of an empty place and another place exchanged.
Moved(f, g, D) ==
    \E x, y \in D : /\ x # y /\ f[y] = NoKoid
                     /\ g[x] = NoKoid /\ g[y] = f[x] /\ \A z \in D \ {x, y} : g[z] = f[z]

\* Moving references around changes no account.
LEMMA MoveCounts ==
    ASSUME Counts, TypeOK, UNCHANGED registry, CreatorsStay, KoidsCopied,
           held' = held \/ Moved(held, held', Places),
           kref' = kref \/ Moved(kref, kref', KernelPlaces)
    PROVE  Counts'
<1> USE PlacesFinite DEF registry
<1>1. \A k \in Koids : Count(held', Places, k) = Count(held, Places, k)
  BY CountMove DEF Moved
<1>2. \A k \in Koids : Count(kref', KernelPlaces, k) = Count(kref, KernelPlaces, k)
  BY CountMove DEF Moved
<1>3. CountsExact'
  BY <1>1, <1>2, CountsDef, Zenon DEF Counts
<1>4. MappedStaysLive'
  BY DEF Counts, MappedStaysLive, Moved
<1>5. NoLeak'
  BY DEF Counts, NoLeak, CreatorsStay, At
<1>6. AllBorn'
  <2>1. NoKoid \notin Koids
    BY DistinctAssumption, Zenon
  <2>2. \A x \in Places : Born(held[x]) /\ (held'[x] = NoKoid \/ \E y \in Places : held'[x] = held[y])
    BY Zenon DEF Counts, AllBorn, Moved
  <2>3. \A x \in KernelPlaces : Born(kref[x]) /\ (kref'[x] = NoKoid \/ \E y \in KernelPlaces : kref'[x] = kref[y])
    BY Zenon DEF Counts, AllBorn, Moved
  <2> QED BY <2>1, <2>2, <2>3 DEF Counts, AllBorn, Born, KoidsCopied
<1> QED BY <1>3, <1>4, <1>5, <1>6, Zenon DEF Counts

\* Closing the handle in place x: exactly one reference goes, and the object is
\* collected exactly when it was the last one.
LEMMA CloseCounts ==
    ASSUME Counts, TypeOK, NEW x \in Places, held[x] \in Koids,
           NoteHandleClose(held[x]), Emptied(held, held', Places, x),
           UNCHANGED <<kref, koid>>, CreatorsStay
    PROVE  /\ Counts'
           /\ \A k \in Koids : (state[k] = "live" /\ state'[k] = "gone") =>
                  \A y \in Places : held'[y] # k
<1> USE PlacesFinite
<1> DEFINE k == held[x]
<1>1. NoKoid \notin Koids /\ held \in [Places -> Koids \cup {NoKoid}]
  BY DistinctAssumption, Zenon DEF TypeOK
<1>2. \A j \in Koids : Count(held', Places, j) =
                         IF j = k THEN Count(held, Places, j) - 1 ELSE Count(held, Places, j)
  BY <1>1, CountEmptied
<1>3. /\ state \in [Koids -> {"unborn", "live", "gone"}]
      /\ handles \in [Koids -> Nat] /\ kernel \in [Koids -> Nat]
  BY Zenon DEF TypeOK
<1>4. \A j \in Koids : /\ Count(held', Places, j) \in Nat
                       /\ Count(held', Places, j) = 0 <=> \A y \in Places : held'[y] # j
                       /\ Count(held, Places, j) \in Nat
  BY CountZero, Zenon
<1>5. \A j \in Koids : /\ Count(kref, KernelPlaces, j) \in Nat
                       /\ Count(kref, KernelPlaces, j) = 0 <=> \A y \in KernelPlaces : kref[y] # j
  BY CountZero, Zenon
<1>6. CASE state[k] # "live"
  <2>1. UNCHANGED registry
    BY <1>6, Zenon DEF NoteHandleClose
  <2>2. CountsExact'
    BY <1>2, <1>6, <2>1, CountsDef, Zenon DEF Counts, registry
  <2>3. MappedStaysLive' /\ NoLeak'
    BY <2>1, Zenon DEF Counts, MappedStaysLive, NoLeak, CreatorsStay, At, registry
  <2>4. AllBorn'
    BY <1>1, <2>1 DEF Emptied, Counts, AllBorn, Born, registry
  <2>5. Counts'
    BY <2>2, <2>3, <2>4, Zenon DEF Counts
  <2> QED BY <2>1, <2>5, Zenon DEF registry
<1>7. CASE state[k] = "live"
  <2>1. handles[k] = Count(held, Places, k) /\ kernel[k] = Count(kref, KernelPlaces, k)
    BY <1>7, CountsDef, Zenon DEF Counts
  <2>2. Less(handles[k]) = handles[k] - 1 /\ Less(handles[k]) = Count(held', Places, k)
    BY <1>2, <1>4, <2>1 DEF Less
  <2>3. /\ handles' = [handles EXCEPT ![k] = Count(held', Places, k)]
        /\ kernel' = [kernel EXCEPT ![k] = kernel[k]]
        /\ state' = IF Count(held', Places, k) = 0 /\ kernel[k] = 0
                    THEN [state EXCEPT ![k] = "gone"] ELSE state
    BY <1>7, <2>2, Zenon DEF NoteHandleClose, SetAccount
  <2>4. CountsExact'
    BY <1>2, <1>3, <2>1, <2>3, CountsDef, Zenon DEF Counts
  <2>5. MappedStaysLive'
    BY <1>3, <1>5, <2>1, <2>3 DEF Counts, MappedStaysLive, TypeOK
  <2>6. NoLeak'
    BY <1>3, <2>3 DEF Counts, NoLeak, CreatorsStay, At
  <2>7. AllBorn'
    BY <1>1, <1>3, <1>7, <2>3 DEF Emptied, Counts, AllBorn, Born
  <2>8. Counts'
    BY <2>4, <2>5, <2>6, <2>7, Zenon DEF Counts
  <2>9. ASSUME NEW j \in Koids, state[j] = "live", state'[j] = "gone"
        PROVE  Count(held', Places, j) = 0
    BY <1>3, <2>3, <2>9, Zenon
  <2>10. \A j \in Koids : (state[j] = "live" /\ state'[j] = "gone") =>
                               \A y \in Places : held'[y] # j
    BY <1>4, <2>9, Zenon
  <2> QED BY <2>8, <2>10, Zenon
<1> QED BY <1>6, <1>7, Zenon

\* Giving up the kernel reference in place x, likewise.
LEMMA UnrefCounts ==
    ASSUME Counts, TypeOK, NEW x \in KernelPlaces, kref[x] \in Koids,
           NoteKernelRefClose(kref[x]), Emptied(kref, kref', KernelPlaces, x),
           UNCHANGED <<held, koid>>, CreatorsStay
    PROVE  /\ Counts'
           /\ \A k \in Koids : (state[k] = "live" /\ state'[k] = "gone") =>
                  \A y \in Places : held'[y] # k
<1> USE PlacesFinite
<1> DEFINE k == kref[x]
<1>1. /\ NoKoid \notin Koids /\ state[k] = "live"
      /\ kref \in [KernelPlaces -> Koids \cup {NoKoid}]
  BY DistinctAssumption, Zenon DEF TypeOK, Counts, MappedStaysLive
<1>2. \A j \in Koids : Count(kref', KernelPlaces, j) =
                IF j = k THEN Count(kref, KernelPlaces, j) - 1 ELSE Count(kref, KernelPlaces, j)
  BY <1>1, CountEmptied
<1>3. /\ state \in [Koids -> {"unborn", "live", "gone"}]
      /\ handles \in [Koids -> Nat] /\ kernel \in [Koids -> Nat]
  BY Zenon DEF TypeOK
<1>4. \A j \in Koids : Count(held, Places, j) = 0 <=> \A y \in Places : held[y] # j
  BY CountZero, Zenon
<1>5. \A j \in Koids : /\ Count(kref', KernelPlaces, j) \in Nat
                       /\ Count(kref', KernelPlaces, j) = 0 <=> \A y \in KernelPlaces : kref'[y] # j
                       /\ Count(kref, KernelPlaces, j) \in Nat
  BY CountZero, Zenon
<1>6. handles[k] = Count(held, Places, k) /\ kernel[k] = Count(kref, KernelPlaces, k)
  BY <1>1, CountsDef, Zenon DEF Counts
<1>7. Less(kernel[k]) = Count(kref', KernelPlaces, k)
  BY <1>2, <1>5, <1>6 DEF Less
<1>8. /\ kernel' = [kernel EXCEPT ![k] = Count(kref', KernelPlaces, k)]
      /\ handles' = [handles EXCEPT ![k] = handles[k]]
      /\ state' = IF handles[k] = 0 /\ Count(kref', KernelPlaces, k) = 0
                  THEN [state EXCEPT ![k] = "gone"] ELSE state
  BY <1>1, <1>7, Zenon DEF NoteKernelRefClose, SetAccount
<1>9. CountsExact'
  BY <1>2, <1>3, <1>6, <1>8, CountsDef, Zenon DEF Counts
<1>10. MappedStaysLive'
  <2> SUFFICES ASSUME NEW y \in KernelPlaces, kref'[y] # NoKoid
               PROVE  state'[kref'[y]] = "live"
    BY Zenon DEF MappedStaysLive
  <2>1. kref'[y] = kref[y] /\ kref[y] \in Koids /\ state[kref[y]] = "live"
    BY <1>1, Zenon DEF Emptied, Counts, MappedStaysLive
  <2>2. kref[y] = k => Count(kref', KernelPlaces, k) # 0
    BY <1>5, <2>1, Zenon
  <2> QED BY <1>3, <1>8, <2>1, <2>2, Zenon
<1>11. NoLeak'
  BY <1>3, <1>8 DEF Counts, NoLeak, CreatorsStay, At
<1>12. AllBorn'
  BY <1>1, <1>3, <1>8 DEF Emptied, Counts, AllBorn, Born
<1>13. Counts'
  BY <1>9, <1>10, <1>11, <1>12, Zenon DEF Counts
<1>14. ASSUME NEW j \in Koids, state[j] = "live", state'[j] = "gone"
       PROVE  Count(held, Places, j) = 0
  BY <1>3, <1>6, <1>8, <1>14, Zenon
<1> QED BY <1>4, <1>13, <1>14, Zenon

\* Counting a new handle: exact if the object is still in the registry, and
\* nothing to be exact about if it is not.
LEMMA OpenCounts ==
    ASSUME Counts, TypeOK, NEW t \in Threads, pc[t] = "open", koid[t] \in Koids,
           NoteHandleOpen(koid[t]), Filled(held, held', Places, Hand(t), koid[t]),
           Hand(t) \in Places, UNCHANGED kref,
           koid'[t] = NoKoid, \A u \in Threads \ {t} : koid'[u] = koid[u] /\ pc'[u] = pc[u]
    PROVE  Counts' /\ UNCHANGED state
<1> USE PlacesFinite
<1> DEFINE k == koid[t]
<1>1. NoKoid \notin Koids
  BY DistinctAssumption, Zenon
<1>2. \A j \in Koids : Count(held', Places, j) =
                         IF j = k THEN Count(held, Places, j) + 1 ELSE Count(held, Places, j)
  BY <1>1, CountFilled
<1>3. /\ state \in [Koids -> {"unborn", "live", "gone"}]
      /\ handles \in [Koids -> Nat] /\ kernel \in [Koids -> Nat]
  BY Zenon DEF TypeOK
<1>4. /\ UNCHANGED <<state, kernel>>
      /\ handles' = IF state[k] = "live" THEN [handles EXCEPT ![k] = @ + 1] ELSE handles
  BY Zenon DEF NoteHandleOpen
<1>5. CountsExact'
  BY <1>2, <1>3, <1>4, CountsDef, Zenon DEF Counts
<1>6. MappedStaysLive'
  BY <1>4, Zenon DEF Counts, MappedStaysLive
<1>7. NoLeak'
  <2> SUFFICES ASSUME NEW j \in Koids, state'[j] = "live", handles'[j] = 0, kernel'[j] = 0
               PROVE  \E u \in Threads : pc'[u] = "open" /\ koid'[u] = j
    BY Zenon DEF NoLeak, At
  <2>1. j # k /\ handles[j] = 0 /\ state[j] = "live" /\ kernel[j] = 0
    BY <1>3, <1>4
  <2>2. PICK u \in Threads : pc[u] = "open" /\ koid[u] = j
    BY <2>1, Zenon DEF Counts, NoLeak, At
  <2>3. u # t
    BY <2>1, <2>2, Zenon
  <2> QED BY <2>2, <2>3, Zenon
<1>8. state[k] # "unborn"
  BY Zenon DEF Counts, AllBorn, Born
<1>9. AllBorn'
  BY <1>1, <1>3, <1>4, <1>8 DEF Filled, Counts, AllBorn, Born
<1> QED BY <1>4, <1>5, <1>6, <1>7, <1>9, Zenon DEF Counts

\* A new object starts with an empty account, and nobody refers to it yet.
LEMMA CreateCounts ==
    ASSUME Counts, TypeOK, NEW t \in Threads, NEW k \in Koids,
           state[k] = "unborn", state' = [state EXCEPT ![k] = "live"],
           UNCHANGED <<handles, kernel, held, kref>>, pc[t] # "open", pc'[t] = "open", koid'[t] = k,
           \A u \in Threads \ {t} : koid'[u] = koid[u] /\ pc'[u] = pc[u]
    PROVE  Counts'
<1> USE PlacesFinite
<1>1. state \in [Koids -> {"unborn", "live", "gone"}]
  BY Zenon DEF TypeOK
<1>2. \A x \in Places : held[x] # k
  BY Zenon DEF Counts, AllBorn, Born
<1>3. \A x \in KernelPlaces : kref[x] # k
  BY Zenon DEF Counts, AllBorn, Born
<1>4. handles[k] = 0 /\ kernel[k] = 0
  BY Zenon DEF Counts, AllBorn
<1>5. Count(held, Places, k) = 0 /\ Count(kref, KernelPlaces, k) = 0
  BY <1>2, <1>3, CountZero
<1>6. CountsExact'
  BY <1>1, <1>4, <1>5, CountsDef, Zenon DEF Counts
<1>7. MappedStaysLive'
  BY <1>1, <1>3 DEF Counts, MappedStaysLive
<1>8. NoLeak'
  BY <1>1 DEF Counts, NoLeak, At
<1>9. AllBorn'
  BY <1>1 DEF Counts, AllBorn, Born
<1> QED BY <1>6, <1>7, <1>8, <1>9, Zenon DEF Counts

\* Acquiring a kernel reference to a live object.
LEMMA AcquireCounts ==
    ASSUME Counts, TypeOK, NEW t \in Threads, NEW k \in Koids, state[k] = "live",
           kernel' = [kernel EXCEPT ![k] = @ + 1], UNCHANGED <<state, handles, held>>,
           t \in KernelPlaces, Filled(kref, kref', KernelPlaces, t, k),
           CreatorsStay, KoidsCopied
    PROVE  Counts'
<1> USE PlacesFinite
<1>1. NoKoid \notin Koids
  BY DistinctAssumption, Zenon
<1>2. \A j \in Koids : Count(kref', KernelPlaces, j) =
                IF j = k THEN Count(kref, KernelPlaces, j) + 1 ELSE Count(kref, KernelPlaces, j)
  BY <1>1, CountFilled
<1>3. handles \in [Koids -> Nat] /\ kernel \in [Koids -> Nat]
  BY Zenon DEF TypeOK
<1>4. CountsExact'
  BY <1>2, <1>3, CountsDef, Zenon DEF Counts
<1>5. MappedStaysLive'
  BY Zenon DEF Filled, Counts, MappedStaysLive
<1>6. NoLeak'
  BY <1>3 DEF Counts, NoLeak, CreatorsStay, At
<1>7. AllBorn'
  BY <1>1, <1>3 DEF Filled, Counts, AllBorn, Born, KoidsCopied
<1> QED BY <1>4, <1>5, <1>6, <1>7, Zenon DEF Counts

-----------------------------------------------------------------------------
(* The invariant is inductive *)

\* The places are places, and pairwise different.
LEMMA PlaceFacts ==
    /\ \A t \in Threads : Hand(t) \in Places /\ t \in KernelPlaces
    /\ \A p \in Procs, v \in Slots : Slot(p, v) \in Places
    /\ \A m \in Messages, i \in Parts : Part(m, i) \in Places
    /\ \A x \in Mappings : x \in KernelPlaces /\ x \notin Threads
    /\ \A t, u \in Threads : t # u => Hand(t) # Hand(u)
    /\ \A t \in Threads, p \in Procs, v \in Slots : Hand(t) # Slot(p, v)
    /\ \A t \in Threads, m \in Messages, i \in Parts : Hand(t) # Part(m, i)
    /\ \A p \in Procs, v \in Slots, m \in Messages, i \in Parts : Slot(p, v) # Part(m, i)
    /\ \A t \in Threads : Own(t) \in Procs
    /\ NoKoid \notin Koids
  BY DistinctAssumption, ProcAssumption, Zenon DEF Hand, Slot, Part, Places, KernelPlaces, Own

\* A step of t touches nothing of another thread.
Frame(t) ==
    \A u \in Threads \ {t} :
        /\ pc'[u] = pc[u] /\ koid'[u] = koid[u] /\ msg'[u] = msg[u]
        /\ held'[Hand(u)] = held[Hand(u)] /\ kref'[u] = kref[u]

\* What is collected in this step is held nowhere after it.
Collects == \A k \in Koids : (state[k] = "live" /\ state'[k] = "gone") =>
                \A x \in Places : held'[x] # k

\* A step that leaves the other threads' registers alone preserves the invariant
\* if it keeps the types, the counts and its own thread in order.
LEMMA FrameInd ==
    ASSUME Ind, NEW t \in Threads, Frame(t), TypeOK', Counts', ThreadOK(t)'
    PROVE  Ind'
<1>1. \A u \in Threads \ {t} : ThreadOK(u)'
  BY Zenon DEF Ind, Frame, ThreadOK, Hand
<1> QED BY <1>1, Zenon DEF Ind

\* A step that only moves references.
LEMMA ShuffleInd ==
    ASSUME Ind, NEW t \in Threads, Frame(t), TypeOK', ThreadOK(t)', UNCHANGED registry,
           pc[t] # "open", koid'[t] \in {koid[t], NoKoid} \/ \E x \in Places : koid'[t] = held[x],
           held' = held \/ Moved(held, held', Places),
           kref' = kref \/ Moved(kref, kref', KernelPlaces)
    PROVE  Ind' /\ Collects
<1>1. CreatorsStay /\ KoidsCopied
  BY Zenon DEF Frame, CreatorsStay, KoidsCopied, At
<1>2. Counts'
  BY <1>1, MoveCounts, Zenon DEF Ind
<1>3. Collects
  BY Zenon DEF Collects, registry
<1> QED BY <1>2, <1>3, FrameInd, Zenon

\* What MoveHandle does, place by place.
LEMMA MoveHandleFacts ==
    ASSUME TypeOK, NEW x \in Places, NEW y \in Places, x # y, held[y] = NoKoid, MoveHandle(x, y)
    PROVE  /\ Moved(held, held', Places)
           /\ held' \in [Places -> Koids \cup {NoKoid}]
           /\ held'[x] = NoKoid /\ held'[y] = held[x]
           /\ \A z \in Places \ {x, y} : held'[z] = held[z]
<1>1. held \in [Places -> Koids \cup {NoKoid}]
  BY Zenon DEF TypeOK
<1>2. /\ held' \in [Places -> Koids \cup {NoKoid}]
      /\ held'[x] = NoKoid /\ held'[y] = held[x]
      /\ \A z \in Places \ {x, y} : held'[z] = held[z]
  BY <1>1, Zenon DEF MoveHandle
<1> QED BY <1>2, Zenon DEF Moved

\* A step that closes the handle in place x.
LEMMA CloseInd ==
    ASSUME Ind, NEW t \in Threads, Frame(t), ThreadOK(t)', NEW x \in Places, held[x] \in Koids,
           NoteHandleClose(held[x]), held' = [held EXCEPT ![x] = NoKoid],
           UNCHANGED <<kref, koid>>, pc[t] # "open",
           TypeOK'
    PROVE  Ind' /\ Collects
<1>1. CreatorsStay
  BY Zenon DEF Frame, CreatorsStay, At
<1>2. Emptied(held, held', Places, x)
  BY Zenon DEF Emptied, Ind, TypeOK
<1>3. TypeOK /\ Counts
  BY Zenon DEF Ind
<1>4. Counts' /\ Collects
  BY <1>1, <1>2, <1>3, CloseCounts, Zenon DEF Collects
<1> QED BY <1>4, FrameInd, Zenon

\* Closing a reference keeps the accounts well typed.
LEMMA RegistryTypes ==
    ASSUME TypeOK, NEW k \in Koids, NoteHandleClose(k) \/ NoteKernelRefClose(k)
    PROVE  /\ state' \in [Koids -> {"unborn", "live", "gone"}]
           /\ handles' \in [Koids -> Nat] /\ kernel' \in [Koids -> Nat]
<1>1. /\ state \in [Koids -> {"unborn", "live", "gone"}]
      /\ handles \in [Koids -> Nat] /\ kernel \in [Koids -> Nat]
  BY Zenon DEF TypeOK
<1>2. Less(handles[k]) \in Nat /\ Less(kernel[k]) \in Nat /\ handles[k] \in Nat /\ kernel[k] \in Nat
  BY <1>1 DEF Less
<1> QED BY <1>1, <1>2, Zenon DEF NoteHandleClose, NoteKernelRefClose, SetAccount, registry

\* The operations on a handle table.
LEMMA TableInd ==
    ASSUME Ind, NEW t \in Threads, Create(t) \/ Get(t) \/ Open(t) \/ Insert(t) \/ Remove(t) \/ Close(t)
    PROVE  Ind' /\ Collects
<1> USE DEF At, Goto
<1>0. TypeOK /\ Counts /\ ThreadOK(t)
  BY Zenon DEF Ind
<1>1. CASE Create(t)
  <2>1. PICK k \in Koids : /\ state[k] = "unborn"
                           /\ state' = [state EXCEPT ![k] = "live"]
                           /\ koid' = [koid EXCEPT ![t] = k]
    BY <1>1, Zenon DEF Create
  <2>2. /\ pc[t] = "idle" /\ pc' = [pc EXCEPT ![t] = "open"]
        /\ UNCHANGED <<handles, kernel, held, kref, lock, msg, vals, queue, chan>>
    BY <1>1, Zenon DEF Create, channel
  <2>3. TypeOK'
    BY <1>0, <2>1, <2>2, Zenon DEF TypeOK, Points
  <2>4. pc'[t] = "open" /\ koid'[t] = k /\ \A u \in Threads \ {t} : koid'[u] = koid[u] /\ pc'[u] = pc[u]
    BY <1>0, <2>1, <2>2, Zenon DEF TypeOK
  <2>5. Frame(t)
    BY <2>2, <2>4, Zenon DEF Frame
  <2>6. ThreadOK(t)'
    BY <1>0, <2>2, <2>4, Zenon DEF ThreadOK, Hand, Holding, Referring, Owning
  <2>7. Counts'
    BY <1>0, <2>1, <2>2, <2>4, CreateCounts, Zenon
  <2>8. Collects
    BY <1>0, <2>1, Zenon DEF Collects, TypeOK
  <2> QED BY <2>3, <2>5, <2>6, <2>7, <2>8, FrameInd, Zenon
<1>2. CASE Get(t)
  <2>1. PICK v \in Occupied(t), p \in {"open", "acquire"} :
           koid' = [koid EXCEPT ![t] = held[Slot(Own(t), v)]] /\ pc' = [pc EXCEPT ![t] = p]
    BY <1>2, Zenon DEF Get
  <2>2. pc[t] = "idle" /\ UNCHANGED <<state, handles, kernel, held, kref, lock, msg, vals, queue, chan>>
    BY <1>2, Zenon DEF Get, channel, registry
  <2>3. Slot(Own(t), v) \in Places /\ held[Slot(Own(t), v)] \in Koids
    BY PlaceFacts, <1>0, Zenon DEF Occupied, TypeOK
  <2>4. TypeOK'
    BY <1>0, <2>1, <2>2, <2>3, Zenon DEF TypeOK, Points
  <2>5. /\ pc'[t] = p /\ koid'[t] = held[Slot(Own(t), v)]
        /\ \A u \in Threads \ {t} : koid'[u] = koid[u] /\ pc'[u] = pc[u]
    BY <1>0, <2>1, Zenon DEF TypeOK
  <2>6. Frame(t)
    BY <2>2, <2>5, Zenon DEF Frame
  <2>7. ThreadOK(t)'
    BY <1>0, <2>1, <2>2, <2>3, <2>5, Zenon DEF ThreadOK, Hand, Holding, Referring, Owning
  <2> QED BY <2>2, <2>3, <2>4, <2>5, <2>6, <2>7, ShuffleInd, Zenon DEF registry
<1>3. CASE Open(t)
  <2>1. /\ pc[t] = "open" /\ koid[t] \in Koids /\ held[Hand(t)] = NoKoid
        /\ NoteHandleOpen(koid[t])
        /\ held' = [held EXCEPT ![Hand(t)] = koid[t]]
        /\ koid' = [koid EXCEPT ![t] = NoKoid] /\ pc' = [pc EXCEPT ![t] = "insert"]
        /\ UNCHANGED <<kref, lock, msg, vals, queue, chan>>
    BY <1>0, <1>3, Zenon DEF Open, channel, ThreadOK, Holding
  <2>2. state' = state /\ handles' \in [Koids -> Nat] /\ kernel' \in [Koids -> Nat]
    BY <1>0, <2>1 DEF NoteHandleOpen, TypeOK
  <2>3. TypeOK'
    BY <1>0, <2>1, <2>2, Zenon DEF TypeOK, Points
  <2>4. /\ pc'[t] = "insert" /\ koid'[t] = NoKoid
        /\ \A u \in Threads \ {t} : koid'[u] = koid[u] /\ pc'[u] = pc[u]
        /\ Filled(held, held', Places, Hand(t), koid[t])
    BY PlaceFacts, <1>0, <2>1, Zenon DEF TypeOK, Filled
  <2>5. Frame(t)
    BY PlaceFacts, <1>0, <2>1, <2>4, Zenon DEF Frame, TypeOK
  <2>6. ThreadOK(t)'
    <3>1. held'[Hand(t)] \in Koids /\ kref'[t] = NoKoid
      BY <1>0, <2>1, <2>4, Zenon DEF Filled, ThreadOK, Referring
    <3> QED BY <2>4, <3>1, Zenon DEF ThreadOK, Hand, Holding, Referring, Owning
  <2>7. Counts'
    BY PlaceFacts, <1>0, <2>1, <2>4, OpenCounts, Zenon
  <2>8. Collects
    BY <2>2, Zenon DEF Collects
  <2> QED BY <2>3, <2>5, <2>6, <2>7, <2>8, FrameInd, Zenon
<1>4. CASE Insert(t)
  <2>1. /\ pc[t] = "insert" /\ kref[t] = NoKoid /\ held[Hand(t)] \in Koids
        /\ UNCHANGED <<state, handles, kernel, kref, lock, koid, msg, vals, queue, chan>>
    BY <1>0, <1>4, Zenon DEF Insert, registry, channel, ThreadOK, Holding, Referring
  <2>2. ASSUME NEW v \in Slots, FirstFree(t, v), MoveHandle(Hand(t), Slot(Own(t), v)),
               pc' = [pc EXCEPT ![t] = "idle"]
        PROVE  Ind' /\ Collects
    <3>1. Slot(Own(t), v) \in Places /\ held[Slot(Own(t), v)] = NoKoid /\ Hand(t) # Slot(Own(t), v)
      BY PlaceFacts, <2>2, Zenon DEF FirstFree, Occupied
    <3>2. /\ Moved(held, held', Places) /\ held' \in [Places -> Koids \cup {NoKoid}]
          /\ held'[Hand(t)] = NoKoid
          /\ \A z \in Places \ {Hand(t), Slot(Own(t), v)} : held'[z] = held[z]
      BY PlaceFacts, <1>0, <2>2, <3>1, MoveHandleFacts, Zenon
    <3>3. TypeOK'
      BY <1>0, <2>1, <2>2, <3>2, Zenon DEF TypeOK, Points
    <3>4. pc'[t] = "idle" /\ \A u \in Threads \ {t} : pc'[u] = pc[u]
      BY <1>0, <2>2, Zenon DEF TypeOK
    <3>5. Frame(t)
      BY PlaceFacts, <2>1, <3>2, <3>4, Zenon DEF Frame
    <3>6. ThreadOK(t)'
      BY <2>1, <3>2, <3>4, Zenon DEF ThreadOK, Hand, Holding, Referring, Owning
    <3> QED BY <2>1, <3>2, <3>3, <3>5, <3>6, ShuffleInd, Zenon DEF registry
  <2>3. ASSUME pc' = [pc EXCEPT ![t] = "close"], UNCHANGED held
        PROVE  Ind' /\ Collects
    <3>1. TypeOK'
      BY <1>0, <2>1, <2>3, Zenon DEF TypeOK, Points
    <3>2. pc'[t] = "close" /\ \A u \in Threads \ {t} : pc'[u] = pc[u]
      BY <1>0, <2>3, Zenon DEF TypeOK
    <3>3. Frame(t)
      BY <2>1, <2>3, <3>2, Zenon DEF Frame
    <3>4. ThreadOK(t)'
      BY <2>1, <2>3, <3>2, Zenon DEF ThreadOK, Hand, Holding, Referring, Owning
    <3> QED BY <2>1, <2>3, <3>1, <3>3, <3>4, ShuffleInd, Zenon DEF registry
  <2> QED BY <1>4, <2>2, <2>3, Zenon DEF Insert
<1>5. CASE Remove(t)
  <2>1. /\ pc[t] = "idle" /\ kref[t] = NoKoid /\ held[Hand(t)] = NoKoid
        /\ pc' = [pc EXCEPT ![t] = "close"]
        /\ UNCHANGED <<state, handles, kernel, kref, lock, koid, msg, vals, queue, chan>>
    BY <1>0, <1>5, Zenon DEF Remove, registry, channel, ThreadOK, Holding, Referring
  <2>2. PICK v \in Occupied(t) : MoveHandle(Slot(Own(t), v), Hand(t))
    BY <1>5, Zenon DEF Remove
  <2>3. /\ Slot(Own(t), v) \in Places /\ held[Slot(Own(t), v)] \in Koids
        /\ Hand(t) # Slot(Own(t), v)
    BY PlaceFacts, <1>0, Zenon DEF Occupied, TypeOK
  <2>4. /\ Moved(held, held', Places) /\ held' \in [Places -> Koids \cup {NoKoid}]
        /\ held'[Hand(t)] = held[Slot(Own(t), v)]
        /\ \A z \in Places \ {Hand(t), Slot(Own(t), v)} : held'[z] = held[z]
    BY PlaceFacts, <1>0, <2>1, <2>2, <2>3, MoveHandleFacts, Zenon
  <2>5. TypeOK'
    BY <1>0, <2>1, <2>4, Zenon DEF TypeOK, Points
  <2>6. pc'[t] = "close" /\ \A u \in Threads \ {t} : pc'[u] = pc[u]
    BY <1>0, <2>1, Zenon DEF TypeOK
  <2>7. Frame(t)
    <3>1. \A u \in Threads : Hand(u) # Slot(Own(t), v)
      BY PlaceFacts, Zenon DEF Occupied
    <3> QED BY PlaceFacts, <2>1, <2>4, <2>6, <3>1, Zenon DEF Frame
  <2>8. ThreadOK(t)'
    BY <2>1, <2>3, <2>4, <2>6, Zenon DEF ThreadOK, Hand, Holding, Referring, Owning
  <2> QED BY <2>1, <2>4, <2>5, <2>7, <2>8, ShuffleInd, Zenon DEF registry
<1>6. CASE Close(t)
  <2> DEFINE q == IF pc[t] = "close" THEN "idle" ELSE "restore"
  <2>1. /\ pc[t] \in {"close", "close_lost"} /\ kref[t] = NoKoid /\ held[Hand(t)] \in Koids
        /\ NoteHandleClose(held[Hand(t)]) /\ held' = [held EXCEPT ![Hand(t)] = NoKoid]
        /\ pc' = [pc EXCEPT ![t] = q]
        /\ UNCHANGED <<kref, lock, koid, msg, vals, queue, chan>>
    BY <1>0, <1>6, Zenon DEF Close, channel, ThreadOK, Holding, Referring
  <2>2. TypeOK'
    <3>1. /\ state' \in [Koids -> {"unborn", "live", "gone"}]
          /\ handles' \in [Koids -> Nat] /\ kernel' \in [Koids -> Nat]
      BY <1>0, <2>1, RegistryTypes, Zenon
    <3> QED BY <1>0, <2>1, <3>1, Zenon DEF TypeOK, Points
  <2>3. pc'[t] = q /\ \A u \in Threads \ {t} : pc'[u] = pc[u]
    BY <1>0, <2>1, Zenon DEF TypeOK
  <2>4. held'[Hand(t)] = NoKoid /\ \A u \in Threads \ {t} : held'[Hand(u)] = held[Hand(u)]
    BY PlaceFacts, <1>0, <2>1, Zenon DEF TypeOK
  <2>5. Frame(t)
    BY <2>1, <2>3, <2>4, Zenon DEF Frame
  <2>6. ThreadOK(t)'
    <3>1. pc'[t] = "idle" \/ (pc'[t] = "restore" /\ msg[t] \in Messages)
      BY <1>0, <2>1, <2>3, Zenon DEF ThreadOK, Owning
    <3>2. kref'[t] = NoKoid /\ held'[Hand(t)] = NoKoid /\ msg'[t] = msg[t]
      BY <2>1, <2>4, Zenon
    <3> QED BY <3>1, <3>2, Zenon DEF ThreadOK, Hand, Holding, Referring, Owning
  <2> QED BY PlaceFacts, <2>1, <2>2, <2>5, <2>6, CloseInd, Zenon
<1> QED BY <1>1, <1>2, <1>3, <1>4, <1>5, <1>6, Zenon

\* The points where a thread neither refers to anything nor has a handle in its hand.
Quiet == Points \ (Holding \cup Referring \cup {"open", "acquire"})

\* A step that moves a thread between such points and touches no reference.
LEMMA QuietInd ==
    ASSUME Ind, NEW t \in Threads, NEW q \in Quiet, pc[t] \in Quiet,
           UNCHANGED <<state, handles, kernel, held, kref, koid>>,
           pc' = [pc EXCEPT ![t] = q], q \in Owning => msg'[t] \in Messages,
           \A u \in Threads \ {t} : msg'[u] = msg[u],
           lock' \in [Procs -> Threads \cup {NoThread}],
           msg' \in [Threads -> Messages \cup {NoMessage}], vals' \in [Threads -> Seq(Slots)],
           queue' \in Seq(Messages), Len(queue') <= Capacity, chan' \in {"open", "peer_gone", "gone"}
    PROVE  Ind' /\ Collects
<1>0. TypeOK /\ ThreadOK(t)
  BY Zenon DEF Ind
<1>1. TypeOK'
  BY <1>0, Zenon DEF TypeOK, Quiet
<1>2. pc'[t] = q /\ \A u \in Threads \ {t} : pc'[u] = pc[u]
  BY <1>0, Zenon DEF TypeOK
<1>3. Frame(t)
  BY <1>2, Zenon DEF Frame
<1>4. ThreadOK(t)'
  BY <1>0, <1>2, Zenon DEF ThreadOK, Hand, Quiet, Holding, Referring
<1> QED BY <1>1, <1>3, <1>4, ShuffleInd, Zenon DEF registry, Quiet

\* A step that moves a handle between tables and messages only.
LEMMA TransferInd ==
    ASSUME Ind, NEW t \in Threads, NEW x \in Places, NEW y \in Places, pc[t] \in Quiet,
           \A u \in Threads : Hand(u) # x /\ Hand(u) # y,
           x # y, held[y] = NoKoid, MoveHandle(x, y),
           UNCHANGED <<state, handles, kernel, kref, lock, pc, koid, msg, vals, queue, chan>>
    PROVE  Ind' /\ Collects
<1>0. TypeOK /\ ThreadOK(t)
  BY Zenon DEF Ind
<1>1. /\ Moved(held, held', Places) /\ held' \in [Places -> Koids \cup {NoKoid}]
      /\ \A z \in Places \ {x, y} : held'[z] = held[z]
  BY <1>0, MoveHandleFacts, Zenon
<1>2. TypeOK'
  BY <1>0, <1>1, Zenon DEF TypeOK
<1>3. \A u \in Threads : held'[Hand(u)] = held[Hand(u)]
  BY <1>1, PlaceFacts, Zenon
<1>4. Frame(t)
  BY <1>3, Zenon DEF Frame
<1>5. ThreadOK(t)'
  BY <1>0, <1>3, Zenon DEF ThreadOK, Hand
<1> QED BY <1>1, <1>2, <1>4, <1>5, ShuffleInd, Zenon DEF registry, Quiet

\* A step that closes a handle of a table or a message.
LEMMA CloseAtInd ==
    ASSUME Ind, NEW t \in Threads, NEW x \in Places, held[x] # NoKoid, pc[t] \in Quiet,
           \A u \in Threads : Hand(u) # x,
           NoteHandleClose(held[x]), held' = [held EXCEPT ![x] = NoKoid],
           UNCHANGED <<kref, lock, pc, koid, msg, vals, queue, chan>>
    PROVE  Ind' /\ Collects
<1>0. TypeOK /\ ThreadOK(t) /\ held[x] \in Koids
  BY Zenon DEF Ind, TypeOK
<1>1. /\ state' \in [Koids -> {"unborn", "live", "gone"}]
      /\ handles' \in [Koids -> Nat] /\ kernel' \in [Koids -> Nat]
  BY <1>0, RegistryTypes, Zenon
<1>2. TypeOK'
  BY <1>0, <1>1, Zenon DEF TypeOK
<1>3. \A u \in Threads : held'[Hand(u)] = held[Hand(u)]
  BY <1>0, PlaceFacts, Zenon DEF TypeOK
<1>4. Frame(t)
  BY <1>3, Zenon DEF Frame
<1>5. ThreadOK(t)'
  BY <1>0, <1>3, Zenon DEF ThreadOK, Hand
<1> QED BY <1>0, <1>2, <1>4, <1>5, CloseInd, Zenon DEF Quiet

\* close_all of a message.
LEMMA CloseOneInd ==
    ASSUME Ind, NEW t \in Threads, NEW m \in Messages, CloseOne(m), pc[t] \in Quiet,
           UNCHANGED <<kref, lock, pc, koid, msg, vals, queue, chan>>
    PROVE  Ind' /\ Collects
<1>1. PICK i \in Carried(m) : /\ NoteHandleClose(held[Part(m, i)])
                              /\ held' = [held EXCEPT ![Part(m, i)] = NoKoid]
  BY Zenon DEF CloseOne
<1>2. i \in Parts /\ held[Part(m, i)] # NoKoid
  BY Zenon DEF Carried
<1>3. Part(m, i) \in Places /\ \A u \in Threads : Hand(u) # Part(m, i)
  BY <1>2, PlaceFacts, Zenon
<1> QED BY <1>1, <1>2, <1>3, CloseAtInd, Zenon

\* The writing side of a transfer.
LEMMA WriteInd ==
    ASSUME Ind, NEW t \in Threads,
           Write(t) \/ RemoveKeepAlive(t) \/ Send(t) \/ Enqueue(t) \/ Restore(t)
    PROVE  Ind' /\ Collects
<1> USE DEF At, Goto
<1>0. TypeOK /\ ThreadOK(t)
  BY Zenon DEF Ind
<1>1. CASE Write(t)
  <2>1. /\ pc[t] = "idle" /\ pc' = [pc EXCEPT ![t] = "remove"] /\ Lock(t)
        /\ UNCHANGED <<state, handles, kernel, held, kref, koid, queue, chan>>
    BY <1>1, Zenon DEF Write, registry, channel
  <2>2. PICK m \in FreeMessages, n \in Parts : \E f \in [1 .. n -> Occupied(t)] :
           msg' = [msg EXCEPT ![t] = m] /\ vals' = [vals EXCEPT ![t] = f]
    BY <1>1, Zenon DEF Write
  <2>f. PICK f \in [1 .. n -> Occupied(t)] :
           msg' = [msg EXCEPT ![t] = m] /\ vals' = [vals EXCEPT ![t] = f]
    BY <2>2, Zenon
  <2>3. m \in Messages /\ f \in Seq(Slots)
    BY BoundsAssumption DEF FreeMessages, Parts, Occupied
  <2>4. lock' \in [Procs -> Threads \cup {NoThread}]
    BY <1>0, <2>1, Zenon DEF Lock, TypeOK
  <2>5. /\ msg' \in [Threads -> Messages \cup {NoMessage}] /\ vals' \in [Threads -> Seq(Slots)]
        /\ msg'[t] \in Messages /\ \A u \in Threads \ {t} : msg'[u] = msg[u]
    BY <1>0, <2>f, <2>3, Zenon DEF TypeOK
  <2>6. queue' \in Seq(Messages) /\ Len(queue') <= Capacity /\ chan' \in {"open", "peer_gone", "gone"}
    BY <1>0, <2>1, Zenon DEF TypeOK
  <2>7. "remove" \in Quiet /\ pc[t] \in Quiet
    BY <2>1, Zenon DEF Quiet, Points, Holding, Referring
  <2> QED BY <2>1, <2>4, <2>5, <2>6, <2>7, QuietInd, Zenon
<1>2. CASE RemoveKeepAlive(t)
  <2>1. /\ pc[t] = "remove" /\ msg[t] \in Messages
        /\ UNCHANGED <<state, handles, kernel, kref, koid, msg, vals, queue, chan>>
    BY <1>0, <1>2, Zenon DEF RemoveKeepAlive, registry, channel, ThreadOK, Owning
  <2>2. pc[t] \in Quiet /\ "send" \in Quiet
    BY <2>1, Zenon DEF Quiet, Points, Holding, Referring
  <2>3. ASSUME NEW i \in ((1 .. Len(vals[t])) \ Carried(msg[t])) \cap Parts,
               MoveHandle(Slot(Own(t), vals[t][i]), Part(msg[t], i)), UNCHANGED <<lock, pc>>
        PROVE  Ind' /\ Collects
    <3>1. vals[t][i] \in Slots
      BY <1>0 DEF TypeOK
    <3>2. /\ Slot(Own(t), vals[t][i]) \in Places /\ Part(msg[t], i) \in Places
          /\ Slot(Own(t), vals[t][i]) # Part(msg[t], i) /\ held[Part(msg[t], i)] = NoKoid
          /\ \A u \in Threads : Hand(u) # Slot(Own(t), vals[t][i]) /\ Hand(u) # Part(msg[t], i)
      BY PlaceFacts, <2>1, <3>1, Zenon DEF Carried
    <3> QED BY <2>1, <2>2, <2>3, <3>2, TransferInd, Zenon
  <2>4. ASSUME Unlock(t), pc' = [pc EXCEPT ![t] = "send"], UNCHANGED held
        PROVE  Ind' /\ Collects
    <3>1. lock' \in [Procs -> Threads \cup {NoThread}]
      BY <1>0, <2>4, Zenon DEF Unlock, TypeOK
    <3>2. /\ queue' \in Seq(Messages) /\ Len(queue') <= Capacity
          /\ chan' \in {"open", "peer_gone", "gone"}
          /\ msg' \in [Threads -> Messages \cup {NoMessage}] /\ vals' \in [Threads -> Seq(Slots)]
          /\ msg'[t] \in Messages /\ \A u \in Threads \ {t} : msg'[u] = msg[u]
      BY <1>0, <2>1, Zenon DEF TypeOK
    <3> QED BY <2>1, <2>2, <2>4, <3>1, <3>2, QuietInd, Zenon
  <2> QED BY <1>2, <2>3, <2>4, Zenon DEF RemoveKeepAlive
<1>3. CASE Send(t)
  <2>1. /\ pc[t] = "send" /\ msg[t] \in Messages
        /\ UNCHANGED <<state, handles, kernel, held, kref, lock, koid, msg, vals, queue, chan>>
    BY <1>0, <1>3, Zenon DEF Send, registry, channel, ThreadOK, Owning
  <2>2. PICK q \in {"enqueue", "restore"} : pc' = [pc EXCEPT ![t] = q]
    BY <1>3, Zenon DEF Send
  <2>3. pc[t] \in Quiet /\ q \in Quiet
    BY <2>1, Zenon DEF Quiet, Points, Holding, Referring
  <2>4. /\ queue' \in Seq(Messages) /\ Len(queue') <= Capacity
        /\ chan' \in {"open", "peer_gone", "gone"} /\ lock' \in [Procs -> Threads \cup {NoThread}]
        /\ msg' \in [Threads -> Messages \cup {NoMessage}] /\ vals' \in [Threads -> Seq(Slots)]
        /\ msg'[t] \in Messages /\ \A u \in Threads \ {t} : msg'[u] = msg[u]
    BY <1>0, <2>1, Zenon DEF TypeOK
  <2> QED BY <2>1, <2>2, <2>3, <2>4, QuietInd, Zenon
<1>4. CASE Enqueue(t)
  <2>1. /\ pc[t] = "enqueue" /\ msg[t] \in Messages
        /\ UNCHANGED <<state, handles, kernel, held, kref, lock, koid, chan>>
    BY <1>0, <1>4, Zenon DEF Enqueue, registry, ThreadOK, Owning
  <2>2. pc[t] \in Quiet /\ "idle" \in Quiet /\ "idle" \notin Owning /\ "restore" \in Quiet
    BY <2>1, Zenon DEF Quiet, Points, Holding, Referring, Owning
  <2>3. lock' \in [Procs -> Threads \cup {NoThread}] /\ chan' \in {"open", "peer_gone", "gone"}
    BY <1>0, <2>1, Zenon DEF TypeOK
  <2>4. ASSUME Len(queue) < Capacity, queue' = Append(queue, msg[t]), msg' = [msg EXCEPT ![t] = NoMessage],
               vals' = [vals EXCEPT ![t] = <<>>], pc' = [pc EXCEPT ![t] = "idle"]
        PROVE  Ind' /\ Collects
    <3>1. queue' \in Seq(Messages) /\ Len(queue') <= Capacity
      BY <1>0, <2>1, <2>4, BoundsAssumption DEF TypeOK
    <3>2. /\ msg' \in [Threads -> Messages \cup {NoMessage}] /\ vals' \in [Threads -> Seq(Slots)]
          /\ \A u \in Threads \ {t} : msg'[u] = msg[u]
      BY <1>0, <2>4 DEF TypeOK
    <3> QED BY <2>1, <2>2, <2>3, <2>4, <3>1, <3>2, QuietInd, Zenon
  <2>5. ASSUME pc' = [pc EXCEPT ![t] = "restore"], UNCHANGED <<queue, msg, vals>>
        PROVE  Ind' /\ Collects
    <3>1. /\ queue' \in Seq(Messages) /\ Len(queue') <= Capacity
          /\ msg' \in [Threads -> Messages \cup {NoMessage}] /\ vals' \in [Threads -> Seq(Slots)]
          /\ msg'[t] \in Messages /\ \A u \in Threads \ {t} : msg'[u] = msg[u]
      BY <1>0, <2>1, <2>5, Zenon DEF TypeOK
    <3> QED BY <2>1, <2>2, <2>3, <2>5, <3>1, QuietInd, Zenon
  <2> QED BY <1>4, <2>4, <2>5, Zenon DEF Enqueue
<1>5. CASE Restore(t)
  <2>1. /\ pc[t] = "restore" /\ msg[t] \in Messages /\ kref[t] = NoKoid /\ held[Hand(t)] = NoKoid
        /\ UNCHANGED <<state, handles, kernel, kref, lock, koid, queue, chan>>
    BY <1>0, <1>5, Zenon DEF Restore, registry, channel, ThreadOK, Owning, Holding, Referring
  <2>2. pc[t] \in Quiet /\ "idle" \in Quiet /\ "idle" \notin Owning
    BY <2>1, Zenon DEF Quiet, Points, Holding, Referring, Owning
  <2>3. ASSUME NEW i \in Carried(msg[t]) \cap (1 .. Len(vals[t])), UNCHANGED <<msg, vals>>
        PROVE  /\ vals[t][i] \in Slots /\ held[Part(msg[t], i)] \in Koids
               /\ Slot(Own(t), vals[t][i]) \in Places /\ Part(msg[t], i) \in Places
               /\ Slot(Own(t), vals[t][i]) # Part(msg[t], i)
               /\ \A u \in Threads : Hand(u) # Slot(Own(t), vals[t][i]) /\ Hand(u) # Part(msg[t], i)
    <3>1. vals[t][i] \in Slots /\ i \in Parts /\ held[Part(msg[t], i)] # NoKoid
      BY <1>0 DEF TypeOK, Carried
    <3>2. held[Part(msg[t], i)] \in Koids
      BY PlaceFacts, <1>0, <2>1, <3>1, Zenon DEF TypeOK
    <3> QED BY PlaceFacts, <2>1, <3>1, <3>2, Zenon
  <2>4. ASSUME NEW i \in Carried(msg[t]) \cap (1 .. Len(vals[t])), UNCHANGED <<pc, msg, vals>>,
               held[Slot(Own(t), vals[t][i])] = NoKoid,
               MoveHandle(Part(msg[t], i), Slot(Own(t), vals[t][i]))
        PROVE  Ind' /\ Collects
    <3> DEFINE x == Part(msg[t], i)
               y == Slot(Own(t), vals[t][i])
    <3>1. /\ x \in Places /\ y \in Places /\ x # y
          /\ \A u \in Threads : Hand(u) # x /\ Hand(u) # y
      BY <2>3, <2>4, Zenon
    <3>2. held[y] = NoKoid /\ MoveHandle(x, y)
      BY <2>4, Zenon
    <3> HIDE DEF x, y
    <3> QED BY <2>1, <2>2, <2>4, <3>1, <3>2, TransferInd, Zenon
  <2>5. ASSUME NEW i \in Carried(msg[t]) \cap (1 .. Len(vals[t])), UNCHANGED <<msg, vals>>,
               MoveHandle(Part(msg[t], i), Hand(t)), pc' = [pc EXCEPT ![t] = "close_lost"]
        PROVE  Ind' /\ Collects
    <3>1. /\ Moved(held, held', Places) /\ held' \in [Places -> Koids \cup {NoKoid}]
          /\ held'[Hand(t)] \in Koids
          /\ \A z \in Places \ {Hand(t), Part(msg[t], i)} : held'[z] = held[z]
      BY PlaceFacts, <1>0, <2>1, <2>3, <2>5, MoveHandleFacts, ZenonT(40)
    <3>2. TypeOK'
      BY <1>0, <2>1, <2>5, <3>1, Zenon DEF TypeOK, Points
    <3>3. pc'[t] = "close_lost" /\ \A u \in Threads \ {t} : pc'[u] = pc[u]
      BY <1>0, <2>5, Zenon DEF TypeOK
    <3>4. Frame(t)
      BY PlaceFacts, <2>1, <2>3, <2>5, <3>1, <3>3, Zenon DEF Frame
    <3>5. ThreadOK(t)'
      BY <2>1, <2>5, <3>1, <3>3, Zenon DEF ThreadOK, Hand, Holding, Referring, Owning
    <3> QED BY <2>1, <3>1, <3>2, <3>4, <3>5, ShuffleInd, Zenon DEF registry
  <2>6. ASSUME msg' = [msg EXCEPT ![t] = NoMessage], vals' = [vals EXCEPT ![t] = <<>>],
               pc' = [pc EXCEPT ![t] = "idle"], UNCHANGED held
        PROVE  Ind' /\ Collects
    <3>1. /\ queue' \in Seq(Messages) /\ Len(queue') <= Capacity
          /\ chan' \in {"open", "peer_gone", "gone"} /\ lock' \in [Procs -> Threads \cup {NoThread}]
          /\ msg' \in [Threads -> Messages \cup {NoMessage}] /\ vals' \in [Threads -> Seq(Slots)]
          /\ \A u \in Threads \ {t} : msg'[u] = msg[u]
      BY <1>0, <2>1, <2>6 DEF TypeOK
    <3> QED BY <2>1, <2>2, <2>6, <3>1, QuietInd, Zenon
  <2> QED BY <1>5, <2>4, <2>5, <2>6, Zenon DEF Restore
<1> QED BY <1>1, <1>2, <1>3, <1>4, <1>5, Zenon

\* The reading side, and messages dropped with the channel.
LEMMA ReadInd ==
    ASSUME Ind, NEW t \in Threads,
           Read(t) \/ Deliver(t) \/ AddExisting(t) \/ Drop(t) \/ DropChannel(t) \/ DropQueue(t)
    PROVE  Ind' /\ Collects
<1> USE DEF At, Goto
<1>0. TypeOK /\ ThreadOK(t)
  BY Zenon DEF Ind
<1>q. /\ {"idle", "deliver", "add", "drop", "drop_queue"} \subseteq Quiet
      /\ "idle" \notin Owning /\ "drop_queue" \notin Owning
  BY Zenon DEF Quiet, Points, Holding, Referring, Owning
<1>1. CASE Read(t)
  <2>1. /\ pc[t] = "idle" /\ queue # <<>>
        /\ msg' = [msg EXCEPT ![t] = Head(queue)] /\ queue' = Tail(queue)
        /\ pc' = [pc EXCEPT ![t] = "deliver"]
        /\ UNCHANGED <<state, handles, kernel, held, kref, lock, koid, vals, chan>>
    BY <1>1, Zenon DEF Read, registry
  <2>2. Head(queue) \in Messages /\ queue' \in Seq(Messages) /\ Len(queue') <= Capacity
    BY <1>0, <2>1, BoundsAssumption DEF TypeOK
  <2>3. /\ msg' \in [Threads -> Messages \cup {NoMessage}] /\ vals' \in [Threads -> Seq(Slots)]
        /\ msg'[t] \in Messages /\ \A u \in Threads \ {t} : msg'[u] = msg[u]
        /\ lock' \in [Procs -> Threads \cup {NoThread}] /\ chan' \in {"open", "peer_gone", "gone"}
    BY <1>0, <2>1, <2>2, Zenon DEF TypeOK
  <2> QED BY <1>q, <2>1, <2>2, <2>3, QuietInd, Zenon
<1>2. CASE Deliver(t)
  <2>1. /\ pc[t] = "deliver" /\ msg[t] \in Messages
        /\ UNCHANGED <<state, handles, kernel, held, kref, koid, msg, vals, queue, chan>>
    BY <1>0, <1>2, Zenon DEF Deliver, registry, channel, ThreadOK, Owning
  <2>2. PICK q \in {"add", "drop"} : pc' = [pc EXCEPT ![t] = q] /\ (Lock(t) \/ UNCHANGED lock)
    BY <1>2, Zenon DEF Deliver
  <2>3. lock' \in [Procs -> Threads \cup {NoThread}]
    BY <1>0, <2>2, Zenon DEF Lock, TypeOK
  <2>4. /\ queue' \in Seq(Messages) /\ Len(queue') <= Capacity /\ chan' \in {"open", "peer_gone", "gone"}
        /\ msg' \in [Threads -> Messages \cup {NoMessage}] /\ vals' \in [Threads -> Seq(Slots)]
        /\ msg'[t] \in Messages /\ \A u \in Threads \ {t} : msg'[u] = msg[u]
    BY <1>0, <2>1, Zenon DEF TypeOK
  <2> QED BY <1>q, <2>1, <2>2, <2>3, <2>4, QuietInd, Zenon
<1>3. CASE AddExisting(t)
  <2>1. /\ pc[t] = "add" /\ msg[t] \in Messages
        /\ UNCHANGED <<state, handles, kernel, kref, koid, vals, queue, chan>>
    BY <1>0, <1>3, Zenon DEF AddExisting, registry, channel, ThreadOK, Owning
  <2>2. ASSUME NEW i \in Carried(msg[t]), NEW v \in Slots, FirstFree(t, v),
               MoveHandle(Part(msg[t], i), Slot(Own(t), v)), UNCHANGED <<lock, pc, msg>>
        PROVE  Ind' /\ Collects
    <3>1. /\ Slot(Own(t), v) \in Places /\ Part(msg[t], i) \in Places
          /\ Slot(Own(t), v) # Part(msg[t], i) /\ held[Slot(Own(t), v)] = NoKoid
          /\ \A u \in Threads : Hand(u) # Slot(Own(t), v) /\ Hand(u) # Part(msg[t], i)
      BY PlaceFacts, <2>1, <2>2, Zenon DEF Carried, FirstFree, Occupied
    <3> QED BY <1>q, <2>1, <2>2, <3>1, TransferInd, Zenon
  <2>3. ASSUME Unlock(t), msg' = [msg EXCEPT ![t] = NoMessage], pc' = [pc EXCEPT ![t] = "idle"],
               UNCHANGED held
        PROVE  Ind' /\ Collects
    <3>1. lock' \in [Procs -> Threads \cup {NoThread}]
      BY <1>0, <2>3, Zenon DEF Unlock, TypeOK
    <3>2. /\ queue' \in Seq(Messages) /\ Len(queue') <= Capacity /\ chan' \in {"open", "peer_gone", "gone"}
          /\ msg' \in [Threads -> Messages \cup {NoMessage}] /\ vals' \in [Threads -> Seq(Slots)]
          /\ \A u \in Threads \ {t} : msg'[u] = msg[u]
      BY <1>0, <2>1, <2>3, Zenon DEF TypeOK
    <3> QED BY <1>q, <2>1, <2>3, <3>1, <3>2, QuietInd, Zenon
  <2> QED BY <1>3, <2>2, <2>3, Zenon DEF AddExisting
<1>4. CASE Drop(t)
  <2>1. /\ pc[t] = "drop" /\ msg[t] \in Messages
        /\ UNCHANGED <<kref, lock, koid, vals, queue, chan>>
    BY <1>0, <1>4, Zenon DEF Drop, channel, ThreadOK, Owning
  <2>2. ASSUME CloseOne(msg[t]), UNCHANGED <<pc, msg>>
        PROVE  Ind' /\ Collects
    BY <1>q, <2>1, <2>2, CloseOneInd, Zenon
  <2>3. ASSUME msg' = [msg EXCEPT ![t] = NoMessage], pc' = [pc EXCEPT ![t] = "idle"],
               UNCHANGED <<state, handles, kernel, held>>
        PROVE  Ind' /\ Collects
    <3>1. /\ queue' \in Seq(Messages) /\ Len(queue') <= Capacity /\ chan' \in {"open", "peer_gone", "gone"}
          /\ msg' \in [Threads -> Messages \cup {NoMessage}] /\ vals' \in [Threads -> Seq(Slots)]
          /\ \A u \in Threads \ {t} : msg'[u] = msg[u]
          /\ lock' \in [Procs -> Threads \cup {NoThread}]
      BY <1>0, <2>1, <2>3, Zenon DEF TypeOK
    <3> QED BY <1>q, <2>1, <2>3, <3>1, QuietInd, Zenon
  <2> QED BY <1>4, <2>2, <2>3, Zenon DEF Drop, registry
<1>5. CASE DropChannel(t)
  <2>1. /\ pc[t] = "idle" /\ chan' = "gone" /\ pc' = [pc EXCEPT ![t] = "drop_queue"]
        /\ UNCHANGED <<state, handles, kernel, held, kref, lock, koid, msg, vals, queue>>
    BY <1>5, Zenon DEF DropChannel, registry
  <2>2. /\ queue' \in Seq(Messages) /\ Len(queue') <= Capacity /\ chan' \in {"open", "peer_gone", "gone"}
        /\ msg' \in [Threads -> Messages \cup {NoMessage}] /\ vals' \in [Threads -> Seq(Slots)]
        /\ \A u \in Threads \ {t} : msg'[u] = msg[u]
        /\ lock' \in [Procs -> Threads \cup {NoThread}]
    BY <1>0, <2>1, Zenon DEF TypeOK
  <2> QED BY <1>q, <2>1, <2>2, QuietInd, Zenon
<1>6. CASE DropQueue(t)
  <2>1. pc[t] = "drop_queue" /\ UNCHANGED <<kref, lock, koid, msg, vals, chan>>
    BY <1>6, Zenon DEF DropQueue
  <2>2. ASSUME queue # <<>>, CloseOne(Head(queue)), UNCHANGED <<pc, queue>>
        PROVE  Ind' /\ Collects
    <3>1. Head(queue) \in Messages
      BY <1>0, <2>2 DEF TypeOK
    <3> QED BY <1>q, <2>1, <2>2, <3>1, CloseOneInd, Zenon
  <2>3. ASSUME NEW q \in {"idle", "drop_queue"}, pc' = [pc EXCEPT ![t] = q],
               UNCHANGED <<state, handles, kernel, held>>,
               queue' = queue \/ (queue # <<>> /\ queue' = Tail(queue))
        PROVE  Ind' /\ Collects
    <3>1. queue' \in Seq(Messages) /\ Len(queue') <= Capacity
      <4>1. queue \in Seq(Messages) /\ Len(queue) <= Capacity /\ Capacity \in Nat
        BY <1>0, BoundsAssumption, Zenon DEF TypeOK
      <4>2. queue # <<>> => Tail(queue) \in Seq(Messages) /\ Len(Tail(queue)) <= Capacity
        BY <4>1
      <4> QED BY <2>3, <4>1, <4>2, Zenon
    <3>2. /\ chan' \in {"open", "peer_gone", "gone"} /\ lock' \in [Procs -> Threads \cup {NoThread}]
          /\ msg' \in [Threads -> Messages \cup {NoMessage}] /\ vals' \in [Threads -> Seq(Slots)]
          /\ \A u \in Threads \ {t} : msg'[u] = msg[u]
      BY <1>0, <2>1, Zenon DEF TypeOK
    <3> QED BY <1>q, <2>1, <2>3, <3>1, <3>2, QuietInd, Zenon
  <2>4. UNCHANGED pc => pc' = [pc EXCEPT ![t] = "drop_queue"]
    BY <1>0, <2>1, Zenon DEF TypeOK
  <2> QED BY <1>6, <2>2, <2>3, <2>4, Zenon DEF DropQueue, registry
<1> QED BY <1>1, <1>2, <1>3, <1>4, <1>5, <1>6, Zenon

\* Process teardown and kernel references.
LEMMA KernelInd ==
    ASSUME Ind, NEW t \in Threads,
           BeginClear(t) \/ Clear(t) \/ Acquire(t) \/ Record(t) \/ Unmap(t) \/ Unref(t)
    PROVE  Ind' /\ Collects
<1> USE DEF At, Goto
<1>0. TypeOK /\ Counts /\ ThreadOK(t)
  BY Zenon DEF Ind
<1>q. {"idle", "clear"} \subseteq Quiet /\ "idle" \notin Owning /\ "clear" \notin Owning
  BY Zenon DEF Quiet, Points, Holding, Referring, Owning
<1>k. /\ kref \in [KernelPlaces -> Koids \cup {NoKoid}] /\ pc \in [Threads -> Points]
      /\ koid \in [Threads -> Koids \cup {NoKoid}]
  BY <1>0, Zenon DEF TypeOK
<1>1. CASE BeginClear(t) \/ Clear(t)
  <2>1. /\ pc[t] \in {"idle", "clear"}
        /\ UNCHANGED <<kref, koid, msg, vals, queue, chan>>
    BY <1>1, Zenon DEF BeginClear, Clear, channel
  <2>2. ASSUME NEW q \in {"idle", "clear"}, pc' = [pc EXCEPT ![t] = q], Lock(t) \/ Unlock(t),
               UNCHANGED <<state, handles, kernel, held>>
        PROVE  Ind' /\ Collects
    <3>1. lock' \in [Procs -> Threads \cup {NoThread}]
      BY <1>0, <2>2, Zenon DEF Lock, Unlock, TypeOK
    <3>2. /\ queue' \in Seq(Messages) /\ Len(queue') <= Capacity /\ chan' \in {"open", "peer_gone", "gone"}
          /\ msg' \in [Threads -> Messages \cup {NoMessage}] /\ vals' \in [Threads -> Seq(Slots)]
          /\ \A u \in Threads \ {t} : msg'[u] = msg[u]
      BY <1>0, <2>1, Zenon DEF TypeOK
    <3> QED BY <1>q, <2>1, <2>2, <3>1, <3>2, QuietInd, Zenon
  <2>3. ASSUME NEW v \in Occupied(t), NoteHandleClose(held[Slot(Own(t), v)]),
               held' = [held EXCEPT ![Slot(Own(t), v)] = NoKoid], UNCHANGED <<lock, pc>>
        PROVE  Ind' /\ Collects
    <3>1. /\ Slot(Own(t), v) \in Places /\ held[Slot(Own(t), v)] # NoKoid
          /\ \A u \in Threads : Hand(u) # Slot(Own(t), v)
      BY PlaceFacts, Zenon DEF Occupied
    <3> QED BY <1>q, <2>1, <2>3, <3>1, CloseAtInd, Zenon
  <2> QED BY <1>1, <2>2, <2>3, Zenon DEF BeginClear, Clear, registry
<1>2. CASE Acquire(t)
  <2>1. /\ pc[t] = "acquire" /\ koid[t] \in Koids /\ kref[t] = NoKoid /\ held[Hand(t)] = NoKoid
        /\ koid' = [koid EXCEPT ![t] = NoKoid]
        /\ UNCHANGED <<state, handles, held, lock, msg, vals, queue, chan>>
    BY <1>0, <1>2, Zenon DEF Acquire, channel, ThreadOK, Holding, Referring
  <2>2. koid'[t] = NoKoid /\ \A u \in Threads \ {t} : koid'[u] = koid[u]
    BY <1>k, <2>1, Zenon
  <2>3. ASSUME state[koid[t]] = "live", kernel' = [kernel EXCEPT ![koid[t]] = @ + 1],
               kref' = [kref EXCEPT ![t] = koid[t]], pc' = [pc EXCEPT ![t] = "record"]
        PROVE  Ind' /\ Collects
    <3>1. TypeOK'
      BY PlaceFacts, <1>0, <2>1, <2>3 DEF TypeOK, Points
    <3>2. /\ pc'[t] = "record" /\ kref'[t] = koid[t] /\ Filled(kref, kref', KernelPlaces, t, koid[t])
          /\ \A u \in Threads \ {t} : pc'[u] = pc[u] /\ kref'[u] = kref[u]
      BY PlaceFacts, <1>k, <2>1, <2>3, Zenon DEF Filled
    <3>3. Frame(t)
      BY <2>1, <2>2, <3>2, Zenon DEF Frame
    <3>4. ThreadOK(t)'
      BY <2>1, <3>2, Zenon DEF ThreadOK, Hand, Holding, Referring, Owning
    <3>5. CreatorsStay /\ KoidsCopied
      BY <2>1, <2>2, <3>2, Zenon DEF CreatorsStay, KoidsCopied
    <3>6. Counts'
      BY PlaceFacts, <1>0, <2>1, <2>3, <3>2, <3>5, AcquireCounts, Zenon
    <3>7. Collects
      BY <2>1, Zenon DEF Collects
    <3> QED BY <3>1, <3>3, <3>4, <3>6, <3>7, FrameInd, Zenon
  <2>4. ASSUME pc' = [pc EXCEPT ![t] = "idle"], UNCHANGED <<kernel, kref>>
        PROVE  Ind' /\ Collects
    <3>1. TypeOK'
      BY <1>0, <2>1, <2>4, Zenon DEF TypeOK, Points
    <3>2. pc'[t] = "idle" /\ \A u \in Threads \ {t} : pc'[u] = pc[u]
      BY <1>k, <2>4, Zenon
    <3>3. Frame(t)
      BY <2>1, <2>2, <2>4, <3>2, Zenon DEF Frame
    <3>4. ThreadOK(t)'
      BY <2>1, <2>4, <3>2, Zenon DEF ThreadOK, Hand, Holding, Referring, Owning
    <3> QED BY <2>1, <2>2, <2>4, <3>1, <3>3, <3>4, ShuffleInd, Zenon DEF registry
  <2> QED BY <1>2, <2>3, <2>4, Zenon DEF Acquire
<1>3. CASE Record(t) \/ Unmap(t)
  <2>1. /\ pc[t] \in {"record", "idle"} /\ held[Hand(t)] = NoKoid
        /\ pc[t] = "record" => kref[t] \in Koids
        /\ pc[t] = "idle" => kref[t] = NoKoid
        /\ UNCHANGED <<state, handles, kernel, held, lock, koid, msg, vals, queue, chan>>
    BY <1>0, <1>3, Zenon DEF Record, Unmap, registry, channel, ThreadOK, Holding, Referring
  <2>2. ASSUME NEW q \in {"idle", "unref"}, pc' = [pc EXCEPT ![t] = q],
               kref' = kref \/ Moved(kref, kref', KernelPlaces),
               kref' \in [KernelPlaces -> Koids \cup {NoKoid}],
               IF q = "unref" THEN kref'[t] \in Koids ELSE kref'[t] = NoKoid,
               \A u \in Threads \ {t} : kref'[u] = kref[u]
        PROVE  Ind' /\ Collects
    <3>1. TypeOK'
      BY <1>0, <2>1, <2>2, Zenon DEF TypeOK, Points
    <3>2. pc'[t] = q /\ \A u \in Threads \ {t} : pc'[u] = pc[u]
      BY <1>k, <2>2, Zenon
    <3>3. Frame(t)
      BY <2>1, <2>2, <3>2, Zenon DEF Frame
    <3>4. ThreadOK(t)'
      BY <2>1, <2>2, <3>2, Zenon DEF ThreadOK, Hand, Holding, Referring, Owning
    <3> QED BY <2>1, <2>2, <3>1, <3>3, <3>4, ShuffleInd, Zenon DEF registry
  <2>3. ASSUME NEW x \in Mappings, pc[t] = "record", kref[x] = NoKoid,
               kref' = [kref EXCEPT ![t] = NoKoid, ![x] = kref[t]]
        PROVE  /\ Moved(kref, kref', KernelPlaces) /\ kref' \in [KernelPlaces -> Koids \cup {NoKoid}]
               /\ kref'[t] = NoKoid /\ \A u \in Threads \ {t} : kref'[u] = kref[u]
    BY PlaceFacts, <1>k, <2>3 DEF Moved
  <2>4. ASSUME NEW x \in Mappings, pc[t] = "idle", kref[x] # NoKoid,
               kref' = [kref EXCEPT ![x] = NoKoid, ![t] = kref[x]]
        PROVE  /\ Moved(kref, kref', KernelPlaces) /\ kref' \in [KernelPlaces -> Koids \cup {NoKoid}]
               /\ kref'[t] \in Koids /\ \A u \in Threads \ {t} : kref'[u] = kref[u]
    BY PlaceFacts, <1>k, <2>1, <2>4, Zenon DEF Moved
  <2>5. CASE Record(t)
    BY <1>k, <2>1, <2>2, <2>3, <2>5, Zenon DEF Record
  <2>6. CASE Unmap(t)
    BY <2>2, <2>4, <2>6, Zenon DEF Unmap
  <2> QED BY <1>3, <2>5, <2>6, Zenon
<1>4. CASE Unref(t)
  <2>1. /\ pc[t] = "unref" /\ kref[t] \in Koids /\ held[Hand(t)] = NoKoid
        /\ NoteKernelRefClose(kref[t]) /\ kref' = [kref EXCEPT ![t] = NoKoid]
        /\ pc' = [pc EXCEPT ![t] = "idle"]
        /\ UNCHANGED <<held, lock, koid, msg, vals, queue, chan>>
    BY <1>0, <1>4, Zenon DEF Unref, channel, ThreadOK, Holding, Referring
  <2>2. /\ state' \in [Koids -> {"unborn", "live", "gone"}]
        /\ handles' \in [Koids -> Nat] /\ kernel' \in [Koids -> Nat]
    BY <1>0, <2>1, RegistryTypes, Zenon
  <2>3. TypeOK'
    BY <1>0, <2>1, <2>2, Zenon DEF TypeOK, Points
  <2>4. /\ pc'[t] = "idle" /\ kref'[t] = NoKoid /\ Emptied(kref, kref', KernelPlaces, t)
        /\ \A u \in Threads \ {t} : pc'[u] = pc[u] /\ kref'[u] = kref[u]
    BY PlaceFacts, <1>k, <2>1, Zenon DEF Emptied
  <2>5. Frame(t)
    BY <2>1, <2>4, Zenon DEF Frame
  <2>6. ThreadOK(t)'
    BY <2>1, <2>4, Zenon DEF ThreadOK, Hand, Holding, Referring, Owning
  <2>7. CreatorsStay
    BY <2>1, <2>4, Zenon DEF CreatorsStay
  <2>8. Counts' /\ Collects
    BY PlaceFacts, <1>0, <2>1, <2>4, <2>7, UnrefCounts, Zenon DEF Collects
  <2> QED BY <2>3, <2>5, <2>6, <2>8, FrameInd, Zenon
<1> QED BY <1>1, <1>2, <1>3, <1>4, Zenon

\* The invariant holds at boot, before any handle exists.
LEMMA InitInd == Init => Ind
<1> SUFFICES ASSUME Init PROVE Ind
  BY Zenon
<1> USE PlaceFacts DEF Init
<1>1. TypeOK
  BY BoundsAssumption DEF TypeOK, Points
<1>2. CountsExact /\ MappedStaysLive /\ NoLeak
  BY Zenon DEF CountsExact, MappedStaysLive, NoLeak
<1>3. AllBorn
  BY Zenon DEF AllBorn, Born
<1>4. \A t \in Threads : ThreadOK(t)
  BY Zenon DEF ThreadOK, Holding, Referring, Owning
<1> QED BY <1>1, <1>2, <1>3, <1>4, Zenon DEF Ind, Counts

\* Every step preserves the invariant, and collects only what nothing uses.
LEMMA NextInd == Ind /\ [Next]_vars => Ind' /\ Collects
<1> SUFFICES ASSUME Ind, [Next]_vars PROVE Ind' /\ Collects
  BY Zenon
<1>1. CASE DropReader \/ UNCHANGED vars
  <2>1. /\ UNCHANGED <<state, handles, kernel, held, kref, lock, pc, koid, msg, vals, queue>>
        /\ chan' \in {"open", "peer_gone", "gone"}
    BY <1>1, Zenon DEF DropReader, vars, registry, thread, channel, Ind, TypeOK
  <2>2. TypeOK'
    BY <2>1, Zenon DEF Ind, TypeOK
  <2>3. Counts'
    BY <2>1, ZenonT(40) DEF Ind, Counts, CountsExact, MappedStaysLive, NoLeak, AllBorn, Born, Holders,
                KernelHolders, At
  <2>4. \A t \in Threads : ThreadOK(t)'
    BY <2>1, Zenon DEF Ind, ThreadOK, Hand
  <2>5. Collects
    BY <2>1, Zenon DEF Collects
  <2> QED BY <2>2, <2>3, <2>4, <2>5, Zenon DEF Ind
<1>2. ASSUME NEW t \in Threads, ThreadStep(t) PROVE Ind' /\ Collects
  BY <1>2, TableInd, WriteInd, ReadInd, KernelInd, Zenon DEF ThreadStep
<1> QED BY <1>1, <1>2, Zenon DEF Next

-----------------------------------------------------------------------------
\* The inductive invariant: the four properties below, that every reference is
\* to an object that was created, and what each thread holds at each point.
THEOREM HandleInvariant == Spec => []Ind
<1>1. Ind /\ [Next]_vars => Ind'
  BY NextInd, Zenon
<1> QED BY InitInd, <1>1, PTL DEF Spec

\* Type correctness, with it the bound on the channel's queue.
THEOREM HandleTypeCorrect == Spec => []TypeOK
<1>1. Ind => TypeOK
  BY Zenon DEF Ind
<1> QED BY HandleInvariant, <1>1, PTL

\* RefAccount counts exactly: through transfers, rollbacks, failed copy-outs,
\* drops and teardown, for any number of threads and objects.
THEOREM AccountsExact == Spec => []CountsExact
<1>1. Ind => CountsExact
  BY Zenon DEF Ind, Counts
<1> QED BY HandleInvariant, <1>1, PTL

\* A mapped object stays in the registry until it is unmapped.
THEOREM MappedObjectsLive == Spec => []MappedStaysLive
<1>1. Ind => MappedStaysLive
  BY Zenon DEF Ind, Counts
<1> QED BY HandleInvariant, <1>1, PTL

\* No object outlives its last reference.
THEOREM NothingLeaks == Spec => []NoLeak
<1>1. Ind => NoLeak
  BY Zenon DEF Ind, Counts
<1> QED BY HandleInvariant, <1>1, PTL

\* No object is collected while a table, a message in flight or a thread still
\* holds a handle to it.
THEOREM OnlyUnusedCollected == Spec => CollectedUnused
<1>1. Ind /\ [Next]_vars => [Collects]_vars
  BY NextInd, Zenon
<1>2. [Collects]_vars =>
        [\A k \in Koids : (state[k] = "live" /\ state'[k] = "gone") =>
            \A x \in Places : held'[x] # k]_vars
  BY Zenon DEF Collects
<1> QED BY HandleInvariant, <1>1, <1>2, PTL DEF Spec, CollectedUnused
=============================================================================
