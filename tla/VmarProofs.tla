----------------------------- MODULE VmarProofs -----------------------------
(***************************************************************************)
(* Address spaces: the mappings and children of a VMAR, the page table and *)
(* the references of the VMOs, while several threads map, unmap and        *)
(* protect.                                                                *)
(***************************************************************************)
EXTENDS Vmar, FiniteSetTheorems, TLAPS

-----------------------------------------------------------------------------
(* Vmar *)

Fits(m) == m.base + m.size <= NumPages /\ m.off + m.size <= VmoSize
Entries == MapVmos \X (0 .. VmoSize - 1) \X Prots
Points == {"idle", "record", "install", "apply", "child"}

SpaceType ==
    /\ maps \in [Vmars -> SUBSET Mapping] /\ \A v \in Vmars : \A m \in maps[v] : Fits(m)
    /\ \A c \in children : c \in Child /\ c.base + c.size <= NumPages
    /\ pte \in [Pages -> Entries \cup {NoVmar}]
    /\ refs \in [MapVmos -> Nat]
    /\ asLock \in VmarThreads \cup {NoVmar}
    /\ vmarPc \in [VmarThreads -> Points]
    /\ vmarCall = [t \in VmarThreads |-> vmarCall[t]]

MapCall(c) == c.vmar \in Vmars /\ c.map \in Mapping /\ Fits(c.map)
OpCall(c) ==
    /\ MapCall(c) /\ c.from \in Pages /\ c.to \in 1 .. NumPages /\ c.prot \in Prots \cup {NoVmar}
    /\ c.map.base <= c.from /\ c.from < c.to /\ c.to <= c.map.base + c.map.size

\* Calls are well formed, and the one that maps holds the address space lock.
CallsHeld ==
    \A t \in VmarThreads :
        /\ vmarPc[t] \in {"record", "install"} <=> asLock = t
        /\ vmarPc[t] \in {"record", "install"} => MapCall(vmarCall[t])
        /\ vmarPc[t] = "install" => vmarCall[t].map \in maps[vmarCall[t].vmar]
        /\ vmarPc[t] = "apply" => OpCall(vmarCall[t])
        /\ vmarPc[t] = "child" => /\ vmarCall[t] \in Child
                                  /\ vmarCall[t].base + vmarCall[t].size <= NumPages

\* The records whose pages are in place.
Installing(v, m) ==
    \E t \in VmarThreads : vmarPc[t] = "install" /\ vmarCall[t].vmar = v /\ vmarCall[t].map = m
Installed(v, m) == v \in Vmars /\ m \in maps[v] /\ ~Installing(v, m)

RecordsApart ==
    \A v, w \in Vmars, m, n \in Mapping :
        Installed(v, m) /\ Installed(w, n) /\ (v # w \/ m # n) => ~Overlap(m, n)
RecordsTrue ==
    \A v \in Vmars, m \in Mapping :
        Installed(v, m) => \A p \in RangeOf(m) : pte[p] = EntryAt(m, p)
PagesRecorded ==
    \A p \in Pages \ orphans :
        pte[p] # NoVmar => \E v \in Vmars, m \in Mapping : Installed(v, m) /\ p \in RangeOf(m)

\* Every record, and the call that is about to make one, holds a reference.
RecordsOf(x) == {q \in Vmars \X Mapping : q[2] \in maps[q[1]] /\ q[2].vmo = x}
Promised(x) ==
    IF \E t \in VmarThreads : vmarPc[t] = "record" /\ vmarCall[t].map.vmo = x THEN 1 ELSE 0
RefsCounted ==
    \A x \in MapVmos : /\ IsFiniteSet(RecordsOf(x))
                       /\ refs[x] = Cardinality(RecordsOf(x)) + Promised(x)

SpaceInv ==
    /\ SpaceType /\ CallsHeld /\ RecordsApart /\ RecordsTrue /\ PagesRecorded /\ RefsCounted

\* A record covers at least one page, and only pages of the address space.
LEMMA MappedRange ==
    ASSUME NEW m \in Mapping, Fits(m)
    PROVE  /\ m.base \in RangeOf(m) /\ RangeOf(m) \subseteq Pages
           /\ m.base \in Pages /\ m.size \in 1 .. NumPages /\ m.off \in 0 .. VmoSize - 1
           /\ m.vmo \in MapVmos /\ m.prot \in Prots
           /\ \A p \in RangeOf(m) : EntryAt(m, p) \in Entries /\ EntryAt(m, p) # NoVmar
<1>1. /\ m.base \in Pages /\ m.size \in 1 .. NumPages /\ m.off \in 0 .. VmoSize - 1
      /\ m.vmo \in MapVmos /\ m.prot \in Prots
  BY Zenon DEF Mapping
<1>2. m.base \in RangeOf(m) /\ RangeOf(m) \subseteq Pages
  BY <1>1, VmarAssumption DEF RangeOf, Pages, Fits
<1>3. ASSUME NEW p \in RangeOf(m) PROVE EntryAt(m, p) \in Entries
  <2>1. m.off + (p - m.base) \in 0 .. VmoSize - 1
    BY <1>1, VmarAssumption DEF RangeOf, Pages, Fits
  <2> QED
    BY <1>1, <2>1, Zenon DEF EntryAt, Entries
<1>4. NoVmar \notin Entries
  BY VmarAssumption, Zenon DEF Entries
<1> QED
  BY <1>1, <1>2, <1>3, <1>4, Zenon

\* Only one call at a time maps.
LEMMA OneMapper ==
    ASSUME SpaceType, CallsHeld
    PROVE  /\ \A t, u \in VmarThreads :
                vmarPc[t] \in {"record", "install"} /\ vmarPc[u] \in {"record", "install"} => t = u
           /\ asLock = NoVmar =>
                \A t \in VmarThreads : vmarPc[t] # "record" /\ vmarPc[t] # "install"
BY VmarAssumption, Zenon DEF CallsHeld

\* The same records in the same page tables.
LEMMA RecordsKept ==
    ASSUME RecordsApart, RecordsTrue, PagesRecorded, UNCHANGED <<pte, orphans>>,
           \A v \in Vmars, m \in Mapping : Installed(v, m)' <=> Installed(v, m)
    PROVE  RecordsApart' /\ RecordsTrue' /\ PagesRecorded'
<1>1. RecordsApart'
  BY Zenon DEF RecordsApart
<1>2. RecordsTrue'
  BY Zenon DEF RecordsTrue
<1>3. PagesRecorded'
  BY Zenon DEF PagesRecorded
<1> QED
  BY <1>1, <1>2, <1>3, Zenon

\* Which records have their pages depends on the records and on calls still
\* installing.
LEMMA InstalledKept ==
    ASSUME UNCHANGED maps,
           \A t \in VmarThreads :
               \/ vmarPc'[t] = vmarPc[t] /\ vmarCall'[t] = vmarCall[t]
               \/ vmarPc[t] # "install" /\ vmarPc'[t] # "install"
    PROVE  \A v \in Vmars, m \in Mapping : Installed(v, m)' <=> Installed(v, m)
<1>1. \A v, m : Installing(v, m)' <=> Installing(v, m)
  BY Zenon DEF Installing
<1> QED
  BY <1>1, Zenon DEF Installed

\* The same records and promises hold the same references.
LEMMA RefsKept ==
    ASSUME RefsCounted, UNCHANGED <<maps, refs>>, \A x \in MapVmos : Promised(x)' = Promised(x)
    PROVE  RefsCounted'
BY Zenon DEF RefsCounted, RecordsOf

\* References promised to a VMO depend on calls about to record only.
LEMMA PromisedKept ==
    ASSUME \A t \in VmarThreads :
               \/ vmarPc'[t] = vmarPc[t] /\ vmarCall'[t] = vmarCall[t]
               \/ vmarPc[t] # "record" /\ vmarPc'[t] # "record"
    PROVE  \A x \in MapVmos : Promised(x)' = Promised(x)
BY Zenon DEF Promised

\* A range inside a VMAR lies inside the address space.
LEMMA InsideFits ==
    ASSUME SpaceType, NEW v \in Vmars, NEW m \in Mapping, ContainsRange(v, m),
           m.off + m.size <= VmoSize
    PROVE  Fits(m)
<1>1. /\ m.base \in Pages /\ m.size \in 1 .. NumPages
  BY Zenon DEF Mapping
<1>2. Extent(v) \subseteq Pages
  <2>1. CASE v = RootVmar
    BY <2>1, Zenon DEF Extent
  <2>2. CASE v # RootVmar
    <3>1. \A c \in children : RangeOf(c) \subseteq Pages
      BY VmarAssumption DEF SpaceType, Child, RangeOf, Pages
    <3> QED
      BY <2>2, <3>1, Zenon DEF Extent
  <2> QED
    BY <2>1, <2>2, Zenon
<1>3. m.base + m.size - 1 \in Pages
  BY <1>1, <1>2, VmarAssumption DEF ContainsRange, RangeOf, Pages
<1> QED
  BY <1>1, <1>3, VmarAssumption DEF Fits, Pages

\* map takes its VMO reference before it records anything.
LEMMA MapBeginStep ==
    ASSUME SpaceInv, NEW t \in VmarThreads, MapBegin(t)
    PROVE  SpaceInv'
<1> USE DEF SpaceInv
<1>1. PICK v \in Vmars, m \in Mapping :
        /\ ContainsRange(v, m) /\ m.off + m.size <= VmoSize
        /\ refs' = [refs EXCEPT ![m.vmo] = @ + 1]
        /\ vmarCall' = [vmarCall EXCEPT ![t] = [vmar |-> v, map |-> m]]
  BY Zenon DEF MapBegin
<1>2. /\ vmarPc[t] = "idle" /\ asLock = NoVmar /\ asLock' = t
      /\ vmarPc' = [vmarPc EXCEPT ![t] = "record"]
      /\ UNCHANGED <<maps, children, orphans, pte>>
  BY Zenon DEF MapBegin, vmas
<1>3. Fits(m) /\ m.vmo \in MapVmos
  BY <1>1, InsideFits, Zenon DEF Mapping
<1>4. /\ vmarCall'[t].vmar = v /\ vmarCall'[t].map = m
      /\ \A u \in VmarThreads \ {t} : vmarCall'[u] = vmarCall[u]
      /\ vmarCall' = [u \in VmarThreads |-> vmarCall'[u]]
  BY <1>1, Zenon DEF SpaceType
<1>5. /\ vmarPc' \in [VmarThreads -> Points] /\ vmarPc'[t] = "record"
      /\ \A u \in VmarThreads \ {t} : vmarPc'[u] = vmarPc[u]
  BY <1>2, Zenon DEF SpaceType, Points
<1>6. /\ refs' \in [MapVmos -> Nat] /\ refs'[m.vmo] = refs[m.vmo] + 1
      /\ \A x \in MapVmos \ {m.vmo} : refs'[x] = refs[x]
  BY <1>1, <1>3 DEF SpaceType
<1>7. SpaceType'
  BY <1>2, <1>4, <1>5, <1>6, Zenon DEF SpaceType
<1>8. /\ \A u \in VmarThreads : vmarPc[u] # "record" /\ vmarPc[u] # "install"
  BY <1>2, OneMapper, Zenon
<1>9. CallsHeld'
  <2> SUFFICES ASSUME NEW u \in VmarThreads
               PROVE  (/\ vmarPc[u] \in {"record", "install"} <=> asLock = u
                       /\ vmarPc[u] \in {"record", "install"} => MapCall(vmarCall[u])
                       /\ vmarPc[u] = "install" => vmarCall[u].map \in maps[vmarCall[u].vmar]
                       /\ vmarPc[u] = "apply" => OpCall(vmarCall[u])
                       /\ vmarPc[u] = "child" => /\ vmarCall[u] \in Child
                                    /\ vmarCall[u].base + vmarCall[u].size <= NumPages)'
    BY Zenon DEF CallsHeld
  <2>1. CASE u = t
    BY <1>2, <1>3, <1>4, <1>5, <2>1, Zenon DEF MapCall
  <2>2. CASE u # t
    <3>1. vmarPc'[u] = vmarPc[u] /\ vmarCall'[u] = vmarCall[u]
      BY <1>4, <1>5, <2>2, Zenon
    <3> QED
      BY <1>2, <1>8, <2>2, <3>1, Zenon DEF CallsHeld
  <2> QED
    BY <2>1, <2>2, Zenon
<1>10. \A w \in Vmars, n \in Mapping : Installed(w, n)' <=> Installed(w, n)
  BY <1>2, <1>4, <1>5, InstalledKept, Zenon
<1>11. RecordsApart' /\ RecordsTrue' /\ PagesRecorded'
  BY <1>2, <1>10, RecordsKept, Zenon
<1>12. RefsCounted'
  <2> SUFFICES ASSUME NEW x \in MapVmos
               PROVE  (IsFiniteSet(RecordsOf(x)) /\ refs[x] = Cardinality(RecordsOf(x)) + Promised(x))'
    BY Zenon DEF RefsCounted
  <2>1. RecordsOf(x)' = RecordsOf(x)
    BY <1>2, Zenon DEF RecordsOf
  <2>2. Promised(x) = 0
    BY <1>8, Zenon DEF Promised
  <2>3. IsFiniteSet(RecordsOf(x)) /\ refs[x] = Cardinality(RecordsOf(x)) + Promised(x)
    BY Zenon DEF RefsCounted
  <2>4. Cardinality(RecordsOf(x)) \in Nat
    BY <2>3, FS_CardinalityType, Zenon
  <2>5. CASE x = m.vmo
    <3>1. Promised(x)' = 1
      BY <1>4, <1>5, <2>5, Zenon DEF Promised
    <3> QED
      BY <1>6, <2>1, <2>2, <2>3, <2>4, <2>5, <3>1
  <2>6. CASE x # m.vmo
    <3>1. Promised(x)' = 0
      BY <1>4, <1>5, <1>8, <2>6, Zenon DEF Promised
    <3> QED
      BY <1>6, <2>1, <2>2, <2>3, <2>4, <2>6, <3>1, Zenon
  <2> QED
    BY <2>5, <2>6, Zenon
<1> QED
  BY <1>7, <1>9, <1>11, <1>12, Zenon

\* One record more.
LEMMA RecordAdded ==
    ASSUME NEW v \in Vmars, NEW m \in Mapping, m \notin maps[v],
           maps'[v] = maps[v] \cup {m}, \A w \in Vmars \ {v} : maps'[w] = maps[w],
           NEW x, IsFiniteSet(RecordsOf(x))
    PROVE  /\ IsFiniteSet(RecordsOf(x)')
           /\ x = m.vmo => Cardinality(RecordsOf(x)') = Cardinality(RecordsOf(x)) + 1
           /\ x # m.vmo => RecordsOf(x)' = RecordsOf(x)
<1>1. CASE x # m.vmo
  <2>1. RecordsOf(x)' = RecordsOf(x)
    BY <1>1, Zenon DEF RecordsOf
  <2> QED
    BY <1>1, <2>1, Zenon
<1>2. CASE x = m.vmo
  <2>1. RecordsOf(x)' = RecordsOf(x) \cup {<<v, m>>}
    <3>1. ASSUME NEW q \in Vmars \X Mapping
          PROVE  q \in RecordsOf(x)' <=> q \in RecordsOf(x) \/ q = <<v, m>>
      <4>1. q = <<q[1], q[2]>>
        OBVIOUS
      <4>2. CASE q[1] = v
        BY <1>2, <4>1, <4>2 DEF RecordsOf
      <4>3. CASE q[1] # v
        BY <4>1, <4>3 DEF RecordsOf
      <4> QED
        BY <4>2, <4>3, Zenon
    <3>2. /\ RecordsOf(x)' \subseteq Vmars \X Mapping /\ RecordsOf(x) \subseteq Vmars \X Mapping
          /\ <<v, m>> \in Vmars \X Mapping
      BY Zenon DEF RecordsOf
    <3> QED
      BY <3>1, <3>2, Zenon
  <2>2. <<v, m>> \notin RecordsOf(x)
    BY Zenon DEF RecordsOf
  <2>3. IsFiniteSet(RecordsOf(x) \cup {<<v, m>>})
    BY FS_AddElement, Zenon
  <2>4. Cardinality(RecordsOf(x) \cup {<<v, m>>}) = Cardinality(RecordsOf(x)) + 1
    BY <2>2, FS_AddElement, Zenon
  <2> QED
    BY <1>2, <2>1, <2>3, <2>4, Zenon
<1> QED
  BY <1>1, <1>2, Zenon

\* One record replaced by others of the same VMO, or by none.
LEMMA RecordReplaced ==
    ASSUME NEW v \in Vmars, NEW m \in Mapping, m \in maps[v],
           NEW N \in SUBSET Mapping, IsFiniteSet(N), \A n \in N : n.vmo = m.vmo,
           \A n \in N : n \notin maps[v] \ {m},
           maps'[v] = (maps[v] \ {m}) \cup N, \A w \in Vmars \ {v} : maps'[w] = maps[w],
           NEW x, IsFiniteSet(RecordsOf(x))
    PROVE  /\ IsFiniteSet(RecordsOf(x)')
           /\ x = m.vmo => Cardinality(RecordsOf(x)') = Cardinality(RecordsOf(x)) - 1 + Cardinality(N)
           /\ x # m.vmo => RecordsOf(x)' = RecordsOf(x)
<1>1. CASE x # m.vmo
  <2>1. RecordsOf(x)' = RecordsOf(x)
    BY <1>1, Zenon DEF RecordsOf
  <2> QED
    BY <1>1, <2>1, Zenon
<1>2. CASE x = m.vmo
  <2> DEFINE Rest == RecordsOf(x) \ {<<v, m>>}
             New == {v} \X N
  <2>1. RecordsOf(x)' = Rest \cup New
    <3>1. ASSUME NEW q \in Vmars \X Mapping
          PROVE  q \in RecordsOf(x)' <=> q \in Rest \/ q \in New
      <4>1. q = <<q[1], q[2]>> /\ q[1] \in Vmars /\ q[2] \in Mapping
        OBVIOUS
      <4>2. CASE q[1] = v
        <5>1. q \in RecordsOf(x)' <=> (q[2] \in (maps[v] \ {m}) \cup N /\ q[2].vmo = x)
          BY <4>1, <4>2, Zenon DEF RecordsOf
        <5>2. q \in Rest <=> (q[2] \in maps[v] /\ q[2].vmo = x /\ q[2] # m)
          BY <4>1, <4>2 DEF RecordsOf
        <5>3. q \in New <=> q[2] \in N
          BY <4>1, <4>2, Zenon
        <5> QED
          BY <1>2, <5>1, <5>2, <5>3, Zenon
      <4>3. CASE q[1] # v
        <5>1. q \in RecordsOf(x)' <=> (q[2] \in maps[q[1]] /\ q[2].vmo = x)
          BY <4>1, <4>3, Zenon DEF RecordsOf
        <5>2. q \in Rest <=> (q[2] \in maps[q[1]] /\ q[2].vmo = x)
          BY <4>1, <4>3 DEF RecordsOf
        <5>3. q \notin New
          BY <4>1, <4>3, Zenon
        <5> QED
          BY <5>1, <5>2, <5>3, Zenon
      <4> QED
        BY <4>2, <4>3, Zenon
    <3>2. /\ RecordsOf(x)' \subseteq Vmars \X Mapping /\ Rest \subseteq Vmars \X Mapping
          /\ New \subseteq Vmars \X Mapping
      BY Zenon DEF RecordsOf
    <3> QED
      BY <3>1, <3>2, Zenon
  <2>2. <<v, m>> \in RecordsOf(x)
    BY <1>2, Zenon DEF RecordsOf
  <2>3. IsFiniteSet(Rest) /\ Cardinality(Rest) = Cardinality(RecordsOf(x)) - 1
    BY <2>2, FS_RemoveElement
  <2>4. IsFiniteSet({v}) /\ Cardinality({v}) = 1
    BY FS_Singleton, Zenon
  <2>5. IsFiniteSet(New) /\ Cardinality(New) = Cardinality({v}) * Cardinality(N)
    BY <2>4, FS_Product, Zenon
  <2>6. Cardinality(N) \in Nat /\ Cardinality(RecordsOf(x)) \in Nat
    BY FS_CardinalityType, Zenon
  <2>7. Rest \cap New = {}
    BY DEF RecordsOf
  <2> HIDE DEF Rest, New
  <2>8. /\ IsFiniteSet(Rest \cup New)
        /\ Cardinality(Rest \cup New) = Cardinality(Rest) + Cardinality(New) - Cardinality(Rest \cap New)
    BY <2>3, <2>5, FS_Union, Zenon
  <2>9. Cardinality(Rest \cap New) = 0
    BY <2>7, FS_EmptySet, Zenon
  <2>10. Cardinality(Rest \cup New) = Cardinality(RecordsOf(x)) - 1 + Cardinality(N)
    BY <2>3, <2>4, <2>5, <2>6, <2>8, <2>9
  <2> QED
    BY <1>2, <2>1, <2>8, <2>10, Zenon
<1> QED
  BY <1>1, <1>2, Zenon

\* What a return does to the calls.
LEMMA Returned ==
    ASSUME SpaceType, NEW t \in VmarThreads, Return(t)
    PROVE  /\ vmarPc' \in [VmarThreads -> Points] /\ vmarPc'[t] = "idle"
           /\ vmarCall' = [u \in VmarThreads |-> vmarCall'[u]]
           /\ \A u \in VmarThreads \ {t} : vmarPc'[u] = vmarPc[u] /\ vmarCall'[u] = vmarCall[u]
BY Zenon DEF SpaceType, Return, Points

\* A call that returns leaves the others as they were.
LEMMA OthersHeld ==
    ASSUME SpaceType, CallsHeld, NEW t \in VmarThreads, vmarPc'[t] = "idle",
           \A u \in VmarThreads \ {t} : vmarPc'[u] = vmarPc[u] /\ vmarCall'[u] = vmarCall[u],
           \A u \in VmarThreads \ {t} : vmarPc[u] = "install" => maps' = maps,
           \/ vmarPc[t] \in {"record", "install"} /\ asLock' = NoVmar
           \/ vmarPc[t] \notin {"record", "install"} /\ asLock' = asLock
    PROVE  CallsHeld'
<1> SUFFICES ASSUME NEW u \in VmarThreads
             PROVE  (/\ vmarPc[u] \in {"record", "install"} <=> asLock = u
                     /\ vmarPc[u] \in {"record", "install"} => MapCall(vmarCall[u])
                     /\ vmarPc[u] = "install" => vmarCall[u].map \in maps[vmarCall[u].vmar]
                     /\ vmarPc[u] = "apply" => OpCall(vmarCall[u])
                     /\ vmarPc[u] = "child" => /\ vmarCall[u] \in Child
                                  /\ vmarCall[u].base + vmarCall[u].size <= NumPages)'
  BY Zenon DEF CallsHeld
<1>1. CASE u = t
  BY <1>1, VmarAssumption, Zenon DEF CallsHeld
<1>2. CASE u # t
  <2>1. vmarPc'[u] = vmarPc[u] /\ vmarCall'[u] = vmarCall[u]
    BY <1>2, Zenon
  <2>2. /\ vmarPc[u] \in {"record", "install"} <=> asLock = u
        /\ vmarPc[u] \in {"record", "install"} => MapCall(vmarCall[u])
        /\ vmarPc[u] = "install" => vmarCall[u].map \in maps[vmarCall[u].vmar]
        /\ vmarPc[u] = "apply" => OpCall(vmarCall[u])
        /\ vmarPc[u] = "child" => /\ vmarCall[u] \in Child
                                  /\ vmarCall[u].base + vmarCall[u].size <= NumPages
    BY Zenon DEF CallsHeld
  <2>3. vmarPc[u] \in {"record", "install"} <=> asLock' = u
    BY <1>2, <2>2, VmarAssumption, OneMapper, Zenon DEF CallsHeld
  <2>4. vmarPc[u] = "install" => vmarCall[u].map \in maps'[vmarCall[u].vmar]
    BY <1>2, <2>2, Zenon
  <2>5. (MapCall(vmarCall[u]) => MapCall(vmarCall[u])') /\ (OpCall(vmarCall[u]) => OpCall(vmarCall[u])')
    BY <2>1, Zenon DEF MapCall, OpCall
  <2> QED
    BY <2>1, <2>2, <2>3, <2>4, <2>5, Zenon
<1> QED
  BY <1>1, <1>2, Zenon

\* map records only what overlaps no record and no child.
LEMMA MapRecordStep ==
    ASSUME SpaceInv, NEW t \in VmarThreads, MapRecord(t)
    PROVE  SpaceInv'
<1> USE DEF SpaceInv
<1>1. vmarPc[t] = "record" /\ MapCall(vmarCall[t]) /\ UNCHANGED <<children, orphans, pte>>
  BY Zenon DEF MapRecord, CallsHeld
<1>2. PICK v \in Vmars, m \in Mapping : v = vmarCall[t].vmar /\ m = vmarCall[t].map /\ Fits(m)
  BY <1>1, Zenon DEF MapCall
<1>3. \A u \in VmarThreads \ {t} : vmarPc[u] # "record" /\ vmarPc[u] # "install"
  BY <1>1, OneMapper, Zenon
<1>4. m.vmo \in MapVmos
  BY MappedRange, <1>2, Zenon
<1>5. \A x \in MapVmos : /\ IsFiniteSet(RecordsOf(x)) /\ Cardinality(RecordsOf(x)) \in Nat
                         /\ refs[x] = Cardinality(RecordsOf(x)) + Promised(x)
  BY FS_CardinalityType, Zenon DEF RefsCounted
<1>6. /\ Promised(m.vmo) = 1 /\ \A x \in MapVmos \ {m.vmo} : Promised(x) = 0
  BY <1>1, <1>2, <1>3, Zenon DEF Promised
<1>7. CASE \E r \in maps[v] \cup Reserved(v) : Overlap(m, r)
  <2>1. /\ refs' = [refs EXCEPT ![m.vmo] = @ - 1] /\ asLock' = NoVmar /\ Return(t) /\ maps' = maps
    BY <1>2, <1>7, Zenon DEF MapRecord
  <2>2. /\ vmarPc' \in [VmarThreads -> Points] /\ vmarPc'[t] = "idle"
        /\ vmarCall' = [u \in VmarThreads |-> vmarCall'[u]]
        /\ \A u \in VmarThreads \ {t} : vmarPc'[u] = vmarPc[u] /\ vmarCall'[u] = vmarCall[u]
    BY <2>1, Returned, Zenon
  <2>3. PICK n \in Nat : n = refs[m.vmo] - 1
    BY <1>4, <1>5, <1>6
  <2>4. /\ refs' \in [MapVmos -> Nat] /\ refs'[m.vmo] = n
        /\ \A x \in MapVmos \ {m.vmo} : refs'[x] = refs[x]
    BY <1>4, <2>1, <2>3, Zenon DEF SpaceType
  <2>5. SpaceType'
    BY <1>1, <2>1, <2>2, <2>4, Zenon DEF SpaceType
  <2>6. CallsHeld'
    BY <1>1, <2>1, <2>2, OthersHeld, Zenon
  <2>7. \A w \in Vmars, k \in Mapping : Installed(w, k)' <=> Installed(w, k)
    BY <1>1, <2>1, <2>2, InstalledKept, Zenon
  <2>8. RecordsApart' /\ RecordsTrue' /\ PagesRecorded'
    BY <1>1, <2>7, RecordsKept, Zenon
  <2>9. RefsCounted'
    <3>1. \A x \in MapVmos : RecordsOf(x)' = RecordsOf(x)
      BY <2>1, Zenon DEF RecordsOf
    <3>2. \A x \in MapVmos : Promised(x)' = 0
      BY <1>3, <2>2, Zenon DEF Promised
    <3>3. \A x \in MapVmos : refs'[x] = Cardinality(RecordsOf(x))
      BY <1>4, <1>5, <1>6, <2>3, <2>4
    <3> QED
      BY <1>5, <3>1, <3>2, <3>3 DEF RefsCounted
  <2> QED
    BY <2>5, <2>6, <2>8, <2>9, Zenon
<1>8. CASE ~\E r \in maps[v] \cup Reserved(v) : Overlap(m, r)
  <2>1. /\ maps' = [maps EXCEPT ![v] = @ \cup {m}] /\ vmarPc' = [vmarPc EXCEPT ![t] = "install"]
        /\ UNCHANGED <<refs, asLock, vmarCall>>
    BY <1>2, <1>8, Zenon DEF MapRecord
  <2>2. /\ maps' \in [Vmars -> SUBSET Mapping] /\ maps'[v] = maps[v] \cup {m}
        /\ \A w \in Vmars \ {v} : maps'[w] = maps[w]
    BY <2>1, Zenon DEF SpaceType
  <2>3. /\ vmarPc' \in [VmarThreads -> Points] /\ vmarPc'[t] = "install"
        /\ \A u \in VmarThreads \ {t} : vmarPc'[u] = vmarPc[u]
    BY <2>1, Zenon DEF SpaceType, Points
  <2>4. m \notin maps[v]
    BY <1>2, <1>8, MappedRange, Zenon DEF Overlap
  <2>5. SpaceType'
    BY <1>1, <1>2, <2>1, <2>2, <2>3, Zenon DEF SpaceType
  <2>6. CallsHeld'
    <3> SUFFICES ASSUME NEW u \in VmarThreads
                 PROVE  (/\ vmarPc[u] \in {"record", "install"} <=> asLock = u
                         /\ vmarPc[u] \in {"record", "install"} => MapCall(vmarCall[u])
                         /\ vmarPc[u] = "install" => vmarCall[u].map \in maps[vmarCall[u].vmar]
                         /\ vmarPc[u] = "apply" => OpCall(vmarCall[u])
                         /\ vmarPc[u] = "child" => /\ vmarCall[u] \in Child
                                      /\ vmarCall[u].base + vmarCall[u].size <= NumPages)'
      BY Zenon DEF CallsHeld
    <3>1. CASE u = t
      BY <1>1, <1>2, <2>1, <2>2, <2>3, <3>1, Zenon DEF CallsHeld, MapCall
    <3>2. CASE u # t
      <4>1. vmarPc'[u] = vmarPc[u] /\ vmarPc[u] # "install"
        BY <1>3, <2>3, <3>2, Zenon
      <4> QED
        BY <2>1, <4>1, Zenon DEF CallsHeld, MapCall, OpCall
    <3> QED
      BY <3>1, <3>2, Zenon
  <2>7. \A w \in Vmars, k \in Mapping : Installed(w, k)' <=> Installed(w, k)
    <3> SUFFICES ASSUME NEW w \in Vmars, NEW k \in Mapping PROVE Installed(w, k)' <=> Installed(w, k)
      BY Zenon
    <3>1. ~Installing(w, k)
      BY <1>1, <1>3, Zenon DEF Installing
    <3>2. Installing(w, k)' <=> (w = v /\ k = m)
      BY <1>2, <1>3, <2>1, <2>3, Zenon DEF Installing
    <3>3. CASE w = v /\ k = m
      BY <2>4, <3>2, <3>3, Zenon DEF Installed
    <3>4. CASE w # v
      BY <2>2, <3>1, <3>2, <3>4, Zenon DEF Installed
    <3>5. CASE w = v /\ k # m
      BY <2>2, <3>1, <3>2, <3>5, Zenon DEF Installed
    <3> QED
      BY <3>3, <3>4, <3>5, Zenon
  <2>8. RecordsApart' /\ RecordsTrue' /\ PagesRecorded'
    BY <1>1, <2>7, RecordsKept, Zenon
  <2>9. RefsCounted'
    <3>2. \A x \in MapVmos : Promised(x)' = 0
      BY <1>3, <2>3, Zenon DEF Promised
    <3>3. \A x \in MapVmos :
            /\ IsFiniteSet(RecordsOf(x)')
            /\ x = m.vmo => Cardinality(RecordsOf(x)') = Cardinality(RecordsOf(x)) + 1
            /\ x # m.vmo => RecordsOf(x)' = RecordsOf(x)
      BY <1>5, <2>2, <2>4, RecordAdded, Zenon
    <3>4. \A x \in MapVmos : refs'[x] = Cardinality(RecordsOf(x)')
      BY <1>5, <1>6, <2>1, <3>3
    <3>5. \A x \in MapVmos : Cardinality(RecordsOf(x)') \in Nat
      BY <3>3, FS_CardinalityType, Zenon
    <3> QED
      BY <3>2, <3>3, <3>4, <3>5 DEF RefsCounted
  <2> QED
    BY <2>5, <2>6, <2>8, <2>9, Zenon
<1> QED
  BY <1>7, <1>8, Zenon

\* map installs the pages of its own record.
LEMMA MapInstallStep ==
    ASSUME SpaceInv, NEW t \in VmarThreads, MapInstall(t)
    PROVE  SpaceInv'
<1> USE DEF SpaceInv
<1>1. /\ vmarPc[t] = "install" /\ MapCall(vmarCall[t]) /\ UNCHANGED <<children, orphans>>
      /\ vmarCall[t].map \in maps[vmarCall[t].vmar] /\ asLock' = NoVmar /\ Return(t)
  BY Zenon DEF MapInstall, CallsHeld
<1>2. PICK v \in Vmars, m \in Mapping :
        v = vmarCall[t].vmar /\ m = vmarCall[t].map /\ Fits(m) /\ m \in maps[v]
  BY <1>1, Zenon DEF MapCall
<1>3. \A u \in VmarThreads \ {t} : vmarPc[u] # "record" /\ vmarPc[u] # "install"
  BY <1>1, OneMapper, Zenon
<1>4. /\ m.vmo \in MapVmos /\ RangeOf(m) \subseteq Pages
      /\ \A p \in RangeOf(m) : EntryAt(m, p) \in Entries /\ EntryAt(m, p) # NoVmar
  BY MappedRange, <1>2, Zenon
<1>5. \A x \in MapVmos : /\ IsFiniteSet(RecordsOf(x)) /\ Cardinality(RecordsOf(x)) \in Nat
                         /\ refs[x] = Cardinality(RecordsOf(x)) + Promised(x)
  BY FS_CardinalityType, Zenon DEF RefsCounted
<1>6. \A x \in MapVmos : Promised(x) = 0
  BY <1>1, <1>3, Zenon DEF Promised
<1>7. /\ vmarPc' \in [VmarThreads -> Points] /\ vmarPc'[t] = "idle"
      /\ vmarCall' = [u \in VmarThreads |-> vmarCall'[u]]
      /\ \A u \in VmarThreads \ {t} : vmarPc'[u] = vmarPc[u] /\ vmarCall'[u] = vmarCall[u]
  BY <1>1, Returned, Zenon
<1>8. CallsHeld'
  BY <1>1, <1>3, <1>7, OthersHeld, Zenon
<1>9. \A x \in MapVmos : Promised(x)' = 0
  BY <1>3, <1>7, Zenon DEF Promised
<1>10. \A w, k : Installing(w, k) <=> (w = v /\ k = m)
  BY <1>1, <1>2, <1>3, Zenon DEF Installing
<1>11. \A w, k : ~Installing(w, k)'
  BY <1>3, <1>7, Zenon DEF Installing
<1>12. CASE /\ \A p \in RangeOf(m) : pte[p] = NoVmar
            /\ pte' = [p \in Pages |-> IF p \in RangeOf(m) THEN EntryAt(m, p) ELSE pte[p]]
            /\ UNCHANGED <<maps, refs>>
  <2>1. /\ pte' \in [Pages -> Entries \cup {NoVmar}]
        /\ \A p \in RangeOf(m) : pte'[p] = EntryAt(m, p)
        /\ \A p \in Pages \ RangeOf(m) : pte'[p] = pte[p]
    BY <1>4, <1>12, Zenon DEF SpaceType
  <2>2. SpaceType'
    BY <1>1, <1>7, <1>12, <2>1, Zenon DEF SpaceType
  <2>3. \A w \in Vmars, k \in Mapping : Installed(w, k)' <=> Installed(w, k) \/ (w = v /\ k = m)
    BY <1>2, <1>10, <1>11, <1>12, Zenon DEF Installed
  <2>4. ASSUME NEW w \in Vmars, NEW k \in Mapping, Installed(w, k)
        PROVE  RangeOf(k) \subseteq Pages \ RangeOf(m)
    <3>1. Fits(k)
      BY <2>4, Zenon DEF Installed, SpaceType
    <3>2. \A p \in RangeOf(k) : p \in Pages /\ EntryAt(k, p) # NoVmar
      BY <3>1, MappedRange, Zenon
    <3>3. \A p \in RangeOf(k) : pte[p] = EntryAt(k, p)
      BY <2>4, Zenon DEF RecordsTrue
    <3> QED
      BY <1>12, <3>2, <3>3, Zenon
  <2>5. RecordsApart'
    <3>1. \A w \in Vmars, k \in Mapping : Installed(w, k) => ~Overlap(m, k) /\ ~Overlap(k, m)
      BY <2>4, Zenon DEF Overlap
    <3> QED
      BY <2>3, <3>1, Zenon DEF RecordsApart
  <2>6. RecordsTrue'
    BY <2>1, <2>3, <2>4, Zenon DEF RecordsTrue
  <2>7. PagesRecorded'
    <3> SUFFICES ASSUME NEW p \in Pages \ orphans, pte'[p] # NoVmar
                 PROVE  \E w \in Vmars, k \in Mapping : Installed(w, k)' /\ p \in RangeOf(k)
      BY <1>1, Zenon DEF PagesRecorded
    <3>1. CASE p \in RangeOf(m)
      BY <2>3, <3>1, Zenon
    <3>2. CASE p \notin RangeOf(m)
      BY <2>1, <2>3, <3>2, Zenon DEF PagesRecorded
    <3> QED
      BY <3>1, <3>2, Zenon
  <2>8. \A x \in MapVmos : Promised(x)' = Promised(x)
    BY <1>6, <1>9, Zenon
  <2>9. RefsCounted'
    BY <1>12, <2>8, RefsKept, Zenon
  <2> QED
    BY <1>8, <2>2, <2>5, <2>6, <2>7, <2>9, Zenon
<1>13. CASE /\ maps' = [maps EXCEPT ![v] = @ \ {m}]
            /\ refs' = [refs EXCEPT ![m.vmo] = @ - 1]
            /\ UNCHANGED pte
  <2>1. /\ maps' \in [Vmars -> SUBSET Mapping] /\ maps'[v] = (maps[v] \ {m}) \cup {}
        /\ \A w \in Vmars \ {v} : maps'[w] = maps[w]
    BY <1>13, Zenon DEF SpaceType
  <2>2. \A x \in MapVmos :
            /\ IsFiniteSet(RecordsOf(x)')
            /\ x = m.vmo => Cardinality(RecordsOf(x)') = Cardinality(RecordsOf(x)) - 1 + Cardinality({})
            /\ x # m.vmo => RecordsOf(x)' = RecordsOf(x)
    <3>1. IsFiniteSet({})
      BY FS_EmptySet, Zenon
    <3>2. {} \in SUBSET Mapping /\ \A n \in {} : n.vmo = m.vmo /\ n \notin maps[v] \ {m}
      BY Zenon
    <3> QED
      BY <1>2, <1>5, <2>1, <3>1, <3>2, RecordReplaced
  <2>3. \A x \in MapVmos : Cardinality(RecordsOf(x)') \in Nat
    BY <2>2, FS_CardinalityType, Zenon
  <2>4. Cardinality({}) = 0
    BY FS_EmptySet, Zenon
  <2>5. PICK n \in Nat : n = refs[m.vmo] - 1
    BY <1>4, <1>5, <1>6, <2>2, <2>3, <2>4
  <2>6. /\ refs' \in [MapVmos -> Nat] /\ refs'[m.vmo] = n
        /\ \A x \in MapVmos \ {m.vmo} : refs'[x] = refs[x]
    BY <1>4, <1>13, <2>5, Zenon DEF SpaceType
  <2>7. \A w \in Vmars : maps'[w] \subseteq maps[w]
    BY <2>1, Zenon
  <2>8. SpaceType'
    BY <1>1, <1>7, <1>13, <2>1, <2>6, <2>7, Zenon DEF SpaceType
  <2>9. \A w \in Vmars, k \in Mapping : Installed(w, k)' <=> Installed(w, k)
    <3> SUFFICES ASSUME NEW w \in Vmars, NEW k \in Mapping PROVE Installed(w, k)' <=> Installed(w, k)
      BY Zenon
    <3>1. CASE w = v /\ k = m
      BY <1>10, <2>1, <3>1, Zenon DEF Installed
    <3>2. CASE ~(w = v /\ k = m)
      <4>1. k \in maps'[w] <=> k \in maps[w]
        BY <2>1, <3>2, Zenon
      <4> QED
        BY <1>10, <1>11, <3>2, <4>1, Zenon DEF Installed
    <3> QED
      BY <3>1, <3>2, Zenon
  <2>10. RecordsApart' /\ RecordsTrue' /\ PagesRecorded'
    BY <1>1, <1>13, <2>9, RecordsKept, Zenon
  <2>11. \A x \in MapVmos : refs'[x] = Cardinality(RecordsOf(x)')
    BY <1>5, <1>6, <2>2, <2>3, <2>4, <2>5, <2>6
  <2>12. RefsCounted'
    BY <1>9, <2>2, <2>3, <2>11 DEF RefsCounted
  <2> QED
    BY <1>8, <2>8, <2>10, <2>12, Zenon
<1> QED
  BY <1>2, <1>12, <1>13, Zenon DEF MapInstall

\* unmap and protect begin with a covered range.
LEMMA OpBeginStep ==
    ASSUME SpaceInv, NEW t \in VmarThreads, OpBegin(t)
    PROVE  SpaceInv'
<1> USE DEF SpaceInv
<1>1. PICK v \in Vmars, m \in Mapping, a \in Pages, b \in 1 .. NumPages, prot \in Prots \cup {NoVmar} :
        /\ m \in maps[v] /\ m.base <= a /\ a < b /\ b <= m.base + m.size
        /\ vmarCall' = [vmarCall EXCEPT ![t] =
                          [vmar |-> v, map |-> m, from |-> a, to |-> b, prot |-> prot]]
  BY Zenon DEF OpBegin
<1>2. /\ vmarPc[t] = "idle" /\ vmarPc' = [vmarPc EXCEPT ![t] = "apply"]
      /\ UNCHANGED <<maps, children, orphans, pte, refs, asLock>>
  BY Zenon DEF OpBegin, vmas, vmos
<1>3. /\ vmarCall'[t].vmar = v /\ vmarCall'[t].map = m /\ vmarCall'[t].from = a
      /\ vmarCall'[t].to = b /\ vmarCall'[t].prot = prot
      /\ \A u \in VmarThreads \ {t} : vmarCall'[u] = vmarCall[u]
      /\ vmarCall' = [u \in VmarThreads |-> vmarCall'[u]]
  BY <1>1, Zenon DEF SpaceType
<1>4. /\ vmarPc' \in [VmarThreads -> Points] /\ vmarPc'[t] = "apply"
      /\ \A u \in VmarThreads \ {t} : vmarPc'[u] = vmarPc[u]
  BY <1>2, Zenon DEF SpaceType, Points
<1>5. SpaceType'
  BY <1>2, <1>3, <1>4, Zenon DEF SpaceType
<1>6. OpCall(vmarCall[t])'
  <2>1. Fits(m)
    BY <1>1, Zenon DEF SpaceType
  <2> QED
    BY <1>1, <1>3, <2>1, Zenon DEF OpCall, MapCall
<1>7. CallsHeld'
  <2> SUFFICES ASSUME NEW u \in VmarThreads
               PROVE  (/\ vmarPc[u] \in {"record", "install"} <=> asLock = u
                       /\ vmarPc[u] \in {"record", "install"} => MapCall(vmarCall[u])
                       /\ vmarPc[u] = "install" => vmarCall[u].map \in maps[vmarCall[u].vmar]
                       /\ vmarPc[u] = "apply" => OpCall(vmarCall[u])
                       /\ vmarPc[u] = "child" => /\ vmarCall[u] \in Child
                                    /\ vmarCall[u].base + vmarCall[u].size <= NumPages)'
    BY Zenon DEF CallsHeld
  <2>1. CASE u = t
    BY <1>2, <1>4, <1>6, <2>1, Zenon DEF CallsHeld
  <2>2. CASE u # t
    <3>1. vmarPc'[u] = vmarPc[u] /\ vmarCall'[u] = vmarCall[u]
      BY <1>3, <1>4, <2>2, Zenon
    <3> QED
      BY <1>2, <2>2, <3>1, Zenon DEF CallsHeld, MapCall, OpCall
  <2> QED
    BY <2>1, <2>2, Zenon
<1>8. \A w \in Vmars, k \in Mapping : Installed(w, k)' <=> Installed(w, k)
  BY <1>2, <1>3, <1>4, InstalledKept, Zenon
<1>9. RecordsApart' /\ RecordsTrue' /\ PagesRecorded'
  BY <1>2, <1>8, RecordsKept, Zenon
<1>10. \A x \in MapVmos : Promised(x)' = Promised(x)
  BY <1>2, <1>3, <1>4, PromisedKept, Zenon
<1>11. RefsCounted'
  BY <1>2, <1>10, RefsKept, Zenon
<1> QED
  BY <1>5, <1>7, <1>9, <1>11, Zenon

\* A piece of a record: the pages from a up to b, for the same VMO.
IsPiece(n, m, a, b) ==
    /\ n \in Mapping /\ Fits(n) /\ n.vmo = m.vmo /\ RangeOf(n) = a .. (b - 1)
    /\ \A p \in RangeOf(n) : n.off + (p - n.base) = m.off + (p - m.base)

\* A part of a mapping cut at its ends shows the same pages of its VMO.
LEMMA PieceOf ==
    ASSUME NEW m \in Mapping, Fits(m), NEW a \in Int, NEW b \in Int,
           m.base <= a, a < b, b <= m.base + m.size, NEW n \in Mapping,
           n.base = a, n.size = b - a, n.off = m.off + (a - m.base), n.vmo = m.vmo
    PROVE  IsPiece(n, m, a, b)
<1>1. /\ m.base \in Pages /\ m.size \in 1 .. NumPages /\ m.off \in 0 .. VmoSize - 1
  BY Zenon DEF Mapping
<1>2. Fits(n)
  BY <1>1, VmarAssumption DEF Fits, Pages
<1>3. RangeOf(n) = a .. (b - 1)
  BY DEF RangeOf
<1>4. ASSUME NEW p \in RangeOf(n) PROVE n.off + (p - n.base) = m.off + (p - m.base)
  BY <1>1, <1>4 DEF RangeOf, Pages
<1> QED
  BY <1>2, <1>3, <1>4, Zenon DEF IsPiece

\* What is left of a record around the pages from a up to b.
LEMMA UnmapPieces ==
    ASSUME NEW m \in Mapping, Fits(m), NEW a \in Pages, NEW b \in 1 .. NumPages,
           m.base <= a, a < b, b <= m.base + m.size
    PROVE  /\ IsFiniteSet(SplitForUnmap(m, a, b))
           /\ \A n \in SplitForUnmap(m, a, b) :
                /\ n.prot = m.prot
                /\ \/ IsPiece(n, m, m.base, a)
                   \/ IsPiece(n, m, b, m.base + m.size)
           /\ a > m.base => \E n \in SplitForUnmap(m, a, b) : IsPiece(n, m, m.base, a)
           /\ b < m.base + m.size =>
                \E n \in SplitForUnmap(m, a, b) : IsPiece(n, m, b, m.base + m.size)
           /\ \A n, k \in SplitForUnmap(m, a, b) :
                n # k => ~(IsPiece(n, m, m.base, a) /\ IsPiece(k, m, m.base, a))
                         /\ ~(IsPiece(n, m, b, m.base + m.size) /\ IsPiece(k, m, b, m.base + m.size))
<1> DEFINE L == [m EXCEPT !.size = a - m.base]
           R == [m EXCEPT !.base = b, !.size = (m.base + m.size) - b, !.off = @ + (b - m.base)]
           Ls == IF a > m.base THEN {L} ELSE {}
           Rs == IF b < m.base + m.size THEN {R} ELSE {}
<1>1. /\ m.base \in Pages /\ m.size \in 1 .. NumPages /\ m.off \in 0 .. VmoSize - 1
      /\ m.vmo \in MapVmos /\ m.prot \in Prots /\ a \in Int /\ b \in Int /\ NumPages \in Nat
      /\ VmoSize \in Nat /\ m.base \in Nat /\ m.off \in Nat
  BY VmarAssumption DEF Mapping, Pages
<1>2. a > m.base => IsPiece(L, m, m.base, a) /\ L.prot = m.prot
  <2> HAVE a > m.base
  <2>1. a - m.base \in 1 .. NumPages
    BY <1>1 DEF Pages
  <2>2. /\ L \in Mapping /\ L.base = m.base /\ L.size = a - m.base /\ L.off = m.off
        /\ L.vmo = m.vmo /\ L.prot = m.prot
    BY <2>1, Zenon DEF Mapping
  <2> HIDE DEF L
  <2>3. L.off = m.off + (m.base - m.base) /\ m.base \in Int /\ m.base <= m.base
        /\ m.base < a /\ a <= m.base + m.size
    BY <1>1, <2>2
  <2> QED
    BY <1>1, <2>2, <2>3, PieceOf, Zenon
<1>3. b < m.base + m.size => IsPiece(R, m, b, m.base + m.size) /\ R.prot = m.prot
  <2> HAVE b < m.base + m.size
  <2>1. /\ (m.base + m.size) - b \in 1 .. NumPages /\ b \in Pages
        /\ m.off + (b - m.base) \in 0 .. VmoSize - 1
    BY <1>1 DEF Pages, Fits
  <2>2. /\ R \in Mapping /\ R.base = b /\ R.size = (m.base + m.size) - b
        /\ R.off = m.off + (b - m.base) /\ R.vmo = m.vmo /\ R.prot = m.prot
    BY <2>1, Zenon DEF Mapping
  <2> HIDE DEF R
  <2>3. m.base + m.size \in Int /\ m.base <= b /\ m.base + m.size <= m.base + m.size
    BY <1>1
  <2> QED
    BY <1>1, <2>2, <2>3, PieceOf, Zenon
<1>4. SplitForUnmap(m, a, b) = Ls \cup Rs
  BY Zenon DEF SplitForUnmap
<1>5. IsFiniteSet(Ls) /\ IsFiniteSet(Rs)
  <2> HIDE DEF L, R
  <2> QED
    BY FS_EmptySet, FS_Singleton, Zenon
<1>6. IsFiniteSet(Ls \cup Rs)
  <2> HIDE DEF Ls, Rs
  <2> QED
    BY <1>5, FS_Union, Zenon
<1>7. (\A n \in Ls : n = L /\ a > m.base) /\ (\A n \in Rs : n = R /\ b < m.base + m.size)
      /\ (a > m.base => L \in Ls) /\ (b < m.base + m.size => R \in Rs)
  <2> HIDE DEF L, R
  <2> QED
    BY Zenon
<1> HIDE DEF L, R, Ls, Rs
<1>8. \A n : ~(IsPiece(n, m, m.base, a) /\ IsPiece(n, m, b, m.base + m.size))
  <2> SUFFICES ASSUME NEW n, IsPiece(n, m, m.base, a), IsPiece(n, m, b, m.base + m.size) PROVE FALSE
    BY Zenon
  <2>1. n \in Mapping /\ Fits(n) /\ RangeOf(n) = m.base .. (a - 1) /\ RangeOf(n) = b .. ((m.base + m.size) - 1)
    BY Zenon DEF IsPiece
  <2>2. n.base \in RangeOf(n)
    BY <2>1, MappedRange, Zenon
  <2>3. n.base <= a - 1 /\ b <= n.base
    <3>1. n.base \in m.base .. (a - 1) /\ n.base \in b .. ((m.base + m.size) - 1)
      BY <2>1, <2>2, Zenon
    <3> QED
      BY <1>1, <3>1
  <2>4. n.base \in Int
    BY <2>1 DEF Mapping, Pages
  <2> QED
    BY <1>1, <2>3, <2>4
<1>9. ASSUME NEW n \in Ls \cup Rs
      PROVE  /\ n.prot = m.prot
             /\ (IsPiece(n, m, m.base, a) /\ n = L) \/ (IsPiece(n, m, b, m.base + m.size) /\ n = R)
  BY <1>2, <1>3, <1>7, <1>9, Zenon
<1>10. \A n, k \in Ls \cup Rs :
         n # k => ~(IsPiece(n, m, m.base, a) /\ IsPiece(k, m, m.base, a))
                  /\ ~(IsPiece(n, m, b, m.base + m.size) /\ IsPiece(k, m, b, m.base + m.size))
  BY <1>8, <1>9, Zenon
<1> QED
  BY <1>2, <1>3, <1>4, <1>6, <1>7, <1>9, <1>10, Zenon

\* What unmapping (no protection) or protecting the pages from a up to b leaves
\* of a record: pieces apart from each other that describe every page it kept.
Replaces(N, m, a, b, prot) ==
    /\ IsFiniteSet(N) /\ N \subseteq Mapping
    /\ \A n \in N : Fits(n) /\ n.vmo = m.vmo /\ RangeOf(n) \subseteq RangeOf(m)
    /\ \A n, k \in N : n # k => ~Overlap(n, k)
    /\ \A n \in N : \A p \in RangeOf(n) :
         EntryAt(n, p) = IF p \in a .. (b - 1) THEN <<m.vmo, m.off + (p - m.base), prot>>
                         ELSE EntryAt(m, p)
    /\ prot = NoVmar => \A n \in N : RangeOf(n) \cap (a .. (b - 1)) = {}
    /\ \A p \in RangeOf(m) : p \notin a .. (b - 1) \/ prot # NoVmar => \E n \in N : p \in RangeOf(n)

\* unmap leaves the parts of a record on both sides of the range.
LEMMA UnmapReplaces ==
    ASSUME NEW m \in Mapping, Fits(m), NEW a \in Pages, NEW b \in 1 .. NumPages,
           m.base <= a, a < b, b <= m.base + m.size
    PROVE  Replaces(SplitForUnmap(m, a, b), m, a, b, NoVmar)
<1> DEFINE N == SplitForUnmap(m, a, b)
           e == m.base + m.size
<1>1. /\ m.base \in Int /\ m.size \in Int /\ e \in Int /\ a \in Int /\ b \in Int
      /\ RangeOf(m) = m.base .. (e - 1)
  BY VmarAssumption DEF Mapping, Pages, RangeOf
<1>2. /\ IsFiniteSet(N)
      /\ \A n \in N : n.prot = m.prot /\ (IsPiece(n, m, m.base, a) \/ IsPiece(n, m, b, e))
      /\ a > m.base => \E n \in N : IsPiece(n, m, m.base, a)
      /\ b < e => \E n \in N : IsPiece(n, m, b, e)
      /\ \A n, k \in N : n # k => /\ ~(IsPiece(n, m, m.base, a) /\ IsPiece(k, m, m.base, a))
                                  /\ ~(IsPiece(n, m, b, e) /\ IsPiece(k, m, b, e))
  BY UnmapPieces, Zenon
<1> HIDE DEF N, e
<1>3. \A n \in N : n \in Mapping /\ Fits(n) /\ n.vmo = m.vmo
  BY <1>2, Zenon DEF IsPiece
<1>4. \A n \in N : RangeOf(n) = m.base .. (a - 1) \/ RangeOf(n) = b .. (e - 1)
  BY <1>2, Zenon DEF IsPiece
<1>5. \A n \in N : RangeOf(n) \subseteq RangeOf(m) /\ RangeOf(n) \cap (a .. (b - 1)) = {}
  <2> SUFFICES ASSUME NEW n \in N, NEW p \in RangeOf(n) PROVE p \in RangeOf(m) /\ p \notin a .. (b - 1)
    BY Zenon
  <2>1. p \in m.base .. (a - 1) \/ p \in b .. (e - 1)
    BY <1>4, Zenon
  <2>2. p \in m.base .. (e - 1) /\ p \notin a .. (b - 1)
    BY <1>1, <2>1 DEF e
  <2> QED
    BY <1>1, <2>2, Zenon
<1>6. ASSUME NEW n \in N, NEW k \in N, n # k PROVE ~Overlap(n, k)
  <2>1. \/ IsPiece(n, m, m.base, a) /\ IsPiece(k, m, b, e)
        \/ IsPiece(k, m, m.base, a) /\ IsPiece(n, m, b, e)
    BY <1>2, <1>6, Zenon
  <2>2. \/ RangeOf(n) = m.base .. (a - 1) /\ RangeOf(k) = b .. (e - 1)
        \/ RangeOf(k) = m.base .. (a - 1) /\ RangeOf(n) = b .. (e - 1)
    BY <2>1, Zenon DEF IsPiece
  <2>3. (m.base .. (a - 1)) \cap (b .. (e - 1)) = {}
    BY <1>1
  <2> QED
    BY <2>2, <2>3, Zenon DEF Overlap
<1>7. ASSUME NEW n \in N, NEW p \in RangeOf(n)
      PROVE  EntryAt(n, p) = IF p \in a .. (b - 1) THEN <<m.vmo, m.off + (p - m.base), NoVmar>>
                             ELSE EntryAt(m, p)
  <2>1. n.off + (p - n.base) = m.off + (p - m.base) /\ n.vmo = m.vmo /\ n.prot = m.prot
    BY <1>2, Zenon DEF IsPiece
  <2>2. p \notin a .. (b - 1)
    BY <1>5, Zenon
  <2> QED
    BY <2>1, <2>2, Zenon DEF EntryAt
<1>8. ASSUME NEW p \in RangeOf(m), p \notin a .. (b - 1) PROVE \E n \in N : p \in RangeOf(n)
  <2>1. p \in Int /\ (p \in m.base .. (a - 1) \/ p \in b .. (e - 1))
    BY <1>1, <1>8
  <2>2. CASE p \in m.base .. (a - 1)
    <3>1. a > m.base
      BY <1>1, <2>2
    <3>2. PICK n \in N : IsPiece(n, m, m.base, a)
      BY <1>2, <3>1, Zenon
    <3> QED
      BY <2>2, <3>2, Zenon DEF IsPiece
  <2>3. CASE p \in b .. (e - 1)
    <3>1. b < e
      BY <1>1, <2>3
    <3>2. PICK n \in N : IsPiece(n, m, b, e)
      BY <1>2, <3>1, Zenon
    <3> QED
      BY <2>3, <3>2, Zenon DEF IsPiece
  <2> QED
    BY <2>1, <2>2, <2>3, Zenon
<1>9. N \subseteq Mapping
  BY <1>3, Zenon
<1> QED
  BY <1>2, <1>3, <1>5, <1>6, <1>7, <1>8, <1>9, Zenon DEF Replaces, N

\* protect leaves the parts on both sides, and the range itself with its new
\* rights.
LEMMA ProtectReplaces ==
    ASSUME NEW m \in Mapping, Fits(m), NEW a \in Pages, NEW b \in 1 .. NumPages,
           m.base <= a, a < b, b <= m.base + m.size, NEW prot \in Prots
    PROVE  Replaces(SplitForProtect(m, a, b, prot), m, a, b, prot)
<1> DEFINE U == SplitForUnmap(m, a, b)
           N == SplitForProtect(m, a, b, prot)
           M == [m EXCEPT !.base = a, !.size = b - a, !.off = @ + (a - m.base), !.prot = prot]
<1>1. /\ m.base \in Pages /\ m.size \in 1 .. NumPages /\ m.off \in 0 .. VmoSize - 1
      /\ m.vmo \in MapVmos /\ a \in Int /\ b \in Int /\ NumPages \in Nat
      /\ VmoSize \in Nat /\ m.base \in Nat /\ m.off \in Nat
      /\ RangeOf(m) = m.base .. (m.base + m.size - 1)
  BY VmarAssumption DEF Mapping, Pages, RangeOf
<1>2. b - a \in 1 .. NumPages /\ m.off + (a - m.base) \in 0 .. VmoSize - 1
  <2>1. m.size \in Int /\ m.off + m.size <= VmoSize /\ a >= 0 /\ b <= NumPages
    BY <1>1 DEF Fits, Pages
  <2>2. b - a \in 1 .. NumPages
    BY <1>1, <2>1
  <2>3. m.off + (a - m.base) \in 0 .. VmoSize - 1
    <3>1. /\ m.base \in Int /\ m.off \in Int /\ m.off >= 0 /\ m.base <= a /\ a < m.base + m.size
          /\ VmoSize \in Int /\ m.size \in Int /\ m.off + m.size <= VmoSize /\ a \in Int
      BY <1>1, <2>1
    <3> QED BY <3>1
  <2> QED
    BY <2>2, <2>3, Zenon
<1>3. /\ M \in Mapping /\ M.base = a /\ M.size = b - a /\ M.off = m.off + (a - m.base)
      /\ M.vmo = m.vmo /\ M.prot = prot
  BY <1>2, Zenon DEF Mapping
<1>4. N = U \cup {M}
  BY Zenon DEF SplitForProtect
<1>5. Replaces(U, m, a, b, NoVmar)
  BY UnmapReplaces, Zenon
<1> HIDE DEF U, N, M
<1>6. IsPiece(M, m, a, b)
  BY <1>1, <1>3, PieceOf, Zenon
<1>7. /\ Fits(M) /\ RangeOf(M) = a .. (b - 1)
      /\ \A p \in RangeOf(M) : M.off + (p - M.base) = m.off + (p - m.base)
  BY <1>6, Zenon DEF IsPiece
<1>8. RangeOf(M) \subseteq RangeOf(m)
  BY <1>1, <1>7
<1>9. \A p \in RangeOf(M) : EntryAt(M, p) = <<m.vmo, m.off + (p - m.base), prot>>
  BY <1>3, <1>7, Zenon DEF EntryAt
<1>10. /\ IsFiniteSet(U) /\ U \subseteq Mapping
       /\ \A n \in U : Fits(n) /\ n.vmo = m.vmo /\ RangeOf(n) \subseteq RangeOf(m)
       /\ \A n, k \in U : n # k => ~Overlap(n, k)
       /\ \A n \in U : RangeOf(n) \cap (a .. (b - 1)) = {}
       /\ \A n \in U : \A p \in RangeOf(n) : p \notin a .. (b - 1) => EntryAt(n, p) = EntryAt(m, p)
       /\ \A p \in RangeOf(m) : p \notin a .. (b - 1) => \E n \in U : p \in RangeOf(n)
  BY <1>5, Zenon DEF Replaces
<1>11. IsFiniteSet(N)
  BY <1>4, <1>10, FS_AddElement, Zenon
<1>12. \A n \in U : ~Overlap(n, M) /\ ~Overlap(M, n)
  BY <1>7, <1>10, Zenon DEF Overlap
<1>13. \A n, k \in N : n # k => ~Overlap(n, k)
  BY <1>4, <1>10, <1>12, Zenon
<1>14. ASSUME NEW n \in N, NEW p \in RangeOf(n)
       PROVE  EntryAt(n, p) = IF p \in a .. (b - 1) THEN <<m.vmo, m.off + (p - m.base), prot>>
                              ELSE EntryAt(m, p)
  <2>1. CASE n = M
    BY <1>7, <1>9, <2>1, Zenon
  <2>2. CASE n \in U
    <3>1. p \notin a .. (b - 1)
      BY <1>10, <2>2, Zenon
    <3> QED
      BY <1>10, <2>2, <3>1, Zenon
  <2> QED
    BY <1>4, <2>1, <2>2, Zenon
<1>15. \A p \in RangeOf(m) : \E n \in N : p \in RangeOf(n)
  BY <1>4, <1>7, <1>10, Zenon
<1>16. N \subseteq Mapping /\ \A n \in N : Fits(n) /\ n.vmo = m.vmo /\ RangeOf(n) \subseteq RangeOf(m)
  BY <1>3, <1>4, <1>7, <1>8, <1>10, Zenon
<1>17. prot # NoVmar
  BY VmarAssumption, Zenon
<1> QED
  BY <1>11, <1>13, <1>14, <1>15, <1>16, <1>17, Zenon DEF Replaces, N

\* The pages of one installed record change, and the record with them.
LEMMA PagesReplaced ==
    ASSUME SpaceType, SpaceType', RecordsApart, RecordsTrue, PagesRecorded,
           NEW v \in Vmars, NEW m \in Mapping, Installed(v, m), Fits(m),
           NEW a \in Int, NEW b \in Int, NEW prot, NEW N, Replaces(N, m, a, b, prot),
           a .. (b - 1) \subseteq RangeOf(m),
           maps'[v] = (maps[v] \ {m}) \cup N, \A w \in Vmars \ {v} : maps'[w] = maps[w],
           \A w, k : ~Installing(w, k) /\ ~Installing(w, k)',
           \A p \in Pages \ (a .. (b - 1)) : pte'[p] = pte[p],
           \A p \in a .. (b - 1) :
               pte'[p] = IF prot = NoVmar THEN NoVmar ELSE <<pte[p][1], pte[p][2], prot>>,
           UNCHANGED orphans
    PROVE  RecordsApart' /\ RecordsTrue' /\ PagesRecorded'
<1>1. /\ N \subseteq Mapping
      /\ \A n \in N : Fits(n) /\ RangeOf(n) \subseteq RangeOf(m)
      /\ \A n, k \in N : n # k => ~Overlap(n, k)
      /\ \A n \in N : \A p \in RangeOf(n) :
           EntryAt(n, p) = IF p \in a .. (b - 1) THEN <<m.vmo, m.off + (p - m.base), prot>>
                           ELSE EntryAt(m, p)
      /\ prot = NoVmar => \A n \in N : RangeOf(n) \cap (a .. (b - 1)) = {}
      /\ \A p \in RangeOf(m) : p \notin a .. (b - 1) \/ prot # NoVmar => \E n \in N : p \in RangeOf(n)
  BY Zenon DEF Replaces
<1>2. RangeOf(m) \subseteq Pages
  BY MappedRange, Zenon
<1>3. \A w \in Vmars, k \in Mapping :
        Installed(w, k)' <=> (Installed(w, k) /\ ~(w = v /\ k = m)) \/ (w = v /\ k \in N)
  <2> SUFFICES ASSUME NEW w \in Vmars, NEW k \in Mapping
               PROVE  Installed(w, k)' <=> (Installed(w, k) /\ ~(w = v /\ k = m)) \/ (w = v /\ k \in N)
    BY Zenon
  <2>1. (Installed(w, k) <=> k \in maps[w]) /\ (Installed(w, k)' <=> k \in maps'[w])
    BY Zenon DEF Installed
  <2> QED
    BY <2>1, Zenon
<1>4. \A w \in Vmars, k \in Mapping :
        Installed(w, k) /\ ~(w = v /\ k = m) => ~Overlap(k, m) /\ RangeOf(k) \subseteq Pages
  <2> SUFFICES ASSUME NEW w \in Vmars, NEW k \in Mapping, Installed(w, k), ~(w = v /\ k = m)
               PROVE  ~Overlap(k, m) /\ RangeOf(k) \subseteq Pages
    BY Zenon
  <2>1. ~Overlap(k, m)
    BY Zenon DEF RecordsApart
  <2>2. Fits(k)
    BY Zenon DEF Installed, SpaceType
  <2> QED
    BY <2>1, <2>2, MappedRange, Zenon
<1>5. \A w \in Vmars, k \in Mapping, n \in N :
        Installed(w, k) /\ ~(w = v /\ k = m) => ~Overlap(k, n) /\ ~Overlap(n, k)
  BY <1>1, <1>4, Zenon DEF Overlap
<1>6. RecordsApart'
  <2> SUFFICES ASSUME NEW w \in Vmars, NEW x \in Vmars, NEW k \in Mapping, NEW n \in Mapping,
                      Installed(w, k)', Installed(x, n)', w # x \/ k # n
               PROVE  ~Overlap(k, n)
    BY Zenon DEF RecordsApart
  <2>1. CASE Installed(w, k) /\ ~(w = v /\ k = m) /\ Installed(x, n) /\ ~(x = v /\ n = m)
    BY <2>1, Zenon DEF RecordsApart
  <2>2. CASE w = v /\ k \in N /\ x = v /\ n \in N
    BY <1>1, <2>2, Zenon
  <2>3. CASE w = v /\ k \in N /\ Installed(x, n) /\ ~(x = v /\ n = m)
    BY <1>5, <2>3, Zenon
  <2>4. CASE Installed(w, k) /\ ~(w = v /\ k = m) /\ x = v /\ n \in N
    BY <1>5, <2>4, Zenon
  <2> QED
    BY <1>3, <2>1, <2>2, <2>3, <2>4, Zenon
<1>7. \A p \in RangeOf(m) : pte[p] = EntryAt(m, p)
  BY Zenon DEF RecordsTrue
<1>8. RecordsTrue'
  <2> SUFFICES ASSUME NEW w \in Vmars, NEW k \in Mapping, Installed(w, k)', NEW p \in RangeOf(k)
               PROVE  pte'[p] = EntryAt(k, p)
    BY Zenon DEF RecordsTrue
  <2>1. CASE Installed(w, k) /\ ~(w = v /\ k = m)
    <3>1. p \in Pages /\ p \notin RangeOf(m)
      BY <1>4, <2>1, Zenon DEF Overlap
    <3>2. pte'[p] = pte[p]
      BY <3>1, Zenon
    <3>3. pte[p] = EntryAt(k, p)
      BY <2>1, Zenon DEF RecordsTrue
    <3> QED
      BY <3>2, <3>3, Zenon
  <2>2. CASE w = v /\ k \in N
    <3>1. p \in RangeOf(m) /\ p \in Pages
      BY <1>1, <1>2, <2>2, Zenon
    <3>2. CASE p \notin a .. (b - 1)
      <4>1. EntryAt(k, p) = EntryAt(m, p)
        BY <1>1, <2>2, <3>2, Zenon
      <4> QED
        BY <1>7, <3>1, <3>2, <4>1, Zenon
    <3>3. CASE p \in a .. (b - 1)
      <4>1. prot # NoVmar
        BY <1>1, <2>2, <3>3, Zenon
      <4>2. EntryAt(k, p) = <<m.vmo, m.off + (p - m.base), prot>>
        BY <1>1, <2>2, <3>3, Zenon
      <4>3. pte'[p] = <<pte[p][1], pte[p][2], prot>>
        BY <3>3, <4>1, Zenon
      <4>4. pte[p][1] = m.vmo /\ pte[p][2] = m.off + (p - m.base)
        BY <1>7, <3>1 DEF EntryAt
      <4> QED
        BY <4>2, <4>3, <4>4, Zenon
    <3> QED
      BY <3>2, <3>3, Zenon
  <2> QED
    BY <1>3, <2>1, <2>2, Zenon
<1>9. PagesRecorded'
  <2> SUFFICES ASSUME NEW p \in Pages \ orphans, pte'[p] # NoVmar
               PROVE  \E w \in Vmars, k \in Mapping : Installed(w, k)' /\ p \in RangeOf(k)
    BY Zenon DEF PagesRecorded
  <2>1. CASE p \in RangeOf(m)
    <3>1. p \notin a .. (b - 1) \/ prot # NoVmar
      BY Zenon
    <3>2. PICK n \in N : p \in RangeOf(n)
      BY <1>1, <2>1, <3>1, Zenon
    <3>3. Installed(v, n)' /\ n \in Mapping
      BY <1>1, <1>3, <3>2, Zenon
    <3> QED
      BY <3>2, <3>3, Zenon
  <2>2. CASE p \notin RangeOf(m)
    <3>1. pte'[p] = pte[p]
      BY <2>2, Zenon
    <3>2. PICK w \in Vmars, k \in Mapping : Installed(w, k) /\ p \in RangeOf(k)
      BY <3>1, Zenon DEF PagesRecorded
    <3>3. ~(w = v /\ k = m)
      BY <2>2, <3>2, Zenon
    <3> QED
      BY <1>3, <3>2, <3>3, Zenon
  <2> QED
    BY <2>1, <2>2, Zenon
<1> QED
  BY <1>6, <1>8, <1>9, Zenon

\* unmap and protect change records, pages and references together.
LEMMA OpApplyStep ==
    ASSUME SpaceInv, NEW t \in VmarThreads, OpApply(t)
    PROVE  SpaceInv'
<1> USE DEF SpaceInv
<1>1. /\ vmarPc[t] = "apply" /\ OpCall(vmarCall[t]) /\ asLock = NoVmar /\ Return(t)
      /\ UNCHANGED <<children, orphans, asLock>>
  BY Zenon DEF OpApply, CallsHeld
<1>2. PICK v \in Vmars, m \in Mapping, a \in Pages, b \in 1 .. NumPages, prot \in Prots \cup {NoVmar} :
        /\ v = vmarCall[t].vmar /\ m = vmarCall[t].map /\ Fits(m)
        /\ a = vmarCall[t].from /\ b = vmarCall[t].to /\ prot = vmarCall[t].prot
        /\ m.base <= a /\ a < b /\ b <= m.base + m.size
  BY <1>1, Zenon DEF OpCall, MapCall
<1>3. PICK N : N = IF prot = NoVmar THEN SplitForUnmap(m, a, b) ELSE SplitForProtect(m, a, b, prot)
  BY Zenon
<1>4. Replaces(N, m, a, b, prot)
  BY <1>2, <1>3, UnmapReplaces, ProtectReplaces, Zenon
<1>5. \A u \in VmarThreads : vmarPc[u] # "record" /\ vmarPc[u] # "install"
  BY <1>1, OneMapper, Zenon
<1>6. /\ vmarPc' \in [VmarThreads -> Points] /\ vmarPc'[t] = "idle"
      /\ vmarCall' = [u \in VmarThreads |-> vmarCall'[u]]
      /\ \A u \in VmarThreads \ {t} : vmarPc'[u] = vmarPc[u] /\ vmarCall'[u] = vmarCall[u]
  BY <1>1, Returned, Zenon
<1>7. CallsHeld'
  BY <1>1, <1>5, <1>6, OthersHeld, Zenon
<1>8. \A x \in MapVmos : Promised(x) = 0 /\ Promised(x)' = 0
  BY <1>5, <1>6, Zenon DEF Promised
<1>9. \A w, k : ~Installing(w, k) /\ ~Installing(w, k)'
  BY <1>5, <1>6, Zenon DEF Installing
<1>10. CASE UNCHANGED <<pte, maps, refs>>
  <2>1. SpaceType'
    BY <1>1, <1>6, <1>10, Zenon DEF SpaceType
  <2>2. \A w \in Vmars, k \in Mapping : Installed(w, k)' <=> Installed(w, k)
    BY <1>9, <1>10, Zenon DEF Installed
  <2>3. RecordsApart' /\ RecordsTrue' /\ PagesRecorded'
    BY <1>1, <1>10, <2>2, RecordsKept, Zenon
  <2>4. RefsCounted'
    BY <1>8, <1>10, RefsKept, Zenon
  <2> QED
    BY <1>7, <2>1, <2>3, <2>4, Zenon
<1>11. CASE /\ m \in maps[v]
            /\ pte' = [p \in Pages |-> IF p \notin a .. (b - 1) THEN pte[p]
                                       ELSE IF prot = NoVmar THEN NoVmar
                                       ELSE <<pte[p][1], pte[p][2], prot>>]
            /\ maps' = [maps EXCEPT ![v] = (@ \ {m}) \cup N]
            /\ refs' = AdjustRefs(m.vmo, Cardinality(N))
  <2>1. /\ IsFiniteSet(N) /\ N \subseteq Mapping
        /\ \A n \in N : Fits(n) /\ n.vmo = m.vmo /\ RangeOf(n) \subseteq RangeOf(m)
    BY <1>4, Zenon DEF Replaces
  <2>2. /\ maps' \in [Vmars -> SUBSET Mapping] /\ maps'[v] = (maps[v] \ {m}) \cup N
        /\ \A w \in Vmars \ {v} : maps'[w] = maps[w]
    BY <1>11, <2>1, Zenon DEF SpaceType
  <2>3. a .. (b - 1) \subseteq RangeOf(m) /\ RangeOf(m) \subseteq Pages /\ a \in Int /\ b \in Int
    <3>1. RangeOf(m) \subseteq Pages /\ m.base \in Pages /\ m.size \in 1 .. NumPages
      BY <1>2, MappedRange, Zenon
    <3> QED
      BY <1>2, <3>1, VmarAssumption DEF RangeOf, Pages
  <2>4. Installed(v, m)
    BY <1>9, <1>11, Zenon DEF Installed
  <2>5. \A p \in RangeOf(m) : pte[p] = EntryAt(m, p)
    BY <2>4, Zenon DEF RecordsTrue
  <2>6. /\ \A p \in Pages \ (a .. (b - 1)) : pte'[p] = pte[p]
        /\ \A p \in a .. (b - 1) :
               pte'[p] = IF prot = NoVmar THEN NoVmar ELSE <<pte[p][1], pte[p][2], prot>>
    BY <1>11, <2>3, Zenon
  <2>7. pte' \in [Pages -> Entries \cup {NoVmar}]
    <3>1. ASSUME NEW p \in Pages PROVE pte'[p] \in Entries \cup {NoVmar}
      <4>1. CASE p \notin a .. (b - 1)
        BY <2>6, <4>1, Zenon DEF SpaceType
      <4>2. CASE p \in a .. (b - 1)
        <5>1. pte[p] = EntryAt(m, p) /\ EntryAt(m, p) \in Entries
          BY <1>2, <2>3, <2>5, <4>2, MappedRange, Zenon
        <5>2. pte[p][1] \in MapVmos /\ pte[p][2] \in 0 .. VmoSize - 1
          BY <5>1, Zenon DEF Entries
        <5>3. prot # NoVmar => <<pte[p][1], pte[p][2], prot>> \in Entries
          BY <5>2, Zenon DEF Entries
        <5> QED
          BY <2>6, <4>2, <5>3, Zenon
      <4> QED
        BY <4>1, <4>2, Zenon
    <3>2. DOMAIN pte' = Pages /\ pte' = [p \in Pages |-> pte'[p]]
      BY <1>11, Zenon
    <3> QED
      BY <3>1, <3>2, Zenon
  <2>8. \A w \in Vmars, n \in Mapping : n \in maps'[w] => Fits(n)
    BY <2>1, <2>2, Zenon DEF SpaceType
  <2>9. \A n \in N : n \notin maps[v] \ {m}
    <3> SUFFICES ASSUME NEW n \in N, n \in maps[v], n # m PROVE FALSE
      BY Zenon
    <3>1. n \in Mapping /\ Fits(n) /\ RangeOf(n) \subseteq RangeOf(m)
      BY <2>1, Zenon
    <3>2. n.base \in RangeOf(n)
      BY <3>1, MappedRange, Zenon
    <3>3. Installed(v, n)
      BY <1>9, Zenon DEF Installed
    <3>4. ~Overlap(n, m)
      BY <2>4, <3>1, <3>3, Zenon DEF RecordsApart
    <3> QED
      BY <3>1, <3>2, <3>4, Zenon DEF Overlap
  <2>10. \A x \in MapVmos : /\ IsFiniteSet(RecordsOf(x)) /\ Cardinality(RecordsOf(x)) \in Nat
                            /\ refs[x] = Cardinality(RecordsOf(x))
    BY <1>8, FS_CardinalityType DEF RefsCounted
  <2>11. \A x \in MapVmos :
            /\ IsFiniteSet(RecordsOf(x)')
            /\ x = m.vmo => Cardinality(RecordsOf(x)') = Cardinality(RecordsOf(x)) - 1 + Cardinality(N)
            /\ x # m.vmo => RecordsOf(x)' = RecordsOf(x)
    BY <1>11, <2>1, <2>2, <2>9, <2>10, RecordReplaced
  <2>12. /\ \A x \in MapVmos : Cardinality(RecordsOf(x)') \in Nat
         /\ Cardinality(N) \in Nat
    BY <2>1, <2>11, FS_CardinalityType, Zenon
  <2>13. m.vmo \in MapVmos
    BY <1>2, MappedRange, Zenon
  <2>14. PICK k \in Nat : k = refs[m.vmo] + Cardinality(N) - 1
    <3>1. Cardinality(RecordsOf(m.vmo)) - 1 + Cardinality(N) \in Nat
      BY <2>11, <2>12, <2>13, Zenon
    <3>2. refs[m.vmo] = Cardinality(RecordsOf(m.vmo)) /\ Cardinality(RecordsOf(m.vmo)) \in Nat
      BY <2>10, <2>13, Zenon
    <3> QED
      BY <2>12, <3>1, <3>2
  <2>15. /\ refs' \in [MapVmos -> Nat] /\ refs'[m.vmo] = k
         /\ \A x \in MapVmos \ {m.vmo} : refs'[x] = refs[x]
    <3>1. refs' = [refs EXCEPT ![m.vmo] = k]
      BY <1>11, <2>14, Zenon DEF AdjustRefs
    <3> QED
      BY <2>13, <3>1, Zenon DEF SpaceType
  <2>16. SpaceType'
    BY <1>1, <1>6, <2>2, <2>7, <2>8, <2>15, Zenon DEF SpaceType
  <2>17. RecordsApart' /\ RecordsTrue' /\ PagesRecorded'
    BY <1>1, <1>2, <1>4, <1>9, <2>2, <2>3, <2>4, <2>6, <2>16, PagesReplaced
  <2>18. \A x \in MapVmos : refs'[x] = Cardinality(RecordsOf(x)')
    BY <2>10, <2>11, <2>12, <2>14, <2>15
  <2>19. RefsCounted'
    BY <1>8, <2>11, <2>12, <2>18 DEF RefsCounted
  <2> QED
    BY <1>7, <2>16, <2>17, <2>19, Zenon
<1> QED
  BY <1>2, <1>3, <1>10, <1>11, Zenon DEF OpApply

\* record_child's look at the mappings changes nothing.
LEMMA ChildCheckStep ==
    ASSUME SpaceInv, NEW t \in VmarThreads, ChildCheck(t)
    PROVE  SpaceInv'
<1> USE DEF SpaceInv
<1>1. PICK c \in Child :
        ContainsRange(RootVmar, c) /\ vmarCall' = [vmarCall EXCEPT ![t] = c]
  BY Zenon DEF ChildCheck
<1>2. /\ vmarPc[t] = "idle" /\ vmarPc' = [vmarPc EXCEPT ![t] = "child"]
      /\ UNCHANGED <<maps, children, orphans, pte, refs, asLock>>
  BY Zenon DEF ChildCheck, vmos
<1>3. /\ vmarCall'[t] = c /\ \A u \in VmarThreads \ {t} : vmarCall'[u] = vmarCall[u]
      /\ vmarCall' = [u \in VmarThreads |-> vmarCall'[u]]
  BY <1>1, Zenon DEF SpaceType
<1>4. /\ vmarPc' \in [VmarThreads -> Points] /\ vmarPc'[t] = "child"
      /\ \A u \in VmarThreads \ {t} : vmarPc'[u] = vmarPc[u]
  BY <1>2, Zenon DEF SpaceType, Points
<1>5. SpaceType'
  BY <1>2, <1>3, <1>4, Zenon DEF SpaceType
<1>6. c.base + c.size <= NumPages
  <2>1. c.base \in Pages /\ c.size \in 1 .. NumPages
    BY Zenon DEF Child
  <2>2. RangeOf(c) \subseteq Pages
    BY <1>1, Zenon DEF ContainsRange, Extent
  <2> QED
    BY <2>1, <2>2, VmarAssumption DEF RangeOf, Pages
<1>7. CallsHeld'
  <2> SUFFICES ASSUME NEW u \in VmarThreads
               PROVE  (/\ vmarPc[u] \in {"record", "install"} <=> asLock = u
                       /\ vmarPc[u] \in {"record", "install"} => MapCall(vmarCall[u])
                       /\ vmarPc[u] = "install" => vmarCall[u].map \in maps[vmarCall[u].vmar]
                       /\ vmarPc[u] = "apply" => OpCall(vmarCall[u])
                       /\ vmarPc[u] = "child" => /\ vmarCall[u] \in Child
                                    /\ vmarCall[u].base + vmarCall[u].size <= NumPages)'
    BY Zenon DEF CallsHeld
  <2>1. CASE u = t
    BY <1>2, <1>3, <1>4, <1>6, <2>1, Zenon DEF CallsHeld
  <2>2. CASE u # t
    <3>1. vmarPc'[u] = vmarPc[u] /\ vmarCall'[u] = vmarCall[u]
      BY <1>3, <1>4, <2>2, Zenon
    <3> QED
      BY <1>2, <2>2, <3>1, Zenon DEF CallsHeld, MapCall, OpCall
  <2> QED
    BY <2>1, <2>2, Zenon
<1>8. \A w \in Vmars, k \in Mapping : Installed(w, k)' <=> Installed(w, k)
  BY <1>2, <1>3, <1>4, InstalledKept, Zenon
<1>9. RecordsApart' /\ RecordsTrue' /\ PagesRecorded'
  BY <1>2, <1>8, RecordsKept, Zenon
<1>10. \A x \in MapVmos : Promised(x)' = Promised(x)
  BY <1>2, <1>3, <1>4, PromisedKept, Zenon
<1>11. RefsCounted'
  BY <1>2, <1>10, RefsKept, Zenon
<1> QED
  BY <1>5, <1>7, <1>9, <1>11, Zenon

\* record_child reserves a range that meets no other child.
LEMMA ChildReserveStep ==
    ASSUME SpaceInv, NEW t \in VmarThreads, ChildReserve(t)
    PROVE  SpaceInv'
<1> USE DEF SpaceInv
<1>1. /\ vmarPc[t] = "child" /\ Return(t) /\ UNCHANGED <<maps, orphans, pte, refs, asLock>>
      /\ children' = children \/ children' = children \cup {vmarCall[t]}
  BY Zenon DEF ChildReserve, vmos
<1>2. vmarCall[t] \in Child /\ vmarCall[t].base + vmarCall[t].size <= NumPages
  BY <1>1, Zenon DEF CallsHeld
<1>3. /\ vmarPc' \in [VmarThreads -> Points] /\ vmarPc'[t] = "idle"
      /\ vmarCall' = [u \in VmarThreads |-> vmarCall'[u]]
      /\ \A u \in VmarThreads \ {t} : vmarPc'[u] = vmarPc[u] /\ vmarCall'[u] = vmarCall[u]
  BY <1>1, Returned, Zenon
<1>4. SpaceType'
  BY <1>1, <1>2, <1>3, Zenon DEF SpaceType
<1>5. CallsHeld'
  BY <1>1, <1>3, OthersHeld, Zenon
<1>6. \A w \in Vmars, k \in Mapping : Installed(w, k)' <=> Installed(w, k)
  BY <1>1, <1>3, InstalledKept, Zenon
<1>7. RecordsApart' /\ RecordsTrue' /\ PagesRecorded'
  BY <1>1, <1>6, RecordsKept, Zenon
<1>8. \A x \in MapVmos : Promised(x)' = Promised(x)
  BY <1>1, <1>3, PromisedKept, Zenon
<1>9. RefsCounted'
  BY <1>1, <1>8, RefsKept, Zenon
<1> QED
  BY <1>4, <1>5, <1>7, <1>9, Zenon

\* Steps that touch none of it.
LEMMA SpaceSame ==
    ASSUME SpaceInv, UNCHANGED <<maps, children, orphans, pte, refs, asLock, vmarPc, vmarCall>>
    PROVE  SpaceInv'
<1>1. SpaceType' /\ CallsHeld'
  BY DEF SpaceInv, SpaceType, CallsHeld, MapCall, OpCall
<1>2. \A w \in Vmars, k \in Mapping : Installed(w, k)' <=> Installed(w, k)
  BY InstalledKept, Zenon
<1>3. RecordsApart' /\ RecordsTrue' /\ PagesRecorded'
  BY <1>2, RecordsKept, Zenon DEF SpaceInv
<1>4. \A x \in MapVmos : Promised(x)' = Promised(x)
  BY PromisedKept, Zenon
<1>5. RefsCounted'
  BY <1>4, RefsKept, Zenon DEF SpaceInv
<1> QED
  BY <1>1, <1>3, <1>5, Zenon DEF SpaceInv

\* The records of one VMAR as pairs.
LEMMA KidRecords ==
    ASSUME NEW k \in Vmars, NEW x, IsFiniteSet(RecordsOf(x)), maps[k] \subseteq Mapping,
           maps'[k] = {}, \A w \in Vmars \ {k} : maps'[w] = maps[w]
    PROVE  /\ IsFiniteSet(RecordsOf(x)')
           /\ Cardinality(RecordsOf(x)') =
                Cardinality(RecordsOf(x)) - Cardinality({m \in maps[k] : m.vmo = x})
           /\ Cardinality({m \in maps[k] : m.vmo = x}) \in Nat
<1> DEFINE K == {m \in maps[k] : m.vmo = x}
           P == {k} \X K
           S == RecordsOf(x)
           f == [q \in P |-> q[2]]
<1>1. P \in SUBSET S
  <2>1. ASSUME NEW q \in P PROVE q \in S
    <3>1. q = <<k, q[2]>> /\ q[2] \in K /\ q[1] = k
      OBVIOUS
    <3> QED
      BY <3>1, Zenon DEF RecordsOf
  <2> QED
    BY <2>1, Zenon
<1>2. IsFiniteSet(P)
  <2> HIDE DEF P
  <2> QED
    BY <1>1, FS_Subset, Zenon
<1>3. f \in Surjection(P, K)
  <2>1. f \in [P -> K]
    BY Zenon
  <2>2. \A m \in K : \E q \in P : f[q] = m
    <3> SUFFICES ASSUME NEW m \in K PROVE \E q \in P : f[q] = m
      BY Zenon
    <3>1. <<k, m>> \in P /\ f[<<k, m>>] = m
      BY Zenon
    <3> QED
      BY <3>1, Zenon
  <2> HIDE DEF f, P, K
  <2> QED
    BY <2>1, <2>2, Zenon DEF Surjection
<1>4. IsFiniteSet(K)
  <2> HIDE DEF f, P, K
  <2> QED
    BY <1>2, <1>3, FS_Surjection, Zenon
<1>5. Cardinality(P) = Cardinality({k}) * Cardinality(K) /\ Cardinality({k}) = 1 /\ IsFiniteSet({k})
  <2> HIDE DEF K
  <2> QED
    BY <1>4, FS_Product, FS_Singleton, Zenon
<1>6. Cardinality(K) \in Nat
  <2> HIDE DEF K
  <2> QED
    BY <1>4, FS_CardinalityType, Zenon
<1>7. RecordsOf(x)' = S \ P
  <2>1. ASSUME NEW q \in Vmars \X Mapping PROVE q \in RecordsOf(x)' <=> q \in S /\ q \notin P
    <3>1. q = <<q[1], q[2]>> /\ q[1] \in Vmars /\ q[2] \in Mapping
      OBVIOUS
    <3>2. CASE q[1] = k
      BY <3>1, <3>2, Zenon DEF RecordsOf
    <3>3. CASE q[1] # k
      BY <3>1, <3>3, Zenon DEF RecordsOf
    <3> QED
      BY <3>2, <3>3, Zenon
  <2>2. RecordsOf(x)' \subseteq Vmars \X Mapping /\ S \subseteq Vmars \X Mapping
    BY Zenon DEF RecordsOf
  <2> HIDE DEF S, P
  <2> QED
    BY <2>1, <2>2, Zenon
<1> HIDE DEF P, S
<1>8. IsFiniteSet(S \ P) /\ Cardinality(S \ P) \in Nat
  <2>1. IsFiniteSet(S) /\ S \ P \in SUBSET S
    BY Zenon DEF S
  <2>2. IsFiniteSet(S \ P)
    BY <2>1, FS_Subset, Zenon
  <2> QED
    BY <2>2, FS_CardinalityType, Zenon
<1>9. Cardinality((S \ P) \cup P) = Cardinality(S \ P) + Cardinality(P) - Cardinality((S \ P) \cap P)
  BY <1>2, <1>8, FS_Union, Zenon
<1>10. (S \ P) \cup P = S /\ (S \ P) \cap P = {} /\ Cardinality({}) = 0
  BY <1>1, FS_EmptySet, Zenon
<1>11. Cardinality(S \ P) = Cardinality(S) - Cardinality(K)
  <2>1. Cardinality(P) = Cardinality(K)
    BY <1>5, <1>6
  <2>2. Cardinality(S) = Cardinality(S \ P) + Cardinality(K) - 0
    BY <1>9, <1>10, <2>1, Zenon
  <2> QED
    BY <1>6, <1>8, <2>2
<1> QED
  BY <1>6, <1>7, <1>8, <1>11, Zenon DEF S

\* Dropping a child returns the references of its records.
LEMMA DropChildStep ==
    ASSUME SpaceInv, NEW k \in Kids, DropChild(k)
    PROVE  SpaceInv'
<1> USE DEF SpaceInv
<1>1. /\ maps' = [maps EXCEPT ![k] = {}] /\ k \in Vmars
      /\ orphans' = orphans \cup UNION {RangeOf(m) : m \in maps[k]}
      /\ children' = {c \in children : c.koid # k}
      /\ refs' = [v \in MapVmos |-> refs[v] - Cardinality({m \in maps[k] : m.vmo = v})]
      /\ UNCHANGED <<pte, asLock, vmarPc, vmarCall>>
      /\ \A t \in VmarThreads : vmarPc[t] \in {"record", "install", "apply"} => vmarCall[t].vmar # k
  BY Zenon DEF DropChild, Vmars
<1>2. /\ maps' \in [Vmars -> SUBSET Mapping] /\ maps'[k] = {}
      /\ \A w \in Vmars \ {k} : maps'[w] = maps[w]
      /\ maps[k] \subseteq Mapping
  BY <1>1, Zenon DEF SpaceType
<1>3. \A x \in MapVmos : IsFiniteSet(RecordsOf(x)) /\ refs[x] = Cardinality(RecordsOf(x)) + Promised(x)
  BY Zenon DEF RefsCounted
<1>4. \A x \in MapVmos : Promised(x)' = Promised(x) /\ Promised(x) \in Nat
  BY <1>1, Zenon DEF Promised
<1>5. \A x \in MapVmos :
        /\ IsFiniteSet(RecordsOf(x)')
        /\ Cardinality(RecordsOf(x)') =
             Cardinality(RecordsOf(x)) - Cardinality({m \in maps[k] : m.vmo = x})
        /\ Cardinality({m \in maps[k] : m.vmo = x}) \in Nat
  BY <1>1, <1>2, <1>3, KidRecords, Zenon
<1>6. \A x \in MapVmos : Cardinality(RecordsOf(x)) \in Nat /\ Cardinality(RecordsOf(x)') \in Nat
  BY <1>3, <1>5, FS_CardinalityType, Zenon
<1>7. \A x \in MapVmos : refs'[x] = Cardinality(RecordsOf(x)') + Promised(x)' /\ refs'[x] \in Nat
  <2> SUFFICES ASSUME NEW x \in MapVmos
               PROVE  refs'[x] = Cardinality(RecordsOf(x)') + Promised(x)' /\ refs'[x] \in Nat
    BY Zenon
  <2>1. PICK d \in Nat : d = Cardinality({m \in maps[k] : m.vmo = x})
    BY <1>5, Zenon
  <2>2. refs'[x] = refs[x] - d
    BY <1>1, <2>1, Zenon
  <2>3. Cardinality(RecordsOf(x)') = Cardinality(RecordsOf(x)) - d
    BY <1>5, <2>1, Zenon
  <2> QED
    BY <1>3, <1>4, <1>6, <2>2, <2>3
<1>8. RefsCounted'
  BY <1>5, <1>7, Zenon DEF RefsCounted
<1>9. refs' \in [MapVmos -> Nat]
  <2>1. refs' = [v \in MapVmos |-> refs'[v]]
    BY <1>1, Zenon
  <2> QED
    BY <1>7, <2>1, Zenon
<1>10. SpaceType'
  <2>1. \A v \in Vmars : \A m \in maps'[v] : Fits(m)
    BY <1>2, Zenon DEF SpaceType
  <2> QED
    BY <1>1, <1>2, <1>9, <2>1, Zenon DEF SpaceType
<1>11. CallsHeld'
  <2> SUFFICES ASSUME NEW u \in VmarThreads
               PROVE  vmarPc[u] = "install" => vmarCall[u].map \in maps'[vmarCall[u].vmar]
    BY <1>1, Zenon DEF CallsHeld, MapCall, OpCall
  <2> HAVE vmarPc[u] = "install"
  <2>1. vmarCall[u].vmar \in Vmars \ {k} /\ vmarCall[u].map \in maps[vmarCall[u].vmar]
    BY <1>1, Zenon DEF CallsHeld, MapCall
  <2> QED
    BY <1>2, <2>1, Zenon
<1>12. \A w, m : ~Installing(k, m) /\ (Installing(w, m)' <=> Installing(w, m))
  BY <1>1, Zenon DEF Installing
<1>13. \A w \in Vmars, m \in Mapping : Installed(w, m)' <=> Installed(w, m) /\ w # k
  BY <1>2, <1>12, Zenon DEF Installed
<1>14. RecordsApart'
  BY <1>13, Zenon DEF RecordsApart
<1>15. RecordsTrue'
  BY <1>1, <1>13, Zenon DEF RecordsTrue
<1>16. PagesRecorded'
  <2> SUFFICES ASSUME NEW p \in Pages \ orphans', pte[p] # NoVmar
               PROVE  \E w \in Vmars, m \in Mapping : Installed(w, m)' /\ p \in RangeOf(m)
    BY <1>1, Zenon DEF PagesRecorded
  <2>1. p \in Pages \ orphans
    BY <1>1, Zenon
  <2>2. PICK w \in Vmars, m \in Mapping : Installed(w, m) /\ p \in RangeOf(m)
    BY <2>1, Zenon DEF PagesRecorded
  <2>3. w # k
    <3> SUFFICES ASSUME w = k PROVE FALSE
      BY Zenon
    <3>1. m \in maps[k]
      BY <2>2, Zenon DEF Installed
    <3>2. p \in orphans'
      BY <1>1, <2>2, <3>1, Zenon
    <3> QED
      BY <3>2, Zenon
  <2> QED
    BY <1>13, <2>2, <2>3, Zenon
<1> QED
  BY <1>8, <1>10, <1>11, <1>14, <1>15, <1>16, Zenon

\* An empty address space satisfies the invariant.
LEMMA SpaceInitInv == VmarInit => SpaceInv
<1> HAVE VmarInit
<1>1. SpaceType
  BY VmarAssumption, Zenon DEF VmarInit, SpaceType, Points
<1>2. CallsHeld
  BY VmarAssumption, Zenon DEF VmarInit, CallsHeld
<1>3. \A v \in Vmars : maps[v] = {}
  BY Zenon DEF VmarInit
<1>4. \A v \in Vmars, m \in Mapping : ~Installed(v, m)
  BY <1>3, Zenon DEF Installed
<1>5. RecordsApart /\ RecordsTrue
  BY <1>4, Zenon DEF RecordsApart, RecordsTrue
<1>6. PagesRecorded
  BY Zenon DEF VmarInit, PagesRecorded
<1>7. \A x \in MapVmos : RecordsOf(x) = {} /\ Promised(x) = 0 /\ refs[x] = 0
  BY <1>3, Zenon DEF VmarInit, RecordsOf, Promised
<1>8. RefsCounted
  BY <1>7, FS_EmptySet DEF RefsCounted
<1> QED
  BY <1>1, <1>2, <1>5, <1>6, <1>8, Zenon DEF SpaceInv

\* Every step of every caller keeps records, pages and references in agreement.
LEMMA SpaceStep == SpaceInv /\ [VmarNext]_vmarVars => SpaceInv'
<1> SUFFICES ASSUME SpaceInv, [VmarNext]_vmarVars PROVE SpaceInv'
  BY Zenon
<1>1. CASE UNCHANGED vmarVars
  BY <1>1, SpaceSame, Zenon DEF vmarVars, vmas, vmos
<1>2. ASSUME NEW k \in Kids, CloseChild(k) PROVE SpaceInv'
  BY <1>2, SpaceSame, Zenon DEF CloseChild, vmos
<1>3. ASSUME NEW v \in MapVmos, CloseVmo(v) PROVE SpaceInv'
  BY <1>3, SpaceSame, Zenon DEF CloseVmo, vmas
<1> QED
  BY <1>1, <1>2, <1>3, MapBeginStep, MapRecordStep, MapInstallStep, OpBeginStep, OpApplyStep,
     ChildCheckStep, ChildReserveStep, DropChildStep, Zenon DEF VmarNext

\* The invariant is what the address space promises.
LEMMA SpaceSound == SpaceInv => AddressSpaceSound
<1> HAVE SpaceInv
<1> USE DEF SpaceInv
<1>1. RecordsDescribePages
  <2> SUFFICES ASSUME NEW m \in Records,
                      \A t \in VmarThreads : vmarPc[t] = "install" => vmarCall[t].map # m
               PROVE  \A p \in RangeOf(m) : pte[p] = EntryAt(m, p)
    BY Zenon DEF RecordsDescribePages
  <2>1. PICK v \in Vmars : m \in maps[v]
    BY Zenon DEF Records
  <2>2. m \in Mapping
    BY <2>1, Zenon DEF SpaceType
  <2>3. Installed(v, m)
    BY <2>1, Zenon DEF Installed, Installing
  <2> QED
    BY <2>2, <2>3, Zenon DEF RecordsTrue
<1>2. ASSUME NEW p \in Pages \ orphans, pte[p] # NoVmar
      PROVE  (\E m \in Records : p \in RangeOf(m)) /\ VmoAlive(pte[p][1])
  <2>1. PICK v \in Vmars, m \in Mapping : Installed(v, m) /\ p \in RangeOf(m)
    BY <1>2, Zenon DEF PagesRecorded
  <2>2. m \in maps[v] /\ m \in Records /\ m.vmo \in MapVmos
    BY <2>1, Zenon DEF Installed, Records, Mapping
  <2>3. pte[p] = EntryAt(m, p)
    BY <2>1, Zenon DEF RecordsTrue
  <2>4. pte[p][1] = m.vmo
    BY <2>3 DEF EntryAt
  <2>5. <<v, m>> \in RecordsOf(m.vmo)
    BY <2>2, Zenon DEF RecordsOf
  <2>6. /\ IsFiniteSet(RecordsOf(m.vmo)) /\ Promised(m.vmo) \in Nat
        /\ refs[m.vmo] = Cardinality(RecordsOf(m.vmo)) + Promised(m.vmo)
    BY <2>2, Zenon DEF RefsCounted, Promised
  <2>7. Cardinality(RecordsOf(m.vmo)) # 0 /\ Cardinality(RecordsOf(m.vmo)) \in Nat
    BY <2>5, <2>6, FS_EmptySet, FS_CardinalityType, Zenon
  <2>8. refs[m.vmo] > 0
    BY <2>6, <2>7
  <2> QED
    BY <2>1, <2>2, <2>4, <2>8, Zenon DEF VmoAlive
<1> QED
  BY <1>1, <1>2, Zenon DEF AddressSpaceSound, EveryPageRecorded, MappedFramesAlive

\* Whatever calls overlap and wherever one of them fails, the records describe
\* the page tables, no page is mapped unrecorded but for those a dropped child
\* VMAR left, and a mapped page belongs to a VMO that is alive
\* (map_vmo_into_vmar, unmap_vmar_mapping, protect_vmar_mapping, Drop for Vmar).
THEOREM AddressSpacesSound == VmarSpec => []AddressSpaceSound
BY SpaceInitInv, SpaceStep, SpaceSound, PTL DEF VmarSpec
=============================================================================
