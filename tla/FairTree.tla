------------------------------ MODULE FairTree ------------------------------
(***************************************************************************)
(* huesos-sched eevdf.rs: the runqueue of fair tasks, a search tree in a   *)
(* fixed arena, ordered by (virtual_start, task_id), in which every node   *)
(* carries the earliest virtual_finish of its subtree.  Operations are     *)
(* translated as functions on the arena; a step applies one operation, and *)
(* the set `queued` keeps, beside the tree, what its callers put in it.    *)
(***************************************************************************)
EXTENDS Integers, Sequences, FiniteSets, SequencesExt, FiniteSetsExt

CONSTANTS TreeSlots,     \* the arena, 1 .. N
          FairStarts, FairTasks, FairRequests

VARIABLES fairTree, queued
ftVars == <<fairTree, queued>>

Nil == 0
Absent == "absent"

KeyLess(a, b) == a[1] < b[1] \/ (a[1] = b[1] /\ a[2] < b[2])

\* Node::new
NewNode(key, finish) ==
    [parent |-> Nil, left |-> Nil, right |-> Nil, rank |-> 0,
     key |-> key, finish |-> finish, minFinish |-> finish]

FairInit ==
    /\ fairTree = [nodes |-> [s \in TreeSlots |-> Absent],
                   free |-> SetToSortSeq(TreeSlots, <), root |-> Nil]
    /\ queued = {}

Node(t, i) == t.nodes[i]
RankOf(t, i) == IF i = Nil THEN 0 ELSE Node(t, i).rank
AddRank(t, i, d) == [t EXCEPT !.nodes[i].rank = @ + d]

\* Makes the parent's link to `old` (the root link when there is no parent) name `new`.
Relink(t, parent, old, new) ==
    IF parent = Nil THEN [t EXCEPT !.root = new]
    ELSE IF Node(t, parent).left = old THEN [t EXCEPT !.nodes[parent].left = new]
    ELSE [t EXCEPT !.nodes[parent].right = new]

SetParent(t, i, p) == IF i = Nil THEN t ELSE [t EXCEPT !.nodes[i].parent = p]

RefreshNode(t, i) ==
    [t EXCEPT !.nodes[i].minFinish =
        Min({Node(t, i).finish} \cup
            {Node(t, c).minFinish : c \in {Node(t, i).left, Node(t, i).right} \ {Nil}})]

RECURSIVE RefreshAncestors(_, _)
RefreshAncestors(t, i) ==
    IF i = Nil THEN t
    ELSE LET u == RefreshNode(t, i) IN RefreshAncestors(u, Node(u, i).parent)

RotateRight(t, y) ==
    LET x == Node(t, y).left
        b == Node(t, x).right
        p == Node(t, y).parent
        a1 == [t EXCEPT !.nodes[x].right = y, !.nodes[y].parent = x, !.nodes[y].left = b]
        a2 == [SetParent(a1, b, y) EXCEPT !.nodes[x].parent = p]
    IN RefreshNode(RefreshNode(Relink(a2, p, y, x), y), x)

RotateLeft(t, x) ==
    LET y == Node(t, x).right
        b == Node(t, y).left
        p == Node(t, x).parent
        a1 == [t EXCEPT !.nodes[y].left = x, !.nodes[x].parent = y, !.nodes[x].right = b]
        a2 == [SetParent(a1, b, x) EXCEPT !.nodes[y].parent = p]
    IN RefreshNode(RefreshNode(Relink(a2, p, x, y), x), y)

-----------------------------------------------------------------------------
(* Insertion *)

RECURSIVE RebalanceAfterInsert(_, _)
RebalanceAfterInsert(t, n) ==
    LET p == Node(t, n).parent IN
    IF p = Nil THEN t
    ELSE IF Node(t, p).rank <= Node(t, n).rank + 1 THEN RebalanceAfterInsert(t, p)
    ELSE LET isLeft == Node(t, p).left = n
             grand == IF isLeft THEN Node(t, n).right ELSE Node(t, n).left
             In(u, i) == IF isLeft THEN RotateLeft(u, i) ELSE RotateRight(u, i)
             Out(u, i) == IF isLeft THEN RotateRight(u, i) ELSE RotateLeft(u, i)
         IN IF grand = Nil THEN RebalanceAfterInsert(Out(t, p), p)
            ELSE RebalanceAfterInsert(AddRank(AddRank(Out(In(t, n), p), grand, 1), n, -1), grand)

\* The descent of insert: the node below which the key goes, or the node that has it.
RECURSIVE Descend(_, _, _, _)
Descend(t, cur, parent, key) ==
    IF cur = Nil THEN parent
    ELSE IF Node(t, cur).key = key THEN cur
    ELSE Descend(t, IF KeyLess(key, Node(t, cur).key) THEN Node(t, cur).left
                    ELSE Node(t, cur).right, cur, key)

\* insert; a full arena and a key already present leave the tree as it was.
TreeInsert(t, key, finish) ==
    LET slot == Last(t.free)
        parent == Descend(t, t.root, Nil, key)
        a1 == [t EXCEPT !.free = Front(@), !.nodes[slot] = [NewNode(key, finish) EXCEPT !.parent = parent]]
        a2 == IF parent = Nil THEN [a1 EXCEPT !.root = slot]
              ELSE IF KeyLess(key, Node(t, parent).key) THEN [a1 EXCEPT !.nodes[parent].left = slot]
              ELSE [a1 EXCEPT !.nodes[parent].right = slot]
    IN IF t.free = <<>> THEN t
       ELSE IF parent # Nil /\ Node(t, parent).key = key THEN t
       ELSE RefreshAncestors(RebalanceAfterInsert(a2, slot), slot)

-----------------------------------------------------------------------------
(* Removal *)

RECURSIVE Leftmost(_, _)
Leftmost(t, i) == IF Node(t, i).left = Nil THEN i ELSE Leftmost(t, Node(t, i).left)

\* erase_single: unlinks a node with at most one child and frees its slot.
EraseSingle(t, s) ==
    LET p == Node(t, s).parent
        c == IF Node(t, s).left # Nil THEN Node(t, s).left ELSE Node(t, s).right
        u == SetParent(Relink(t, p, s, c), c, p)
    IN [u EXCEPT !.free = Append(@, s), !.nodes[s] = Absent]

RECURSIVE RebalanceAfterErase(_, _)
RebalanceAfterErase(t, n) ==
    LET l == RankOf(t, Node(t, n).left)
        r == RankOf(t, Node(t, n).right)
        heavyLeft == l > r
        child == IF heavyLeft THEN Node(t, n).left ELSE Node(t, n).right
        inner == IF heavyLeft THEN Node(t, child).right ELSE Node(t, child).left
        outer == IF heavyLeft THEN Node(t, child).left ELSE Node(t, child).right
        In(u, i) == IF heavyLeft THEN RotateLeft(u, i) ELSE RotateRight(u, i)
        Out(u, i) == IF heavyLeft THEN RotateRight(u, i) ELSE RotateLeft(u, i)
    IN IF Min({l, r}) = 0 /\ Max({l, r}) > 1
       THEN IF RankOf(t, inner) > RankOf(t, outer)
            THEN RebalanceAfterErase(
                     AddRank(AddRank(Out(In(t, child), n), inner, 1), child, -1), inner)
            ELSE RebalanceAfterErase(AddRank(Out(t, n), child, -1), child)
       ELSE IF Node(t, n).parent = Nil THEN t
       ELSE RebalanceAfterErase(t, Node(t, n).parent)

\* Mutant: only the successor's key is moved up, not its deadline.
EraseNodeKeepsFinish(t, s) ==
    LET succ == Leftmost(t, Node(t, s).right)
        two == Node(t, s).left # Nil /\ Node(t, s).right # Nil
        u == IF two THEN EraseSingle([t EXCEPT !.nodes[s].key = Node(t, succ).key], succ)
             ELSE EraseSingle(t, s)
        p == Node(t, IF two THEN succ ELSE s).parent
    IN IF p = Nil THEN u ELSE RefreshAncestors(RebalanceAfterErase(u, p), p)

\* erase_node: a node with two children takes over its successor's entry and the
\* successor's slot is freed instead; then the path to the root is repaired.
EraseNode(t, s) ==
    LET succ == Leftmost(t, Node(t, s).right)
        two == Node(t, s).left # Nil /\ Node(t, s).right # Nil
        moved == [t EXCEPT !.nodes[s].key = Node(t, succ).key,
                           !.nodes[s].finish = Node(t, succ).finish,
                           !.nodes[s].minFinish = Node(t, succ).minFinish]
        u == IF two THEN EraseSingle(moved, succ) ELSE EraseSingle(t, s)
        p == Node(t, IF two THEN succ ELSE s).parent
    IN IF p = Nil THEN u ELSE RefreshAncestors(RebalanceAfterErase(u, p), p)

-----------------------------------------------------------------------------
(* Reading *)

RECURSIVE CollectSorted(_, _)
CollectSorted(t, i) ==
    IF i = Nil THEN <<>>
    ELSE CollectSorted(t, Node(t, i).left) \o <<i>> \o CollectSorted(t, Node(t, i).right)

\* pick_eligible: the first of the in-order walk with the earliest finish.
PickEligible(t, now) ==
    FoldSeq(LAMBDA i, best :
                LET here == [key |-> Node(t, i).key, finish |-> Node(t, i).finish] IN
                IF /\ here.key[1] <= now
                   /\ \A c \in best : \/ here.finish < c.finish
                                      \/ here.finish = c.finish /\ KeyLess(here.key, c.key)
                THEN {here} ELSE best,
            {}, CollectSorted(t, t.root))

-----------------------------------------------------------------------------
Enqueue(key, finish) ==
    /\ fairTree' = TreeInsert(fairTree, key, finish)
    /\ queued' = IF fairTree.free = <<>> \/ \E q \in queued : q.key = key THEN queued
                 ELSE queued \cup {[key |-> key, finish |-> finish]}

Dequeue(key) ==
    /\ \E q \in queued : q.key = key
    /\ fairTree' = EraseNode(fairTree, Descend(fairTree, fairTree.root, Nil, key))
    /\ queued' = {q \in queued : q.key # key}

PopMin ==
    /\ fairTree.root # Nil
    /\ LET s == Leftmost(fairTree, fairTree.root) IN
       /\ fairTree' = EraseNode(fairTree, s)
       /\ queued' = {q \in queued : q.key # Node(fairTree, s).key}

FairNext ==
    \/ \E s \in FairStarts, i \in FairTasks, r \in FairRequests : Enqueue(<<s, i>>, s + r)
    \/ \E s \in FairStarts, i \in FairTasks : Dequeue(<<s, i>>)
    \/ PopMin

\* Whatever was queued and dequeued before, the tree holds exactly the queued
\* requests in key order, its links and its free list agree with that, every
\* subtree minimum is exact, and pick_eligible chooses, at any virtual time, an
\* eligible request that precedes every other.
TreeIsQueue ==
    LET t == fairTree
        walk == CollectSorted(t, t.root)
        eligible(now) == {q \in queued : q.key[1] <= now}
    IN /\ {[key |-> Node(t, i).key, finish |-> Node(t, i).finish] : i \in Range(walk)} = queued
       /\ \A a, b \in DOMAIN walk : a < b => KeyLess(Node(t, walk[a]).key, Node(t, walk[b]).key)
       /\ Range(walk) \cup Range(t.free) = TreeSlots
       /\ Len(walk) + Len(t.free) = Cardinality(TreeSlots)
       /\ \A i \in Range(walk) :
              /\ i = t.root <=> Node(t, i).parent = Nil
              /\ \A c \in {Node(t, i).left, Node(t, i).right} \ {Nil} : Node(t, c).parent = i
              /\ Node(t, i).minFinish = Min({Node(t, j).finish : j \in Range(CollectSorted(t, i))})
       /\ \A now \in FairStarts :
              PickEligible(t, now) =
                  {q \in eligible(now) : \A o \in eligible(now) \ {q} :
                      q.finish < o.finish \/ (q.finish = o.finish /\ KeyLess(q.key, o.key))}
=============================================================================
