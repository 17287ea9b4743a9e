--------------------------- MODULE TaskWakeProofs ---------------------------
(***************************************************************************)
(* Parking, waking, exiting and reaping never strand a runnable task, lose *)
(* a wake or end a sleep by mistake, for any number of CPUs, task slots,   *)
(* generations and workers.                                                *)
(***************************************************************************)
EXTENDS TaskWake, TLAPS

\* The directory and the task vectors name each other: a published entry names the
\* latest generation of its slot and a task that is there and not reaped, and
\* every task that is not reaped is published where it stands.
Placed ==
    \A s \in Slots : where[s] # None =>
        /\ where[s].id = <<s, generation[s]>> /\ s \in allocated
        /\ tasks[where[s].place] # None
        /\ tasks[where[s].place].id = where[s].id
        /\ ~tasks[where[s].place].reaped
Housed ==
    \A p \in Places : tasks[p] # None =>
        /\ tasks[p].id[2] <= generation[SlotOf(tasks[p].id)]
        /\ tasks[p].reaped => tasks[p].finished
        /\ ~tasks[p].reaped => /\ where[SlotOf(tasks[p].id)] # None
                               /\ where[SlotOf(tasks[p].id)].id = tasks[p].id
                               /\ where[SlotOf(tasks[p].id)].place = p

\* The current task of a CPU is awake, and has finished only on its way out.
CurrentAwake ==
    \A c \in Cpus :
        /\ current[c] # 0 =>
              /\ tasks[<<c, current[c]>>] # None
              /\ ~tasks[<<c, current[c]>>].reaped
              /\ ~tasks[<<c, current[c]>>].blocked
              /\ tasks[<<c, current[c]>>].finished => phase[c] \in {"exit", "tick"}
        /\ phase[c] = "exit" => current[c] # 0

\* Outside a drain nothing taken from the inbox is left over.
DrainClean == \A c \in Cpus : phase[c] # "drain" => todo[c] = {} /\ hand[c] = None

\* Only issued identities are woken; a waker that still finds its target finds it
\* at the place it looked up; a set flag and an unserved wake belong to a
\* published identity.
WakesIssued ==
    /\ \A i \in asked : i[2] <= generation[SlotOf(i)]
    /\ \A w \in Workers : pc[w] \in {"located", "post"} =>
           /\ target[w] \in asked /\ place[w] \in Places
           /\ Located(target[w]) => where[SlotOf(target[w])].place = place[w]
    /\ \A s \in Slots : flag[s] => where[s] # None /\ where[s].id \in asked
    /\ \A i \in owed : Located(i)

IInv == /\ TypeOK /\ Placed /\ Housed /\ CurrentAwake /\ DrainClean /\ WakesIssued
        /\ RunqueueExact /\ WakeOnItsWay

-----------------------------------------------------------------------------
(* Identities, places and helpers *)

\* Identities, places and None are apart and have their parts.
LEMMA Shapes ==
    /\ \A i \in Ids : /\ SlotOf(i) \in Slots /\ i[2] \in 1 .. MaxGen
                      /\ i = <<SlotOf(i), i[2]>> /\ i # None
    /\ \A s \in Slots, g \in 1 .. MaxGen :
          <<s, g>> \in Ids /\ SlotOf(<<s, g>>) = s /\ <<s, g>>[2] = g
    /\ \A p \in Places : p[1] \in Cpus /\ p[2] \in Indices /\ p = <<p[1], p[2]>> /\ p # None
    /\ \A c \in Cpus, n \in Indices : <<c, n>> \in Places /\ <<c, n>>[1] = c /\ <<c, n>>[2] = n
    /\ 0 \notin Indices
BY WakeAssumption DEF Ids, Places, SlotOf

\* A published identity is the task that stands at its place.
LEMMA LocatedTask ==
    ASSUME TypeOK, Placed, NEW i \in Ids, Located(i)
    PROVE  /\ where[SlotOf(i)].place \in Places
           /\ tasks[where[SlotOf(i)].place] \in Task
           /\ tasks[where[SlotOf(i)].place].id = i
           /\ ~tasks[where[SlotOf(i)].place].reaped
<1>1. SlotOf(i) \in Slots
  BY Shapes, Zenon
<1>2. where[SlotOf(i)] \in Entry
  BY <1>1, Zenon DEF Located, TypeOK
<1> QED BY <1>1, <1>2, Zenon DEF Located, TypeOK, Placed, Entry

\* What apply_local_wake does to the task it is called for, and to nothing else.
LEMMA AppliedWake ==
    ASSUME TypeOK, Placed, NEW i \in Ids, Located(i), ApplyWake(i)
    PROVE  LET p == where[SlotOf(i)].place IN
           /\ tasks' \in [Places -> Task \cup {None}]
           /\ \A q \in Places \ {p} : tasks'[q] = tasks[q]
           /\ tasks'[p] \in Task /\ tasks'[p].id = i /\ ~tasks'[p].blocked
           /\ tasks'[p].finished = tasks[p].finished /\ ~tasks'[p].reaped
           /\ fair' = IF ~tasks[p].finished /\ tasks[p].blocked
                      THEN [fair EXCEPT ![p[1]] = @ \cup {i}] ELSE fair
           /\ owed' = owed \ {i}
<1> DEFINE p == where[SlotOf(i)].place
<1>1. p \in Places /\ tasks[p] \in Task /\ tasks[p].id = i /\ ~tasks[p].reaped
  BY LocatedTask, Zenon
<1>2. tasks \in [Places -> Task \cup {None}]
  BY Zenon DEF TypeOK
<1> HIDE DEF p
<1>3. tasks' = [tasks EXCEPT ![p].blocked = FALSE,
                             ![p].pending = ~tasks[p].finished /\ ~tasks[p].blocked]
  BY Zenon DEF ApplyWake, p
<1>4. tasks'[p] = [tasks[p] EXCEPT !.blocked = FALSE,
                                   !.pending = ~tasks[p].finished /\ ~tasks[p].blocked]
  BY <1>1, <1>2, <1>3, Zenon
<1>5. tasks'[p] \in Task /\ tasks'[p].id = i /\ ~tasks'[p].blocked
      /\ tasks'[p].finished = tasks[p].finished /\ ~tasks'[p].reaped
  BY <1>1, <1>4, Zenon DEF Task
<1>6. tasks' \in [Places -> Task \cup {None}] /\ \A q \in Places \ {p} : tasks'[q] = tasks[q]
  BY <1>2, <1>3, <1>5, Zenon
<1> QED BY <1>5, <1>6, Zenon DEF ApplyWake, p

-----------------------------------------------------------------------------
(* The scheduler's choice *)

\* With tasks ts and current index n, the ids that belong in the fair queue of c.
CanRunIn(ts, p) == ts[p] # None /\ ~ts[p].finished /\ ~ts[p].blocked
QueueOf(ts, n, c) == {ts[p].id : p \in {q \in Places : q[1] = c /\ CanRunIn(ts, q) /\ q[2] # n}}

\* tick and park_current on an exact queue: no key is stale, what is chosen can run
\* and the rest stays queued.
LEMMA Picked ==
    ASSUME TypeOK, Housed, NEW c \in Cpus, NEW ts \in [Places -> Task \cup {None}],
           \A p \in Places : /\ ts[p] = None <=> tasks[p] = None
                             /\ ts[p] # None => /\ ts[p].id = tasks[p].id
                                                /\ ts[p].reaped = tasks[p].reaped
                                                /\ ts[p].reaped => ts[p].finished,
           PickNext(c, ts, QueueOf(ts, current[c], c))
    PROVE  \E n \in Indices \cup {0} :
               /\ current' = [current EXCEPT ![c] = n]
               /\ fair' = [fair EXCEPT ![c] = QueueOf(ts, n, c)]
               /\ phase' = [phase EXCEPT ![c] = IF n = current[c] THEN "run" ELSE "switch"]
               /\ n # 0 => CanRunIn(ts, <<c, n>>)
<1> DEFINE q == QueueOf(ts, current[c], c)
           CanRun(i) == /\ Located(i) /\ where[SlotOf(i)].place[1] = c
                        /\ LET t == ts[where[SlotOf(i)].place]
                           IN  t # None /\ t.id = i /\ ~t.finished /\ ~t.blocked
           mine == IF current[c] = 0 THEN None ELSE ts[<<c, current[c]>>]
           keys == IF mine # None /\ ~mine.finished /\ ~mine.blocked THEN q \cup {mine.id} ELSE q
           ready == {i \in keys : CanRun(i)}
           Run(n, rest) == /\ current' = [current EXCEPT ![c] = n]
                           /\ fair' = [fair EXCEPT ![c] = rest]
                           /\ phase' = [phase EXCEPT ![c] = IF n = current[c] THEN "run" ELSE "switch"]
<1>1. \/ ready = {} /\ Run(0, {})
      \/ \E i \in ready, stale \in SUBSET (keys \ ready) :
             Run(where[SlotOf(i)].place[2], keys \ (stale \cup {i}))
  BY Zenon DEF PickNext
<1>2. current[c] \in Indices \cup {0} /\ 0 \notin Indices
  BY Shapes, Zenon DEF TypeOK
\* Every runnable task of c is published where it stands.
<1>3. ASSUME NEW p \in Places, p[1] = c, CanRunIn(ts, p)
      PROVE  /\ ts[p].id \in Ids /\ Located(ts[p].id) /\ where[SlotOf(ts[p].id)].place = p
  <2>1. ts[p] \in Task
    BY <1>3, Zenon DEF CanRunIn
  <2>2. ~tasks[p].reaped /\ tasks[p] # None /\ tasks[p].id = ts[p].id
    BY <1>3, Zenon DEF CanRunIn
  <2> QED BY <2>1, <2>2, Zenon DEF Housed, Located, Task
<1>4. keys = QueueOf(ts, 0, c)
  <2>1. CASE current[c] = 0
    BY <2>1, <1>2, Shapes DEF QueueOf
  <2>2. CASE current[c] # 0
    <3> DEFINE m == <<c, current[c]>>
    <3>1. m \in Places /\ m[1] = c /\ m[2] = current[c] /\ mine = ts[m]
      BY <2>2, <1>2, Shapes, Zenon
    <3>2. \A p \in Places : p[1] = c /\ p[2] = current[c] => p = m
      BY Shapes
    <3>3. \A p \in Places : p[2] # 0
      BY <1>2, Shapes
    <3> HIDE DEF m
    <3>4. CASE CanRunIn(ts, m)
      <4>1. keys = q \cup {ts[m].id}
        BY <3>1, <3>4, Zenon DEF CanRunIn
      <4> HIDE DEF keys, mine
      <4> QED BY <4>1, <3>1, <3>2, <3>3, <3>4 DEF QueueOf
    <3>5. CASE ~CanRunIn(ts, m)
      <4>1. keys = q
        BY <3>1, <3>5, Zenon DEF CanRunIn
      <4> HIDE DEF keys, mine
      <4> QED BY <4>1, <3>1, <3>2, <3>3, <3>5, Zenon DEF QueueOf
    <3> QED BY <3>4, <3>5, Zenon
  <2> QED BY <2>1, <2>2, Zenon
<1> HIDE DEF keys, mine
<1>5. \A i \in keys : CanRun(i)
  <2> SUFFICES ASSUME NEW i \in keys PROVE CanRun(i)
    BY Zenon
  <2>1. PICK p \in Places : p[1] = c /\ CanRunIn(ts, p) /\ i = ts[p].id
    BY <1>4, Zenon DEF QueueOf
  <2> QED BY <2>1, <1>3, Zenon DEF CanRunIn
<1>6. ready = keys
  BY <1>5, Zenon
<1>7. CASE ready = {} /\ Run(0, {})
  <2>1. QueueOf(ts, 0, c) = {}
    BY <1>4, <1>6, <1>7, Zenon
  <2> QED BY <1>7, <2>1, Zenon
<1>8. CASE \E i \in ready, stale \in SUBSET (keys \ ready) :
             Run(where[SlotOf(i)].place[2], keys \ (stale \cup {i}))
  <2>1. PICK i \in keys : Run(where[SlotOf(i)].place[2], keys \ {i})
    <3>1. keys \ ready = {}
      BY <1>6, Zenon
    <3>2. PICK i \in ready, stale \in SUBSET (keys \ ready) :
             Run(where[SlotOf(i)].place[2], keys \ (stale \cup {i}))
      BY <1>8, Zenon
    <3>3. stale = {}
      BY <3>1, <3>2, Zenon
    <3>4. keys \ (stale \cup {i}) = keys \ {i}
      BY <3>3, Zenon
    <3> QED BY <3>2, <3>4, <1>6, Zenon
  <2>2. PICK p \in Places : p[1] = c /\ CanRunIn(ts, p) /\ i = ts[p].id
    BY <1>4, Zenon DEF QueueOf
  <2>3. where[SlotOf(i)].place = p
    BY <2>2, <1>3, Zenon
  <2>4. p[2] \in Indices /\ p = <<c, p[2]>> /\ p[2] # 0
    BY <2>2, <1>2, Shapes
  <2>5. keys \ {i} = QueueOf(ts, p[2], c)
    <3>1. \A r \in Places : r[1] = c /\ CanRunIn(ts, r) /\ ts[r].id = i => r = p
      BY <1>3, <2>2
    <3>2. \A r \in Places : r[1] = c /\ r[2] = p[2] => r = p
      BY <2>2, Shapes
    <3>3. \A r \in Places : r[2] # 0
      BY <1>2, Shapes
    <3> QED BY <1>4, <2>2, <3>1, <3>2, <3>3 DEF QueueOf
  <2>6. Run(p[2], QueueOf(ts, p[2], c)) /\ CanRunIn(ts, <<c, p[2]>>)
    BY <2>1, <2>2, <2>3, <2>4, <2>5, Zenon
  <2>7. p[2] \in Indices \cup {0}
    BY <2>4, Zenon
  <2> QED BY <2>6, <2>7, Zenon
<1> QED BY <1>1, <1>7, <1>8, Zenon

-----------------------------------------------------------------------------
(* The tasks: publication, the current tasks and the fair queues *)

TasksOk == Placed /\ Housed /\ CurrentAwake /\ RunqueueExact

\* RunqueueExact, with the queue named.
LEMMA ExactQueue ==
    /\ RunqueueExact <=> \A c \in Cpus : fair[c] = QueueOf(tasks, current[c], c)
    /\ RunqueueExact' <=> \A c \in Cpus : fair'[c] = QueueOf(tasks', current'[c], c)
BY Zenon DEF RunqueueExact, QueueOf, CanRunIn, Runnable

\* A step of c that leaves tasks alone and does not run or end a task.
LEMMA TasksKept ==
    ASSUME TypeOK, TasksOk, UNCHANGED <<identity, tasks, fair, current>>,
           \A c \in Cpus : \/ phase'[c] = phase[c]
                           \/ phase[c] = "run" /\ phase'[c] = "drain"
                           \/ phase[c] = "drain" /\ phase'[c] = "tick"
                           \/ phase[c] = "switch" /\ phase'[c] = "run"
                           \/ phase[c] = "exit" /\ phase'[c] = "tick"
    PROVE  TasksOk'
<1>1. Placed' /\ Housed'
  BY Zenon DEF TasksOk, Placed, Housed, identity
<1>2. CurrentAwake'
  BY Zenon DEF TasksOk, CurrentAwake
<1>3. RunqueueExact'
  BY Zenon DEF TasksOk, RunqueueExact, Runnable
<1> QED BY <1>1, <1>2, <1>3, Zenon DEF TasksOk

\* apply_local_wake: a parked task becomes runnable and is queued.
LEMMA WakeKeepsTasks ==
    ASSUME TypeOK, TasksOk, NEW i \in Ids, Located(i), ApplyWake(i),
           UNCHANGED <<identity, current, phase>>
    PROVE  TasksOk'
<1> DEFINE p == where[SlotOf(i)].place
<1>1. p \in Places /\ tasks[p] \in Task /\ tasks[p].id = i /\ ~tasks[p].reaped /\ tasks[p] # None
  BY LocatedTask, NoneAssumption, Zenon DEF TasksOk
<1>2. /\ \A q \in Places \ {p} : tasks'[q] = tasks[q]
      /\ tasks'[p] \in Task /\ tasks'[p].id = i /\ ~tasks'[p].blocked
      /\ tasks'[p].finished = tasks[p].finished /\ ~tasks'[p].reaped
      /\ fair' = IF ~tasks[p].finished /\ tasks[p].blocked
                 THEN [fair EXCEPT ![p[1]] = @ \cup {i}] ELSE fair
  BY AppliedWake, Zenon DEF TasksOk
<1>3. tasks'[p] # None /\ p[1] \in Cpus /\ p[2] \in Indices /\ p = <<p[1], p[2]>>
  BY <1>1, <1>2, NoneAssumption, Shapes, Zenon
<1> HIDE DEF p
<1>4. UNCHANGED <<generation, allocated, where>>
  BY Zenon DEF identity
<1>5. Placed'
  BY <1>1, <1>2, <1>3, <1>4 DEF TasksOk, Placed, TypeOK, Entry
<1>6. Housed'
  BY <1>1, <1>2, <1>3, <1>4 DEF TasksOk, Housed
<1>7. CurrentAwake'
  BY <1>1, <1>2, <1>3, Shapes DEF TasksOk, CurrentAwake, TypeOK
<1>8. RunqueueExact'
  <2> SUFFICES ASSUME NEW c \in Cpus PROVE fair'[c] = QueueOf(tasks', current[c], c)
    BY ExactQueue, Zenon
  <2>1. fair[c] = QueueOf(tasks, current[c], c) /\ fair \in [Cpus -> SUBSET Ids]
    BY ExactQueue, Zenon DEF TasksOk, TypeOK
  <2>2. \A q \in Places \ {p} : CanRunIn(tasks', q) <=> CanRunIn(tasks, q)
    BY <1>2, Zenon DEF CanRunIn
  <2>3. CASE ~tasks[p].finished /\ tasks[p].blocked /\ p[1] = c
    <3>1. p[2] # current[c]
      BY <2>3, <1>3, Shapes DEF TasksOk, CurrentAwake
    <3>2. CanRunIn(tasks', p) /\ ~CanRunIn(tasks, p)
      BY <2>3, <1>2, <1>3, Zenon DEF CanRunIn
    <3>3. QueueOf(tasks', current[c], c) = QueueOf(tasks, current[c], c) \cup {i}
      BY <2>2, <2>3, <3>1, <3>2, <1>1, <1>2 DEF QueueOf
    <3>4. fair'[c] = fair[c] \cup {i}
      BY <2>1, <2>3, <1>2, Zenon
    <3> QED BY <2>1, <3>3, <3>4, Zenon
  <2>4. CASE ~(~tasks[p].finished /\ tasks[p].blocked /\ p[1] = c)
    <3>1. fair'[c] = fair[c]
      BY <2>1, <2>4, <1>2, <1>3, Zenon
    <3>2. p[1] = c => (CanRunIn(tasks', p) <=> CanRunIn(tasks, p))
      BY <2>4, <1>1, <1>2, <1>3, Zenon DEF CanRunIn, Task
    <3>3. QueueOf(tasks', current[c], c) = QueueOf(tasks, current[c], c)
      BY <2>2, <3>2, <1>1, <1>2 DEF QueueOf
    <3> QED BY <2>1, <3>1, <3>3, Zenon
  <2> QED BY <2>3, <2>4, Zenon
<1> QED BY <1>5, <1>6, <1>7, <1>8, Zenon DEF TasksOk

\* add_task: a free slot and a free place get a runnable task, which is queued.
LEMMA SpawnKeepsTasks ==
    ASSUME TypeOK, TasksOk, NEW w \in Workers, NEW c \in Cpus, Spawn(w, c)
    PROVE  TasksOk'
<1>1. PICK s \in Slots, p \in Places :
         /\ SlotFree(s) /\ FreshPlace(c, p)
         /\ LET i == <<s, generation[s] + 1>>
            IN  /\ generation' = [generation EXCEPT ![s] = @ + 1]
                /\ allocated' = allocated \cup {s}
                /\ where' = [where EXCEPT ![s] = [id |-> i, place |-> p]]
                /\ tasks' = [tasks EXCEPT ![p] = [id |-> i, blocked |-> FALSE, pending |-> FALSE,
                                                  finished |-> FALSE, reaped |-> FALSE]]
                /\ fair' = [fair EXCEPT ![c] = @ \cup {i}]
  BY Zenon DEF Spawn
<1> DEFINE i == <<s, generation[s] + 1>>
           t == [id |-> i, blocked |-> FALSE, pending |-> FALSE, finished |-> FALSE, reaped |-> FALSE]
<1>2. s \notin allocated /\ where[s] = None /\ generation[s] \in Nat /\ generation[s] < MaxGen
  BY <1>1 DEF SlotFree, TypeOK, TasksOk, Placed
<1>3. i \in Ids /\ SlotOf(i) = s /\ i[2] = generation[s] + 1
  <2>1. generation[s] + 1 \in 1 .. MaxGen
    BY <1>2, WakeAssumption
  <2> QED BY <2>1, Shapes, Zenon
<1>4. t \in Task /\ t # None /\ t.id = i /\ ~t.blocked /\ ~t.finished /\ ~t.reaped
  <2>1. t \in Task
    BY <1>3, Zenon DEF Task
  <2> QED BY <2>1, NoneAssumption, Zenon
<1>5. p[1] = c /\ (tasks[p] = None \/ tasks[p].reaped) /\ p = <<c, p[2]>> /\ p[2] \in Indices
  BY <1>1, Shapes, Zenon DEF FreshPlace
<1>6. /\ generation' = [generation EXCEPT ![s] = generation[s] + 1]
      /\ allocated' = allocated \cup {s}
      /\ where' = [where EXCEPT ![s] = [id |-> i, place |-> p]]
      /\ tasks' = [tasks EXCEPT ![p] = t]
      /\ fair' = [fair EXCEPT ![c] = fair[c] \cup {i}]
      /\ UNCHANGED <<current, phase>>
  BY <1>1, Zenon DEF Spawn, cpu
<1>7. [id |-> i, place |-> p] \in Entry /\ [id |-> i, place |-> p] # None
  BY <1>3, NoneAssumption DEF Entry
<1> HIDE DEF i, t
<1>8. /\ tasks'[p] = t /\ \A q \in Places \ {p} : tasks'[q] = tasks[q]
      /\ where'[s].id = i /\ where'[s].place = p /\ where'[s] # None
      /\ \A r \in Slots \ {s} : where'[r] = where[r] /\ generation'[r] = generation[r]
      /\ generation'[s] = generation[s] + 1
      /\ fair'[c] = fair[c] \cup {i} /\ \A d \in Cpus \ {c} : fair'[d] = fair[d]
  BY <1>6, <1>7, Zenon DEF TypeOK
\* No published identity stands at p: it is free.
<1>9. \A r \in Slots : where[r] # None => where[r].place # p /\ where[r].place \in Places
  BY <1>5 DEF TypeOK, TasksOk, Placed, Entry
<1>10. Placed'
  BY <1>2, <1>3, <1>4, <1>6, <1>8, <1>9 DEF TasksOk, Placed, i
<1>11. \A q \in Places : tasks[q] # None =>
          tasks[q] \in Task /\ SlotOf(tasks[q].id) \in Slots /\ tasks[q].id[2] \in Nat
  BY Shapes DEF TypeOK, Task
<1>12. Housed'
  <2> SUFFICES ASSUME NEW q \in Places, tasks'[q] # None
               PROVE  /\ tasks'[q].id[2] <= generation'[SlotOf(tasks'[q].id)]
                      /\ tasks'[q].reaped => tasks'[q].finished
                      /\ ~tasks'[q].reaped => /\ where'[SlotOf(tasks'[q].id)] # None
                                              /\ where'[SlotOf(tasks'[q].id)].id = tasks'[q].id
                                              /\ where'[SlotOf(tasks'[q].id)].place = q
    BY Zenon DEF Housed
  <2>1. CASE q = p
    BY <2>1, <1>2, <1>3, <1>4, <1>8
  <2>2. CASE q # p
    <3>1. tasks'[q] = tasks[q] /\ tasks[q] # None
      BY <2>2, <1>8, Zenon
    <3>2. CASE SlotOf(tasks[q].id) = s
      BY <3>1, <3>2, <1>2, <1>8, <1>11 DEF TasksOk, Housed
    <3>3. CASE SlotOf(tasks[q].id) # s
      BY <3>1, <3>3, <1>8, <1>11 DEF TasksOk, Housed
    <3> QED BY <3>2, <3>3, Zenon
  <2> QED BY <2>1, <2>2, Zenon
<1>13. \A d \in Cpus : current[d] # 0 => <<d, current[d]>> # p /\ <<d, current[d]>> \in Places
  BY <1>5, Shapes DEF TypeOK, TasksOk, CurrentAwake
<1>14. CurrentAwake'
  BY <1>6, <1>8, <1>13 DEF TasksOk, CurrentAwake
<1>15. RunqueueExact'
  <2> SUFFICES ASSUME NEW d \in Cpus PROVE fair'[d] = QueueOf(tasks', current[d], d)
    BY <1>6, ExactQueue, Zenon
  <2>1. fair[d] = QueueOf(tasks, current[d], d)
    BY ExactQueue, Zenon DEF TasksOk
  <2>2. \A q \in Places \ {p} : CanRunIn(tasks', q) <=> CanRunIn(tasks, q)
    BY <1>8, Zenon DEF CanRunIn
  <2>3. CanRunIn(tasks', p) /\ ~CanRunIn(tasks, p)
    BY <1>4, <1>5, <1>8, Zenon DEF CanRunIn, TasksOk, Housed
  <2>4. CASE d = c
    <3>1. p[2] # current[c]
      BY <1>5, <1>13, Shapes
    <3>2. QueueOf(tasks', current[c], c) = QueueOf(tasks, current[c], c) \cup {i}
      BY <2>2, <2>3, <3>1, <1>4, <1>5, <1>8 DEF QueueOf
    <3> QED BY <2>1, <2>4, <3>2, <1>8, Zenon
  <2>5. CASE d # c
    <3>1. QueueOf(tasks', current[d], d) = QueueOf(tasks, current[d], d)
      BY <2>2, <2>5, <1>5, <1>8 DEF QueueOf
    <3> QED BY <2>1, <2>5, <3>1, <1>8, Zenon
  <2> QED BY <2>4, <2>5, Zenon
<1> QED BY <1>10, <1>12, <1>14, <1>15, Zenon DEF TasksOk

\* A step that changes the task at p in place keeps the publication.
LEMMA TaskChanged ==
    ASSUME TypeOK, TasksOk, UNCHANGED identity, NEW p \in Places, tasks[p] # None,
           NEW t \in Task, tasks' = [tasks EXCEPT ![p] = t],
           t.id = tasks[p].id, t.reaped = tasks[p].reaped,
           tasks[p].finished => t.finished
    PROVE  /\ Placed' /\ Housed' /\ t # None /\ tasks'[p] = t
           /\ \A q \in Places \ {p} : tasks'[q] = tasks[q]
<1>1. t # None /\ tasks'[p] = t /\ \A q \in Places \ {p} : tasks'[q] = tasks[q]
  BY NoneAssumption, Zenon DEF TypeOK
<1>2. UNCHANGED <<generation, allocated, where>>
  BY Zenon DEF identity
<1>3. Placed'
  BY <1>1, <1>2 DEF TasksOk, Placed, TypeOK, Entry
<1>4. Housed'
  BY <1>1, <1>2 DEF TasksOk, Housed
<1> QED BY <1>1, <1>3, <1>4, Zenon

\* The scheduler's choice on an exact queue keeps the current tasks and the queues.
LEMMA PickKeepsTasks ==
    ASSUME TypeOK, TasksOk, NEW c \in Cpus, Placed', Housed',
           tasks' \in [Places -> Task \cup {None}],
           \A p \in Places : /\ tasks'[p] = None <=> tasks[p] = None
                             /\ tasks'[p] # None => /\ tasks'[p].id = tasks[p].id
                                                    /\ tasks'[p].reaped = tasks[p].reaped
                                                    /\ tasks'[p].reaped => tasks'[p].finished,
           \A p \in Places : p[1] # c => tasks'[p] = tasks[p],
           PickNext(c, tasks', QueueOf(tasks', current[c], c))
    PROVE  TasksOk'
<1>1. PICK n \in Indices \cup {0} :
         /\ current' = [current EXCEPT ![c] = n]
         /\ fair' = [fair EXCEPT ![c] = QueueOf(tasks', n, c)]
         /\ phase' = [phase EXCEPT ![c] = IF n = current[c] THEN "run" ELSE "switch"]
         /\ n # 0 => CanRunIn(tasks', <<c, n>>)
  <2> DEFINE ts == tasks'
  <2>1. ts \in [Places -> Task \cup {None}]
    BY Zenon
  <2>2. PickNext(c, ts, QueueOf(ts, current[c], c))
    BY Zenon
  <2>3. \A p \in Places : /\ ts[p] = None <=> tasks[p] = None
                          /\ ts[p] # None => /\ ts[p].id = tasks[p].id
                                             /\ ts[p].reaped = tasks[p].reaped
                                             /\ ts[p].reaped => ts[p].finished
    BY Zenon
  <2> HIDE DEF ts
  <2>4. Housed
    BY Zenon DEF TasksOk
  <2>5. \E n \in Indices \cup {0} :
         /\ current' = [current EXCEPT ![c] = n]
         /\ fair' = [fair EXCEPT ![c] = QueueOf(ts, n, c)]
         /\ phase' = [phase EXCEPT ![c] = IF n = current[c] THEN "run" ELSE "switch"]
         /\ n # 0 => CanRunIn(ts, <<c, n>>)
    BY <2>1, <2>2, <2>3, <2>4, Picked, Zenon
  <2> QED BY <2>5, Zenon DEF ts
<1>2. /\ current'[c] = n /\ phase'[c] \in {"run", "switch"} /\ fair'[c] = QueueOf(tasks', n, c)
      /\ \A d \in Cpus \ {c} : current'[d] = current[d] /\ phase'[d] = phase[d] /\ fair'[d] = fair[d]
  BY <1>1, Zenon DEF TypeOK
<1>3. CurrentAwake'
  <2> SUFFICES ASSUME NEW d \in Cpus
               PROVE  /\ current'[d] # 0 =>
                           /\ tasks'[<<d, current'[d]>>] # None
                           /\ ~tasks'[<<d, current'[d]>>].reaped
                           /\ ~tasks'[<<d, current'[d]>>].blocked
                           /\ tasks'[<<d, current'[d]>>].finished => phase'[d] \in {"exit", "tick"}
                      /\ phase'[d] = "exit" => current'[d] # 0
    BY Zenon DEF CurrentAwake
  <2>1. CASE d = c
    BY <2>1, <1>1, <1>2, Shapes, Zenon DEF CanRunIn
  <2>2. CASE d # c
    <3>1. current[d] # 0 => <<d, current[d]>> \in Places /\ <<d, current[d]>>[1] = d
      BY Shapes DEF TypeOK
    <3> QED BY <2>2, <3>1, <1>2 DEF TasksOk, CurrentAwake
  <2> QED BY <2>1, <2>2, Zenon
<1>4. RunqueueExact'
  <2> SUFFICES ASSUME NEW d \in Cpus PROVE fair'[d] = QueueOf(tasks', current'[d], d)
    BY ExactQueue, Zenon
  <2>1. CASE d = c
    BY <2>1, <1>2, Zenon
  <2>2. CASE d # c
    <3>1. fair[d] = QueueOf(tasks, current[d], d)
      BY ExactQueue, Zenon DEF TasksOk
    <3>2. QueueOf(tasks', current[d], d) = QueueOf(tasks, current[d], d)
      BY <2>2 DEF QueueOf, CanRunIn
    <3> QED BY <2>2, <3>1, <3>2, <1>2, Zenon
  <2> QED BY <2>1, <2>2, Zenon
<1> QED BY <1>3, <1>4, Zenon DEF TasksOk

\* tick
LEMMA TickKeepsTasks ==
    ASSUME TypeOK, TasksOk, NEW c \in Cpus, Tick(c)
    PROVE  TasksOk'
<1>1. UNCHANGED <<identity, tasks>> /\ PickNext(c, tasks, fair[c])
  BY Zenon DEF Tick
<1>2. Placed' /\ Housed'
  BY <1>1, Zenon DEF TasksOk, Placed, Housed, identity
<1>3. fair[c] = QueueOf(tasks, current[c], c)
  BY ExactQueue, Zenon DEF TasksOk
<1>4. tasks \in [Places -> Task \cup {None}] /\ \A p \in Places : tasks[p] # None /\ tasks[p].reaped => tasks[p].finished
  BY Zenon DEF TypeOK, TasksOk, Housed
<1> QED BY <1>1, <1>2, <1>3, <1>4, PickKeepsTasks, Zenon

\* park_current: only a task without a pending wake goes to sleep, and it leaves the CPU.
LEMMA ParkKeepsTasks ==
    ASSUME TypeOK, TasksOk, NEW c \in Cpus, Park(c)
    PROVE  TasksOk'
<1> DEFINE p == <<c, current[c]>>
           i == tasks[p].id
<1>1. p \in Places /\ p[1] = c /\ p[2] = current[c] /\ tasks[p] # None /\ tasks[p] \in Task
  <2>1. current[c] \in Indices
    BY Zenon DEF Park, TypeOK
  <2> QED BY <2>1, Shapes DEF Park, TasksOk, CurrentAwake, TypeOK
<1>2. \A q \in Places : q[1] = c /\ q[2] = current[c] => q = p
  BY Shapes, Zenon
<1>3. UNCHANGED identity /\ fair[c] = QueueOf(tasks, current[c], c) /\ fair \in [Cpus -> SUBSET Ids]
  BY ExactQueue, Zenon DEF Park, TasksOk, TypeOK
<1>4. i \notin fair[c]
  <2>1. ASSUME i \in fair[c] PROVE FALSE
    <3>1. PICK q \in Places : q[1] = c /\ q[2] # current[c] /\ CanRunIn(tasks, q) /\ i = tasks[q].id
      BY <2>1, <1>3, Zenon DEF QueueOf
    <3>2. ~tasks[q].reaped
      BY <3>1, Zenon DEF CanRunIn, TasksOk, Housed
    <3>3. ~tasks[p].reaped
      BY <1>1, Zenon DEF TasksOk, CurrentAwake, Park
    <3>4. q = p
      BY <3>1, <3>2, <3>3, <1>1 DEF TasksOk, Housed, CanRunIn
    <3> QED BY <3>1, <3>4, <1>1, Zenon
  <2> QED BY <2>1, Zenon
<1>5. CASE tasks[p].pending
  <2> DEFINE t == [tasks[p] EXCEPT !.pending = FALSE]
  <2>1. tasks' = [tasks EXCEPT ![p] = t] /\ fair' = [fair EXCEPT ![c] = fair[c] \ {i}]
        /\ UNCHANGED <<current, phase>>
    BY <1>1, <1>5, Zenon DEF Park, TypeOK
  <2>2. t \in Task /\ t.id = tasks[p].id /\ t.reaped = tasks[p].reaped
        /\ t.finished = tasks[p].finished /\ t.blocked = tasks[p].blocked
    BY <1>1, Zenon DEF Task
  <2>3. UNCHANGED fair
    BY <1>3, <1>4, <2>1, Zenon
  <2> HIDE DEF t, p
  <2>4. Placed' /\ Housed' /\ t # None /\ tasks'[p] = t /\ \A q \in Places \ {p} : tasks'[q] = tasks[q]
    BY <1>1, <1>3, <2>1, <2>2, TaskChanged, Zenon
  <2>5. CurrentAwake'
    BY <1>1, <2>1, <2>2, <2>4, Shapes DEF TasksOk, CurrentAwake, TypeOK
  <2>6. \A q \in Places : (CanRunIn(tasks', q) <=> CanRunIn(tasks, q))
                          /\ (CanRunIn(tasks, q) => tasks'[q].id = tasks[q].id)
    BY <1>1, <2>2, <2>4, Zenon DEF CanRunIn
  <2>7. RunqueueExact'
    <3>1. \A d \in Cpus : QueueOf(tasks', current[d], d) = QueueOf(tasks, current[d], d)
      BY <2>6, Zenon DEF QueueOf
    <3> QED BY <2>1, <2>3, <3>1, ExactQueue, Zenon DEF TasksOk
  <2> QED BY <2>4, <2>5, <2>7, Zenon DEF TasksOk
<1>6. CASE ~tasks[p].pending
  <2> DEFINE t == [tasks[p] EXCEPT !.blocked = TRUE]
             ts == [tasks EXCEPT ![p] = t]
  <2>1. tasks' = ts /\ PickNext(c, ts, fair[c] \ {i})
    BY <1>1, <1>6, Zenon DEF Park, TypeOK
  <2>2. t \in Task /\ t.id = tasks[p].id /\ t.reaped = tasks[p].reaped
        /\ t.finished = tasks[p].finished /\ t.blocked
    BY <1>1, Zenon DEF Task
  <2> HIDE DEF t, p
  <2>3. Placed' /\ Housed' /\ t # None /\ tasks'[p] = t /\ \A q \in Places \ {p} : tasks'[q] = tasks[q]
    BY <1>1, <1>3, <2>1, <2>2, TaskChanged, Zenon
  <2>4. QueueOf(tasks', current[c], c) = fair[c] \ {i}
    <3>1. \A q \in Places : q[1] = c /\ q[2] # current[c] => tasks'[q] = tasks[q]
      BY <1>1, <2>3, Zenon
    <3>2. QueueOf(tasks', current[c], c) = QueueOf(tasks, current[c], c)
      BY <3>1 DEF QueueOf, CanRunIn
    <3> QED BY <1>3, <1>4, <3>2, Zenon
  <2>5. tasks' \in [Places -> Task \cup {None}]
    BY <2>1, <2>2, Zenon DEF TypeOK
  <2>6. PickNext(c, tasks', QueueOf(tasks', current[c], c))
    BY <2>1, <2>4, Zenon
  <2>7. \A q \in Places : /\ tasks'[q] = None <=> tasks[q] = None
                          /\ tasks'[q] # None => /\ tasks'[q].id = tasks[q].id
                                                 /\ tasks'[q].reaped = tasks[q].reaped
                                                 /\ tasks'[q].reaped => tasks'[q].finished
    BY <1>1, <2>2, <2>3, Zenon DEF TasksOk, Housed
  <2>8. \A q \in Places : q[1] # c => tasks'[q] = tasks[q]
    BY <1>1, <2>3, Zenon
  <2> HIDE DEF ts
  <2> QED BY <2>3, <2>5, <2>6, <2>7, <2>8, PickKeepsTasks, Zenon
<1> QED BY <1>5, <1>6, Zenon

\* exit_current_task: the task that ends is the current one, so it is not queued.
LEMMA ExitKeepsTasks ==
    ASSUME TypeOK, TasksOk, NEW c \in Cpus, Exit(c)
    PROVE  TasksOk'
<1> DEFINE p == <<c, current[c]>>
           t == [tasks[p] EXCEPT !.finished = TRUE, !.blocked = FALSE]
<1>1. p \in Places /\ p[1] = c /\ p[2] = current[c] /\ tasks[p] # None /\ tasks[p] \in Task
      /\ ~tasks[p].reaped
  <2>1. current[c] \in Indices
    BY Zenon DEF Exit, TypeOK
  <2> QED BY <2>1, Shapes DEF Exit, TasksOk, CurrentAwake, TypeOK
<1>2. /\ tasks' = [tasks EXCEPT ![p] = t]
      /\ fair' = [fair EXCEPT ![c] = fair[c] \ {tasks[p].id}]
      /\ phase' = [phase EXCEPT ![c] = "exit"] /\ UNCHANGED <<identity, current>> /\ current[c] # 0
  BY <1>1, Zenon DEF Exit, TypeOK
<1>3. t \in Task /\ t.id = tasks[p].id /\ t.reaped = tasks[p].reaped /\ t.finished /\ ~t.blocked
  BY <1>1, Zenon DEF Task
<1> HIDE DEF p, t
<1>4. Placed' /\ Housed' /\ t # None /\ tasks'[p] = t /\ \A q \in Places \ {p} : tasks'[q] = tasks[q]
  BY <1>1, <1>2, <1>3, TaskChanged, Zenon
<1>5. CurrentAwake'
  <2>1. \A d \in Cpus \ {c} : current[d] # 0 => <<d, current[d]>> \in Places \ {p}
    BY <1>1, Shapes DEF TypeOK
  <2>2. phase'[c] = "exit" /\ \A d \in Cpus \ {c} : phase'[d] = phase[d]
    BY <1>2, Zenon DEF TypeOK
  <2> QED BY <1>1, <1>2, <1>3, <1>4, <2>1, <2>2 DEF TasksOk, CurrentAwake, p
<1>6. RunqueueExact'
  <2> SUFFICES ASSUME NEW d \in Cpus PROVE fair'[d] = QueueOf(tasks', current[d], d)
    BY <1>2, ExactQueue, Zenon
  <2>1. fair[d] = QueueOf(tasks, current[d], d) /\ fair \in [Cpus -> SUBSET Ids]
    BY ExactQueue, Zenon DEF TasksOk, TypeOK
  <2>2. \A q \in Places : q[1] = d /\ q[2] # current[d] => tasks'[q] = tasks[q]
    BY <1>1, <1>4, Zenon
  <2>3. QueueOf(tasks', current[d], d) = QueueOf(tasks, current[d], d)
    BY <2>2 DEF QueueOf, CanRunIn
  <2>4. d = c => tasks[p].id \notin fair[d]
    <3>1. ASSUME d = c, tasks[p].id \in fair[d] PROVE FALSE
      <4>1. PICK q \in Places : q[1] = c /\ q[2] # current[c] /\ CanRunIn(tasks, q)
                                /\ tasks[p].id = tasks[q].id
        BY <3>1, <2>1, Zenon DEF QueueOf
      <4>2. ~tasks[q].reaped
        BY <4>1, Zenon DEF CanRunIn, TasksOk, Housed
      <4>3. q = p
        BY <4>1, <4>2, <1>1 DEF TasksOk, Housed, CanRunIn
      <4> QED BY <4>1, <4>3, <1>1, Zenon
    <3> QED BY <3>1, Zenon
  <2>5. fair'[d] = fair[d]
    BY <1>2, <2>1, <2>4, Zenon
  <2> QED BY <2>1, <2>3, <2>5, Zenon
<1> QED BY <1>4, <1>5, <1>6, Zenon DEF TasksOk

\* One id of reap_finished_tasks: what is withdrawn has finished and runs nowhere.
LEMMA ReapKeepsTasks ==
    ASSUME TypeOK, TasksOk, NEW w \in Workers, ReapOne(w)
    PROVE  TasksOk'
<1>1. PICK i \in batch[w] :
         LET p == where[SlotOf(i)].place
             mine == Located(i) /\ TaskMatches(p[1], i)
             running == mine /\ current[p[1]] = p[2]
         IN  IF mine /\ ~running /\ tasks[p].finished /\ ~tasks[p].reaped
             THEN /\ where' = [where EXCEPT ![SlotOf(i)] = None]
                  /\ tasks' = [tasks EXCEPT ![p].reaped = TRUE]
                  /\ allocated' = allocated \ {SlotOf(i)}
             ELSE UNCHANGED <<allocated, where, tasks>>
  BY Zenon DEF ReapOne
<1> DEFINE p == where[SlotOf(i)].place
           s == SlotOf(i)
           t == [tasks[p] EXCEPT !.reaped = TRUE]
<1>2. UNCHANGED <<generation, fair, current, phase>>
  BY Zenon DEF ReapOne, cpu
<1>3. CASE UNCHANGED <<allocated, where, tasks>>
  BY <1>2, <1>3, TasksKept, Zenon DEF identity
<1>4. CASE /\ Located(i) /\ current[p[1]] # p[2] /\ tasks[p].finished
           /\ where' = [where EXCEPT ![s] = None]
           /\ tasks' = [tasks EXCEPT ![p].reaped = TRUE]
           /\ allocated' = allocated \ {s}
  <2>1. i \in Ids
    BY Zenon DEF TypeOK
  <2>2. s \in Slots /\ where[s] # None /\ where[s].id = i
    BY <1>4, <2>1, Shapes, Zenon DEF Located
  <2>3. p \in Places /\ tasks[p] \in Task /\ tasks[p] # None /\ tasks[p].id = i /\ ~tasks[p].reaped
    BY <1>4, <2>1, LocatedTask, NoneAssumption, Zenon DEF TasksOk
  <2>4. t \in Task /\ t.id = i /\ t.reaped /\ t.finished = tasks[p].finished
    BY <2>3, Zenon DEF Task
  <2>5. tasks' = [tasks EXCEPT ![p] = t] /\ t # None
    BY <1>4, <2>3, <2>4, NoneAssumption, Zenon DEF TypeOK
  <2> HIDE DEF p, s, t
  <2>6. /\ tasks'[p] = t /\ \A q \in Places \ {p} : tasks'[q] = tasks[q]
        /\ where'[s] = None /\ \A r \in Slots \ {s} : where'[r] = where[r]
    BY <1>4, <2>2, <2>3, <2>5, Zenon DEF TypeOK
  <2>7. \A r \in Slots \ {s} : where[r] # None => where[r].place \in Places \ {p}
    BY <2>2, <2>3 DEF TypeOK, Entry, TasksOk, Placed
  <2>8. Placed'
    BY <1>2, <1>4, <2>6, <2>7 DEF TasksOk, Placed
  <2>9. \A q \in Places \ {p} : tasks[q] # None /\ ~tasks[q].reaped => SlotOf(tasks[q].id) \in Slots \ {s}
    <3> SUFFICES ASSUME NEW q \in Places \ {p}, tasks[q] # None, ~tasks[q].reaped
                 PROVE  SlotOf(tasks[q].id) \in Slots \ {s}
      BY Zenon
    <3>1. tasks[q].id \in Ids
      BY Zenon DEF TypeOK, Task
    <3>2. where[SlotOf(tasks[q].id)].place = q
      BY Zenon DEF TasksOk, Housed
    <3> QED BY <3>1, <3>2, Shapes, Zenon DEF p, s
  <2>10. Housed'
    BY <1>2, <1>4, <2>4, <2>6, <2>9, <2>3 DEF TasksOk, Housed
  <2>11. \A d \in Cpus : current[d] # 0 => <<d, current[d]>> \in Places \ {p}
    BY <1>4, <2>3, Shapes DEF TypeOK
  <2>12. CurrentAwake'
    BY <1>2, <2>6, <2>11, Zenon DEF TasksOk, CurrentAwake
  <2>13. \A q \in Places : (CanRunIn(tasks', q) <=> CanRunIn(tasks, q))
                          /\ (CanRunIn(tasks, q) => tasks'[q].id = tasks[q].id)
    BY <1>4, <2>3, <2>4, <2>6, Zenon DEF CanRunIn
  <2>14. RunqueueExact'
    <3>1. \A d \in Cpus : QueueOf(tasks', current[d], d) = QueueOf(tasks, current[d], d)
      BY <2>13, Zenon DEF QueueOf
    <3> QED BY <1>2, <3>1, ExactQueue, Zenon DEF TasksOk
  <2> QED BY <2>8, <2>10, <2>12, <2>14, Zenon DEF TasksOk
<1> QED BY <1>1, <1>3, <1>4, Zenon

-----------------------------------------------------------------------------
(* The wakes *)

WakesOk == DrainClean /\ WakesIssued /\ WakeOnItsWay

\* A wake its caller still carries, and one that its task's CPU will find.
Carried(i) == \E w \in Workers : pc[w] = "located" /\ target[w] = i
Signalled(i) ==
    /\ Located(i) /\ flag[SlotOf(i)]
    /\ LET c == where[SlotOf(i)].place[1]
       IN  \/ SlotOf(i) \in inbox[c] \cup todo[c] \/ hand[c] = i
           \/ \E w \in Workers : pc[w] = "post" /\ target[w] = i /\ place[w][1] = c

\* WakeOnItsWay in these terms.
LEMMA Ways ==
    /\ WakeOnItsWay <=> \A i \in owed : Carried(i) \/ Signalled(i)
    /\ WakeOnItsWay' <=> \A i \in owed' : Carried(i)' \/ Signalled(i)'
BY Zenon DEF WakeOnItsWay, Carried, Signalled

Waking == {"located", "post"}

\* A step that neither publishes, withdraws nor wakes.
LEMMA WakesKept ==
    ASSUME WakesOk, UNCHANGED <<identity, flag, inbox, hand, todo, asked, owed>>,
           \A w \in Workers : \/ pc'[w] = pc[w] /\ target'[w] = target[w] /\ place'[w] = place[w]
                              \/ pc[w] \notin Waking /\ pc'[w] \notin Waking,
           \A c \in Cpus : phase'[c] # "drain" =>
                              phase[c] # "drain" \/ (todo[c] = {} /\ hand[c] = None)
    PROVE  WakesOk'
<1>1. UNCHANGED <<generation, where>> /\ \A i : Located(i)' <=> Located(i)
  BY Zenon DEF identity, Located
<1>2. DrainClean'
  BY Zenon DEF WakesOk, DrainClean
<1>3. WakesIssued'
  BY <1>1, Zenon DEF WakesOk, WakesIssued, Waking
<1>4. ASSUME NEW i \in owed, Carried(i) PROVE Carried(i)'
  BY <1>4, Zenon DEF Carried, Waking
<1>5. ASSUME NEW i \in owed, Signalled(i) PROVE Signalled(i)'
  BY <1>1, <1>5, Zenon DEF Signalled, Waking
<1>6. WakeOnItsWay'
  BY <1>4, <1>5, Ways, Zenon DEF WakesOk
<1> QED BY <1>2, <1>3, <1>6, Zenon DEF WakesOk

\* add_task gives its slot a new generation, which nobody has asked to wake yet.
LEMMA SpawnKeepsWakes ==
    ASSUME TypeOK, TasksOk, WakesOk, NEW w \in Workers, NEW c \in Cpus, Spawn(w, c)
    PROVE  WakesOk'
<1>1. PICK s \in Slots, p \in Places :
         /\ SlotFree(s)
         /\ generation' = [generation EXCEPT ![s] = @ + 1]
         /\ where' = [where EXCEPT ![s] = [id |-> <<s, generation[s] + 1>>, place |-> p]]
         /\ flag' = [flag EXCEPT ![s] = FALSE]
  BY Zenon DEF Spawn
<1>2. UNCHANGED <<inbox, phase, hand, todo, pc, target, place, asked, owed>>
  BY Zenon DEF Spawn, cpu, waker
<1>3. where[s] = None /\ generation[s] \in Nat
  BY <1>1 DEF SlotFree, TypeOK, TasksOk, Placed
<1>4. DrainClean'
  BY <1>2, Zenon DEF WakesOk, DrainClean
<1>5. /\ \A r \in Slots \ {s} : where'[r] = where[r] /\ generation'[r] = generation[r] /\ flag'[r] = flag[r]
      /\ where'[s].id = <<s, generation[s] + 1>> /\ ~flag'[s] /\ generation'[s] = generation[s] + 1
  BY <1>1, Zenon DEF TypeOK
<1>6. \A i \in asked : /\ i \in Ids /\ SlotOf(i) \in Slots /\ i[2] \in Nat
                       /\ i[2] <= generation'[SlotOf(i)]
                       /\ Located(i)' <=> Located(i)
  <2> SUFFICES ASSUME NEW i \in asked
               PROVE  /\ i \in Ids /\ SlotOf(i) \in Slots /\ i[2] \in Nat
                      /\ i[2] <= generation'[SlotOf(i)]
                      /\ Located(i)' <=> Located(i)
    BY Zenon
  <2>1. i \in Ids /\ SlotOf(i) \in Slots /\ i[2] \in Nat /\ i = <<SlotOf(i), i[2]>>
    BY Shapes DEF TypeOK
  <2>2. i[2] <= generation[SlotOf(i)]
    BY Zenon DEF WakesOk, WakesIssued
  <2>3. CASE SlotOf(i) = s
    <3>1. i # <<s, generation[s] + 1>>
      BY <2>1, <2>2, <2>3, <1>3
    <3> QED BY <2>1, <2>2, <2>3, <3>1, <1>3, <1>5 DEF Located
  <2>4. CASE SlotOf(i) # s
    BY <2>1, <2>2, <2>4, <1>5, Zenon DEF Located
  <2> QED BY <2>3, <2>4, Zenon
<1>7. \A i \in asked : Located(i) => SlotOf(i) # s
  BY <1>3, Zenon DEF Located
<1>8. owed \subseteq asked
  BY Zenon DEF TypeOK
<1>9. WakesIssued'
  <2>1. \A i \in asked : i[2] <= generation'[SlotOf(i)]
    BY <1>6, Zenon
  <2>2. ASSUME NEW v \in Workers, pc[v] \in {"located", "post"}
        PROVE  /\ target[v] \in asked /\ place[v] \in Places
               /\ Located(target[v])' => where'[SlotOf(target[v])].place = place[v]
    <3>1. /\ target[v] \in asked /\ place[v] \in Places
          /\ Located(target[v]) => where[SlotOf(target[v])].place = place[v]
      BY <2>2, Zenon DEF WakesOk, WakesIssued
    <3>2. target'[v] = target[v]
      BY <1>2, Zenon
    <3>3. Located(target[v]) => where'[SlotOf(target[v])] = where[SlotOf(target[v])]
      BY <1>5, <1>6, <1>7, <3>1, Zenon
    <3>4. \A i \in asked : Located(i)' => Located(i)
      BY <1>6, Zenon
    <3> QED BY <3>1, <3>2, <3>3, <3>4, Zenon DEF Located
  <2>3. \A r \in Slots : flag'[r] => where'[r] # None /\ where'[r].id \in asked
    BY <1>5, Zenon DEF WakesOk, WakesIssued
  <2>4. \A i \in owed : Located(i)'
    BY <1>6, <1>8, Zenon DEF WakesOk, WakesIssued
  <2> QED BY <1>2, <2>1, <2>2, <2>3, <2>4, Zenon DEF WakesIssued
<1>10. WakeOnItsWay'
  <2>1. ASSUME NEW i \in owed, Carried(i) PROVE Carried(i)'
    BY <1>2, <2>1, Zenon DEF Carried
  <2>2. ASSUME NEW i \in owed, Signalled(i) PROVE Signalled(i)'
    <3>1. i \in asked /\ Located(i) /\ SlotOf(i) # s
      BY <1>7, <1>8, <2>2, Zenon DEF Signalled
    <3>2. where'[SlotOf(i)] = where[SlotOf(i)] /\ flag'[SlotOf(i)] = flag[SlotOf(i)] /\ Located(i)'
      BY <3>1, <1>5, <1>6, Zenon
    <3> QED BY <1>2, <2>2, <3>2, Zenon DEF Signalled
  <2> QED BY <1>2, <2>1, <2>2, Ways, Zenon DEF WakesOk
<1> QED BY <1>4, <1>9, <1>10, Zenon DEF WakesOk

\* wake_task finds its task: the caller carries the wake.
LEMMA LocateKeepsWakes ==
    ASSUME TypeOK, TasksOk, WakesOk, NEW w \in Workers, Locate(w)
    PROVE  WakesOk'
<1>1. PICK i \in Ids : /\ i[2] <= generation[SlotOf(i)] /\ Located(i)
                       /\ target' = [target EXCEPT ![w] = i]
                       /\ place' = [place EXCEPT ![w] = where[SlotOf(i)].place]
                       /\ asked' = asked \cup {i} /\ owed' = owed \cup {i}
  BY Zenon DEF Locate
<1>2. /\ UNCHANGED <<generation, where, flag, inbox, phase, hand, todo>> /\ pc[w] = "idle"
      /\ pc' = [pc EXCEPT ![w] = "located"]
  BY Zenon DEF Locate, At, identity, cpu
<1>3. /\ pc'[w] = "located" /\ target'[w] = i /\ place'[w] = where[SlotOf(i)].place
      /\ \A v \in Workers \ {w} : pc'[v] = pc[v] /\ target'[v] = target[v] /\ place'[v] = place[v]
  BY <1>1, <1>2, Zenon DEF TypeOK
<1>4. where[SlotOf(i)].place \in Places
  BY <1>1, LocatedTask, Zenon DEF TasksOk
<1>5. \A j : Located(j)' <=> Located(j)
  BY <1>2, Zenon DEF Located
<1>6. DrainClean'
  BY <1>2, Zenon DEF WakesOk, DrainClean
<1>7. WakesIssued'
  BY <1>1, <1>2, <1>3, <1>4, <1>5 DEF WakesOk, WakesIssued
<1>8. Carried(i)' /\ \A j : Carried(j) => Carried(j)'
  BY <1>2, <1>3, Zenon DEF Carried
<1>9. \A j : Signalled(j) => Signalled(j)'
  <2> SUFFICES ASSUME NEW j, Signalled(j) PROVE Signalled(j)'
    BY Zenon
  <2>1. UNCHANGED <<where, flag, inbox, todo, hand>> /\ Located(j)'
    BY <1>2, <1>5, Zenon DEF Signalled
  <2>2. \A v \in Workers : pc[v] = "post" => pc'[v] = "post" /\ target'[v] = target[v] /\ place'[v] = place[v]
    BY <1>2, <1>3, Zenon
  <2> QED BY <2>1, <2>2, Zenon DEF Signalled
<1>10. WakeOnItsWay'
  BY <1>1, <1>8, <1>9, Ways, Zenon DEF WakesOk
<1> QED BY <1>6, <1>7, <1>10, Zenon DEF WakesOk

\* What a worker that is waking a task knows of it.
LEMMA WakerKnows ==
    ASSUME TypeOK, TasksOk, WakesOk, NEW w \in Workers, pc[w] \in Waking
    PROVE  /\ target[w] \in asked /\ target[w] \in Ids /\ place[w] \in Places
           /\ Located(target[w]) => /\ where[SlotOf(target[w])].place = place[w]
                                    /\ TaskMatches(place[w][1], target[w])
           /\ target[w] \in owed => Located(target[w])
<1>1. target[w] \in asked /\ target[w] \in Ids /\ place[w] \in Places
  BY Zenon DEF WakesOk, WakesIssued, TypeOK, Waking
<1>2. Located(target[w]) => where[SlotOf(target[w])].place = place[w]
  BY Zenon DEF WakesOk, WakesIssued, Waking
<1>3. Located(target[w]) => TaskMatches(place[w][1], target[w])
  BY <1>1, <1>2, LocatedTask, NoneAssumption, Zenon DEF TasksOk, TaskMatches
<1>4. target[w] \in owed => Located(target[w])
  BY Zenon DEF WakesOk, WakesIssued
<1> QED BY <1>1, <1>2, <1>3, <1>4, Zenon

\* A worker that returns no longer carries its wake; the others do.
LEMMA Returned ==
    ASSUME TypeOK, NEW w \in Workers, Return(w)
    PROVE  /\ pc'[w] = "idle"
           /\ \A v \in Workers \ {w} : pc'[v] = pc[v] /\ target'[v] = target[v] /\ place'[v] = place[v]
BY Zenon DEF Return, TypeOK

\* A wake on the caller's own CPU is applied, or the task is gone.
LEMMA WakeLocalKeepsWakes ==
    ASSUME TypeOK, TasksOk, WakesOk, NEW w \in Workers, WakeLocal(w)
    PROVE  WakesOk'
<1> DEFINE t == target[w]
<1>1. /\ UNCHANGED <<generation, where, flag, inbox, phase, hand, todo, asked>> /\ pc[w] = "located"
      /\ place[w][1] = CpuOf[w]
  BY Zenon DEF WakeLocal, At, identity, cpu
<1>2. /\ pc'[w] = "idle"
      /\ \A v \in Workers \ {w} : pc'[v] = pc[v] /\ target'[v] = target[v] /\ place'[v] = place[v]
  BY Returned, Zenon DEF WakeLocal
<1>3. \A j : Located(j)' <=> Located(j)
  BY <1>1, Zenon DEF Located
<1>4. owed' \subseteq owed \ {t}
  <2>1. CASE TaskMatches(CpuOf[w], t)
    BY <2>1, Zenon DEF WakeLocal, ApplyWake
  <2>2. CASE ~TaskMatches(CpuOf[w], t)
    <3>1. t \notin owed
      BY <1>1, <2>2, WakerKnows, Zenon DEF Waking
    <3> QED BY <2>2, <3>1, Zenon DEF WakeLocal, Skip
  <2> QED BY <2>1, <2>2, Zenon
<1>5. DrainClean'
  BY <1>1, Zenon DEF WakesOk, DrainClean
<1>6. WakesIssued'
  BY <1>1, <1>2, <1>3, <1>4, Zenon DEF WakesOk, WakesIssued
<1>7. \A j : j # t /\ Carried(j) => Carried(j)'
  BY <1>2, Zenon DEF Carried
<1>8. \A j : Signalled(j) => Signalled(j)'
  BY <1>1, <1>2, <1>3, Zenon DEF Signalled
<1>9. WakeOnItsWay'
  BY <1>4, <1>7, <1>8, Ways, Zenon DEF WakesOk
<1> QED BY <1>5, <1>6, <1>9, Zenon DEF WakesOk

\* A wake for another CPU sets the flag of the task and then owes the bit.
LEMMA PublishKeepsWakes ==
    ASSUME TypeOK, TasksOk, WakesOk, NEW w \in Workers, PublishWake(w)
    PROVE  WakesOk'
<1> DEFINE t == target[w]
           s == SlotOf(t)
<1>1. /\ UNCHANGED <<generation, where, inbox, phase, hand, todo, asked, owed>> /\ pc[w] = "located"
  BY Zenon DEF PublishWake, At, identity, cpu
<1>2. /\ t \in asked /\ t \in Ids /\ place[w] \in Places
      /\ Located(t) => where[s].place = place[w]
      /\ t \in owed => Located(t)
  BY <1>1, WakerKnows, Zenon DEF Waking
<1>3. \A j : Located(j)' <=> Located(j)
  BY <1>1, Zenon DEF Located
<1>4. DrainClean'
  BY <1>1, Zenon DEF WakesOk, DrainClean
<1>5. CASE Located(t)
  <2>1. /\ flag' = [flag EXCEPT ![s] = TRUE] /\ pc' = [pc EXCEPT ![w] = "post"]
        /\ UNCHANGED <<target, place>>
    BY <1>5, Zenon DEF PublishWake
  <2>2. s \in Slots
    BY <1>2, Shapes, Zenon
  <2>3. flag'[s] /\ \A r \in Slots \ {s} : flag'[r] = flag[r]
    BY <2>1, <2>2, Zenon DEF TypeOK
  <2>4. pc'[w] = "post" /\ \A v \in Workers \ {w} : pc'[v] = pc[v]
    BY <2>1, Zenon DEF TypeOK
  <2>5. WakesIssued'
    BY <1>1, <1>2, <1>3, <1>5, <2>1, <2>3, <2>4, Zenon DEF WakesOk, WakesIssued, Located
  <2>6. \A j : j = t => Signalled(j)'
    BY <1>1, <1>2, <1>3, <1>5, <2>1, <2>3, <2>4, Zenon DEF Signalled
  <2>7. \A j : j # t /\ Carried(j) => Carried(j)'
    BY <2>1, <2>4, Zenon DEF Carried
  <2>8. \A j \in owed : j # t /\ Signalled(j) => Signalled(j)'
    <3>1. \A j \in owed : SlotOf(j) \in Slots
      BY Shapes, Zenon DEF TypeOK
    <3>2. \A j \in owed : flag[SlotOf(j)] => flag'[SlotOf(j)]
      BY <2>3, <3>1, Zenon
    <3>3. \A j, v : v \in Workers /\ pc[v] = "post" => pc'[v] = "post" /\ target'[v] = target[v] /\ place'[v] = place[v]
      BY <1>1, <2>1, <2>4, Zenon
    <3> QED BY <1>1, <1>3, <3>2, <3>3, Zenon DEF Signalled
  <2>9. WakeOnItsWay'
    <3>1. \A j \in owed : Carried(j) \/ Signalled(j)
      BY Ways, Zenon DEF WakesOk
    <3>2. \A j \in owed : Carried(j)' \/ Signalled(j)'
      <4> TAKE j \in owed
      <4>1. CASE j = t
        BY <2>6, <4>1, Zenon
      <4>2. CASE j # t
        BY <2>7, <2>8, <3>1, <4>2, Zenon
      <4> QED BY <4>1, <4>2, Zenon
    <3> QED BY <1>1, <3>2, Ways, Zenon
  <2> QED BY <1>4, <2>5, <2>9, Zenon DEF WakesOk
<1>6. CASE ~Located(t)
  <2>1. Return(w) /\ flag' = flag
    BY <1>6, Zenon DEF PublishWake
  <2>2. /\ pc'[w] = "idle"
        /\ \A v \in Workers \ {w} : pc'[v] = pc[v] /\ target'[v] = target[v] /\ place'[v] = place[v]
    BY <2>1, Returned, Zenon
  <2>3. WakesIssued'
    BY <1>1, <1>3, <2>1, <2>2, Zenon DEF WakesOk, WakesIssued
  <2>4. \A j : j # t /\ Carried(j) => Carried(j)'
    BY <2>2, Zenon DEF Carried
  <2>5. \A j : Signalled(j) => Signalled(j)'
    BY <1>1, <1>3, <2>1, <2>2, Zenon DEF Signalled
  <2>6. WakeOnItsWay'
    BY <1>1, <1>2, <1>6, <2>4, <2>5, Ways, Zenon DEF WakesOk
  <2> QED BY <1>4, <2>3, <2>6, Zenon DEF WakesOk
<1> QED BY <1>5, <1>6, Zenon

\* The bit is set on the CPU that the lookup found, where the task still is.
LEMMA PostKeepsWakes ==
    ASSUME TypeOK, TasksOk, WakesOk, NEW w \in Workers, Post(w)
    PROVE  WakesOk'
<1> DEFINE t == target[w]
           c == place[w][1]
<1>1. /\ UNCHANGED <<generation, where, flag, phase, hand, todo, asked, owed>> /\ pc[w] = "post"
      /\ inbox' = [inbox EXCEPT ![c] = @ \cup {SlotOf(t)}]
  BY Zenon DEF Post, At, identity, cpu
<1>2. /\ pc'[w] = "idle"
      /\ \A v \in Workers \ {w} : pc'[v] = pc[v] /\ target'[v] = target[v] /\ place'[v] = place[v]
  BY Returned, Zenon DEF Post
<1>3. \A j : Located(j)' <=> Located(j)
  BY <1>1, Zenon DEF Located
<1>4. c \in Cpus
  BY <1>1, WakerKnows, Shapes, Zenon DEF Waking
<1>5. SlotOf(t) \in inbox'[c] /\ \A d \in Cpus : inbox[d] \subseteq inbox'[d]
  BY <1>1, <1>4, Zenon DEF TypeOK
<1>6. DrainClean'
  BY <1>1, Zenon DEF WakesOk, DrainClean
<1>7. WakesIssued'
  BY <1>1, <1>2, <1>3, Zenon DEF WakesOk, WakesIssued
<1>8. \A j : Carried(j) => Carried(j)'
  BY <1>1, <1>2, Zenon DEF Carried
<1>9. \A j \in owed : Signalled(j) => Signalled(j)'
  <2> SUFFICES ASSUME NEW j \in owed, Signalled(j) PROVE Signalled(j)'
    BY Zenon
  <2> DEFINE d == where[SlotOf(j)].place[1]
  <2>1. d \in Cpus
    <3>1. j \in Ids /\ Located(j)
      BY Zenon DEF TypeOK, Signalled
    <3> QED BY <3>1, LocatedTask, Shapes, Zenon DEF TasksOk
  <2>2. \/ SlotOf(j) \in inbox'[d] \cup todo'[d] \/ hand'[d] = j
        \/ \E v \in Workers : pc'[v] = "post" /\ target'[v] = j /\ place'[v][1] = d
    BY <1>1, <1>2, <1>5, <2>1, Zenon DEF Signalled
  <2> QED BY <1>1, <1>3, <2>2, Zenon DEF Signalled
<1>10. WakeOnItsWay'
  BY <1>1, <1>8, <1>9, Ways, Zenon DEF WakesOk
<1> QED BY <1>6, <1>7, <1>10, Zenon DEF WakesOk

\* Taking bits from the inbox: what a drain has not served yet is in its hands.
LEMMA BitsKeepWakes ==
    ASSUME TypeOK, TasksOk, WakesOk, UNCHANGED <<identity, flag, waker, asked, owed>>, DrainClean',
           \A i \in owed : \A c \in Cpus :
               (Located(i) /\ where[SlotOf(i)].place[1] = c /\ (SlotOf(i) \in inbox[c] \cup todo[c] \/ hand[c] = i))
                   => SlotOf(i) \in inbox'[c] \cup todo'[c] \/ hand'[c] = i
    PROVE  WakesOk'
<1>1. UNCHANGED <<generation, where, pc, target, place>> /\ \A j : Located(j)' <=> Located(j)
  BY Zenon DEF identity, waker, Located
<1>2. WakesIssued'
  BY <1>1, Zenon DEF WakesOk, WakesIssued
<1>3. \A j : Carried(j) => Carried(j)'
  BY <1>1, Zenon DEF Carried
<1>4. \A j \in owed : Signalled(j) => Signalled(j)'
  <2> SUFFICES ASSUME NEW j \in owed, Signalled(j) PROVE Signalled(j)'
    BY Zenon
  <2> DEFINE d == where[SlotOf(j)].place[1]
  <2>1. d \in Cpus /\ Located(j)
    <3>1. j \in Ids /\ Located(j)
      BY Zenon DEF TypeOK, Signalled
    <3> QED BY <3>1, LocatedTask, Shapes, Zenon DEF TasksOk
  <2>2. \/ SlotOf(j) \in inbox'[d] \cup todo'[d] \/ hand'[d] = j
        \/ \E v \in Workers : pc'[v] = "post" /\ target'[v] = j /\ place'[v][1] = d
    BY <1>1, <2>1, Zenon DEF Signalled
  <2> QED BY <1>1, <2>2, Zenon DEF Signalled
<1>5. WakeOnItsWay'
  BY <1>3, <1>4, Ways, Zenon DEF WakesOk
<1> QED BY <1>2, <1>5, Zenon DEF WakesOk

\* A drain takes the bits of the inbox, serves one after the other and ends when
\* none is left.
LEMMA DrainKeepsWakes ==
    ASSUME TypeOK, TasksOk, WakesOk, NEW c \in Cpus,
           Enter(c) \/ DrainMore(c) \/ DrainTake(c) \/ DrainEnd(c)
    PROVE  WakesOk'
<1>1. UNCHANGED <<identity, flag, waker, asked, owed>>
  BY Zenon DEF Enter, DrainMore, DrainTake, DrainEnd
<1>2. CASE Enter(c)
  <2>1. /\ phase'[c] = "drain" /\ todo'[c] = inbox[c] /\ inbox'[c] = {} /\ hand' = hand
        /\ todo[c] = {} /\ hand[c] = None
        /\ \A d \in Cpus \ {c} : phase'[d] = phase[d] /\ todo'[d] = todo[d] /\ inbox'[d] = inbox[d]
    BY <1>2, Zenon DEF Enter, TypeOK, WakesOk, DrainClean
  <2>2. DrainClean'
    BY <2>1, Zenon DEF WakesOk, DrainClean
  <2>3. \A d \in Cpus : inbox[d] \cup todo[d] \subseteq inbox'[d] \cup todo'[d]
    BY <2>1, Zenon
  <2> QED BY <1>1, <2>1, <2>2, <2>3, BitsKeepWakes, Zenon
<1>3. CASE DrainMore(c)
  <2>1. /\ phase' = phase /\ phase[c] = "drain"
        /\ todo'[c] = todo[c] \cup inbox[c] /\ hand' = hand
        /\ \A d \in Cpus \ {c} : todo'[d] = todo[d] /\ inbox'[d] = inbox[d]
    BY <1>3, Zenon DEF DrainMore, TypeOK
  <2>2. DrainClean'
    BY <2>1, Zenon DEF WakesOk, DrainClean
  <2>3. \A d \in Cpus : inbox[d] \cup todo[d] \subseteq inbox'[d] \cup todo'[d]
    BY <2>1, Zenon
  <2> QED BY <1>1, <2>1, <2>2, <2>3, BitsKeepWakes, Zenon
<1>4. CASE DrainTake(c)
  <2>1. PICK s \in todo[c] :
          /\ todo' = [todo EXCEPT ![c] = @ \ {s}]
          /\ hand' = [hand EXCEPT ![c] = IF where[s] = None THEN None ELSE where[s].id]
    BY <1>4, Zenon DEF DrainTake
  <2>2. /\ phase' = phase /\ phase[c] = "drain" /\ hand[c] = None /\ inbox' = inbox
        /\ todo'[c] = todo[c] \ {s} /\ hand'[c] = IF where[s] = None THEN None ELSE where[s].id
        /\ \A d \in Cpus \ {c} : todo'[d] = todo[d] /\ hand'[d] = hand[d]
    BY <1>4, <2>1, Zenon DEF DrainTake, TypeOK
  <2>3. DrainClean'
    BY <2>2, Zenon DEF WakesOk, DrainClean
  <2>4. \A i \in owed : i # None
    BY Shapes, Zenon DEF TypeOK
  <2>5. \A i \in owed : Located(i) /\ SlotOf(i) = s => hand'[c] = i
    BY <2>2, Zenon DEF Located
  <2> QED BY <1>1, <2>2, <2>3, <2>4, <2>5, BitsKeepWakes, Zenon
<1>5. CASE DrainEnd(c)
  <2>1. /\ UNCHANGED <<inbox, todo, hand>> /\ hand[c] = None /\ todo[c] = {}
        /\ \A d \in Cpus \ {c} : phase'[d] = phase[d]
    BY <1>5, Zenon DEF DrainEnd, TypeOK
  <2>2. DrainClean'
    BY <2>1, Zenon DEF WakesOk, DrainClean
  <2> QED BY <1>1, <2>1, <2>2, BitsKeepWakes, Zenon
<1> QED BY <1>2, <1>3, <1>4, <1>5, Zenon

\* process_inbox_task: the flag is consumed together with the wake it stands for,
\* and only on the CPU of its task.
LEMMA ApplyKeepsWakes ==
    ASSUME TypeOK, TasksOk, WakesOk, NEW c \in Cpus, DrainApply(c)
    PROVE  WakesOk'
<1> DEFINE h == hand[c]
           s == SlotOf(h)
           due == TaskMatches(c, h) /\ flag[s]
<1>1. /\ UNCHANGED <<generation, where, pc, target, place, inbox, phase, todo, asked>>
      /\ phase[c] = "drain" /\ h # None /\ h \in Ids /\ s \in Slots
      /\ hand' = [hand EXCEPT ![c] = None]
  <2>1. /\ UNCHANGED <<generation, where, pc, target, place, inbox, phase, todo, asked>>
        /\ phase[c] = "drain" /\ h # None /\ h \in Ids /\ hand' = [hand EXCEPT ![c] = None]
    BY Zenon DEF DrainApply, identity, waker, TypeOK
  <2> QED BY <2>1, Shapes, Zenon
<1>2. hand'[c] = None /\ \A d \in Cpus \ {c} : hand'[d] = hand[d]
  BY <1>1, Zenon DEF TypeOK
<1>3. \A j : Located(j)' <=> Located(j)
  BY <1>1, Zenon DEF Located
<1>4. DrainClean'
  BY <1>1, <1>2, Zenon DEF WakesOk, DrainClean
<1>5. owed' \subseteq owed /\ \A r \in Slots : flag'[r] => flag[r]
  <2>1. CASE due
    BY <2>1, Zenon DEF DrainApply, ApplyWake, TypeOK
  <2>2. CASE ~due
    BY <2>2, Zenon DEF DrainApply, Skip
  <2> QED BY <2>1, <2>2, Zenon
<1>6. WakesIssued'
  BY <1>1, <1>3, <1>5, Zenon DEF WakesOk, WakesIssued
<1>7. ASSUME NEW i \in owed', Signalled(i) PROVE Signalled(i)'
  <2>1. i \in owed /\ i \in Ids /\ Located(i) /\ SlotOf(i) \in Slots
    BY <1>5, <1>7, Shapes, Zenon DEF TypeOK, Signalled
  <2>2. flag'[SlotOf(i)] /\ (where[SlotOf(i)].place[1] = c => i # h)
    <3>1. CASE due
      <4>1. owed' = owed \ {h} /\ flag' = [flag EXCEPT ![s] = FALSE] /\ Located(h)
        BY <3>1, Zenon DEF DrainApply, ApplyWake, TaskMatches
      <4>2. SlotOf(i) # s
        BY <2>1, <4>1, Zenon DEF Located
      <4> QED BY <1>7, <2>1, <4>1, <4>2, Zenon DEF Signalled, TypeOK
    <3>2. CASE ~due
      <4>1. flag' = flag /\ owed' = owed
        BY <3>2, Zenon DEF DrainApply, Skip
      <4>2. i = h /\ where[s].place[1] = c => FALSE
        BY <1>7, <2>1, <3>2, LocatedTask, NoneAssumption, Zenon DEF TaskMatches, Signalled, TasksOk
      <4> QED BY <1>7, <4>1, <4>2, Zenon DEF Signalled
    <3> QED BY <3>1, <3>2, Zenon
  <2> DEFINE d == where[SlotOf(i)].place[1]
  <2>3. where'[SlotOf(i)] = where[SlotOf(i)] /\ inbox' = inbox /\ todo' = todo /\ Located(i)'
    BY <1>1, <1>3, <2>1, Zenon
  <2>4. \/ SlotOf(i) \in inbox[d] \cup todo[d] \/ hand[d] = i
        \/ \E w \in Workers : pc[w] = "post" /\ target[w] = i /\ place[w][1] = d
    BY <1>7, Zenon DEF Signalled
  <2>5. hand[d] = i => hand'[d] = i
    <3>1. d \in Cpus
      <4>1. where[SlotOf(i)].place \in Places
        BY <2>1, LocatedTask, Zenon DEF TasksOk
      <4> QED BY <4>1, Zenon DEF Places
    <3> QED BY <1>2, <2>2, <3>1, Zenon
  <2>6. \/ SlotOf(i) \in inbox'[d] \cup todo'[d] \/ hand'[d] = i
        \/ \E w \in Workers : pc'[w] = "post" /\ target'[w] = i /\ place'[w][1] = d
    BY <1>1, <2>3, <2>4, <2>5, Zenon
  <2> HIDE DEF d
  <2>7. \A e : e = d => /\ where'[SlotOf(i)].place[1] = e
                       /\ \/ SlotOf(i) \in inbox'[e] \cup todo'[e] \/ hand'[e] = i
                          \/ \E w \in Workers : pc'[w] = "post" /\ target'[w] = i /\ place'[w][1] = e
    BY <2>3, <2>6, Zenon DEF d
  <2> QED BY <2>2, <2>3, <2>7, Zenon DEF Signalled
<1>8. \A j : Carried(j) => Carried(j)'
  BY <1>1, Zenon DEF Carried
<1>9. WakeOnItsWay'
  BY <1>5, <1>7, <1>8, Ways, Zenon DEF WakesOk
<1> QED BY <1>4, <1>6, <1>9, Zenon DEF WakesOk

\* Reaping a task withdraws its flag and the wakes that were for it.
LEMMA ReapKeepsWakes ==
    ASSUME TypeOK, TasksOk, WakesOk, NEW w \in Workers, ReapOne(w)
    PROVE  WakesOk'
<1>1. PICK i \in batch[w] :
         \/ UNCHANGED <<allocated, where, flag, tasks, owed>>
         \/ /\ Located(i)
            /\ where' = [where EXCEPT ![SlotOf(i)] = None]
            /\ flag' = [flag EXCEPT ![SlotOf(i)] = FALSE]
            /\ owed' = owed \ {i}
  BY Zenon DEF ReapOne
<1>2. UNCHANGED <<generation, inbox, phase, hand, todo, pc, target, place, asked>>
  BY Zenon DEF ReapOne, cpu, waker
<1>3. CASE UNCHANGED <<allocated, where, flag, tasks, owed>>
  BY <1>2, <1>3, WakesKept, Zenon DEF identity
<1>4. CASE /\ Located(i)
           /\ where' = [where EXCEPT ![SlotOf(i)] = None]
           /\ flag' = [flag EXCEPT ![SlotOf(i)] = FALSE]
           /\ owed' = owed \ {i}
  <2> DEFINE s == SlotOf(i)
  <2>1. s \in Slots
    BY Shapes, Zenon DEF TypeOK
  <2>2. /\ where'[s] = None /\ ~flag'[s]
        /\ \A r \in Slots \ {s} : where'[r] = where[r] /\ flag'[r] = flag[r]
    BY <1>4, <2>1, Zenon DEF TypeOK
  <2>3. \A j \in asked : /\ SlotOf(j) \in Slots /\ (Located(j)' <=> Located(j) /\ SlotOf(j) # s)
    BY <2>2, Shapes, Zenon DEF TypeOK, Located
  <2>4. \A j \in owed' : j \in owed /\ j \in asked /\ Located(j) /\ SlotOf(j) # s
    BY <1>4, Zenon DEF WakesOk, WakesIssued, TypeOK, Located
  <2>5. DrainClean'
    BY <1>2, Zenon DEF WakesOk, DrainClean
  <2>6. WakesIssued'
    BY <1>2, <2>2, <2>3, <2>4, Zenon DEF WakesOk, WakesIssued
  <2>7. \A j : Carried(j) => Carried(j)'
    BY <1>2, Zenon DEF Carried
  <2>8. \A j \in owed' : Signalled(j) => Signalled(j)'
    BY <1>2, <2>2, <2>3, <2>4, Zenon DEF Signalled
  <2>9. WakeOnItsWay'
    BY <2>4, <2>7, <2>8, Ways, Zenon DEF WakesOk
  <2> QED BY <2>5, <2>6, <2>9, Zenon DEF WakesOk
<1> QED BY <1>1, <1>3, <1>4, Zenon

-----------------------------------------------------------------------------
(* Types *)

\* What tick and park_current write is of the right kind, and they end the phase.
LEMMA PickTypes ==
    ASSUME TypeOK, NEW c \in Cpus, NEW ts \in [Places -> Task \cup {None}],
           NEW q \in SUBSET Ids, PickNext(c, ts, q)
    PROVE  /\ current' \in [Cpus -> Indices \cup {0}] /\ fair' \in [Cpus -> SUBSET Ids]
           /\ phase' \in [Cpus -> {"run", "drain", "tick", "switch", "exit"}]
           /\ phase'[c] # "drain" /\ \A d \in Cpus \ {c} : phase'[d] = phase[d]
<1> DEFINE CanRun(i) == /\ Located(i) /\ where[SlotOf(i)].place[1] = c
                        /\ LET t == ts[where[SlotOf(i)].place]
                           IN  t # None /\ t.id = i /\ ~t.finished /\ ~t.blocked
           mine == IF current[c] = 0 THEN None ELSE ts[<<c, current[c]>>]
           keys == IF mine # None /\ ~mine.finished /\ ~mine.blocked THEN q \cup {mine.id} ELSE q
           ready == {i \in keys : CanRun(i)}
           Run(n, rest) == /\ current' = [current EXCEPT ![c] = n]
                           /\ fair' = [fair EXCEPT ![c] = rest]
                           /\ phase' = [phase EXCEPT ![c] = IF n = current[c] THEN "run" ELSE "switch"]
<1>1. \/ ready = {} /\ Run(0, {})
      \/ \E i \in ready, stale \in SUBSET (keys \ ready) :
           Run(where[SlotOf(i)].place[2], keys \ (stale \cup {i}))
  BY Zenon DEF PickNext
<1>2. keys \subseteq Ids
  <2>1. mine # None => mine \in Task
    BY Shapes DEF TypeOK
  <2> QED BY <2>1, Zenon DEF Task
<1>3. \A i \in ready : where[SlotOf(i)].place[2] \in Indices
  <2> SUFFICES ASSUME NEW i \in keys, Located(i) PROVE where[SlotOf(i)].place[2] \in Indices
    BY Zenon
  <2>1. SlotOf(i) \in Slots
    BY <1>2, Shapes, Zenon
  <2>2. where[SlotOf(i)].place \in Places
    BY <2>1, Zenon DEF Located, TypeOK, Entry
  <2> QED BY <2>2, Shapes, Zenon
<1>4. \E n \in Indices \cup {0}, rest \in SUBSET Ids : Run(n, rest)
  <2> HIDE DEF Run, ready, keys
  <2>1. CASE ready = {} /\ Run(0, {})
    BY <2>1, Zenon
  <2>2. CASE \E i \in ready, stale \in SUBSET (keys \ ready) :
               Run(where[SlotOf(i)].place[2], keys \ (stale \cup {i}))
    <3>1. PICK i \in ready, stale \in SUBSET (keys \ ready) :
            Run(where[SlotOf(i)].place[2], keys \ (stale \cup {i}))
      BY <2>2, Zenon
    <3>2. keys \ (stale \cup {i}) \in SUBSET Ids /\ where[SlotOf(i)].place[2] \in Indices \cup {0}
      BY <1>2, <1>3, Zenon
    <3> QED BY <3>1, <3>2, Zenon
  <2> QED BY <1>1, <2>1, <2>2, Zenon
<1>5. PICK n \in Indices \cup {0}, rest \in SUBSET Ids : Run(n, rest)
  BY <1>4, Zenon
<1> QED BY <1>5, Zenon DEF TypeOK

\* Every step keeps the types.
LEMMA TypeStep == ASSUME IInv, [Next]_vars PROVE TypeOK'
<1> USE DEF IInv
<1>0. CASE UNCHANGED vars
  BY <1>0, Zenon DEF TypeOK, vars, identity, cpu, reaper, waker
<1>1. ASSUME NEW w \in Workers, NEW c \in Cpus, Spawn(w, c) PROVE TypeOK'
  <2>1. PICK s \in Slots, p \in Places :
         /\ SlotFree(s)
         /\ LET i == <<s, generation[s] + 1>>
            IN  /\ generation' = [generation EXCEPT ![s] = @ + 1]
                /\ allocated' = allocated \cup {s}
                /\ where' = [where EXCEPT ![s] = [id |-> i, place |-> p]]
                /\ flag' = [flag EXCEPT ![s] = FALSE]
                /\ tasks' = [tasks EXCEPT ![p] = [id |-> i, blocked |-> FALSE, pending |-> FALSE,
                                                  finished |-> FALSE, reaped |-> FALSE]]
                /\ fair' = [fair EXCEPT ![c] = @ \cup {i}]
    BY <1>1, Zenon DEF Spawn
  <2> DEFINE i == <<s, generation[s] + 1>>
             t == [id |-> i, blocked |-> FALSE, pending |-> FALSE, finished |-> FALSE, reaped |-> FALSE]
             e == [id |-> i, place |-> p]
  <2>2. generation[s] + 1 \in 1 .. MaxGen
    BY <2>1, WakeAssumption DEF SlotFree, TypeOK
  <2>3. i \in Ids
    BY <2>2, Shapes, Zenon
  <2>4. t \in Task /\ e \in Entry
    <3> HIDE DEF i
    <3> QED BY <2>3, Zenon DEF Task, Entry
  <2> HIDE DEF i, t, e
  <2>5. /\ generation' = [generation EXCEPT ![s] = generation[s] + 1]
        /\ allocated' = allocated \cup {s} /\ where' = [where EXCEPT ![s] = e]
        /\ flag' = [flag EXCEPT ![s] = FALSE] /\ tasks' = [tasks EXCEPT ![p] = t]
        /\ fair' = [fair EXCEPT ![c] = fair[c] \cup {i}]
    BY <2>1, Zenon DEF i, t, e, TypeOK
  <2>6. UNCHANGED <<inbox, cpu, reaper, waker, asked, owed>>
    BY <1>1, Zenon DEF Spawn
  <2> QED BY <2>2, <2>3, <2>4, <2>5, <2>6, WakeAssumption DEF TypeOK, cpu, reaper, waker
<1>2. ASSUME NEW w \in Workers, Locate(w) PROVE TypeOK'
  <2>1. PICK i \in Ids : /\ Located(i)
                         /\ target' = [target EXCEPT ![w] = i]
                         /\ place' = [place EXCEPT ![w] = where[SlotOf(i)].place]
                         /\ asked' = asked \cup {i} /\ owed' = owed \cup {i}
    BY <1>2, Zenon DEF Locate
  <2>2. where[SlotOf(i)].place \in Places
    BY <2>1, LocatedTask, Zenon
  <2> QED BY <1>2, <2>1, <2>2, Zenon DEF Locate, TypeOK, identity, cpu, reaper
<1>3. ASSUME NEW w \in Workers, Return(w)
      PROVE  /\ pc' \in [Workers -> {"idle", "located", "post", "take", "reap"}]
             /\ target' \in [Workers -> Ids \cup {None}] /\ place' \in [Workers -> Places \cup {None}]
  BY <1>3, Zenon DEF Return, TypeOK
<1>4. ASSUME NEW i \in Ids, Located(i), ApplyWake(i)
      PROVE  /\ tasks' \in [Places -> Task \cup {None}] /\ fair' \in [Cpus -> SUBSET Ids]
             /\ owed' \subseteq asked
  <2>1. tasks' \in [Places -> Task \cup {None}] /\ owed' = owed \ {i}
    BY <1>4, AppliedWake, Zenon
  <2>2. fair' \in [Cpus -> SUBSET Ids]
    BY <1>4, Zenon DEF ApplyWake, TypeOK
  <2> QED BY <2>1, <2>2, Zenon DEF TypeOK
<1>5. ASSUME NEW w \in Workers, WakeLocal(w) PROVE TypeOK'
  <2>1. /\ tasks' \in [Places -> Task \cup {None}] /\ fair' \in [Cpus -> SUBSET Ids]
        /\ owed' \subseteq asked
    <3>1. target[w] \in Ids
      BY <1>5, Zenon DEF WakeLocal, At, WakesIssued, TypeOK
    <3>2. CASE TaskMatches(CpuOf[w], target[w])
      BY <1>4, <1>5, <3>1, <3>2, Zenon DEF WakeLocal, TaskMatches
    <3>3. CASE ~TaskMatches(CpuOf[w], target[w])
      BY <1>5, <3>3, Zenon DEF WakeLocal, Skip, TypeOK
    <3> QED BY <3>2, <3>3, Zenon
  <2> QED BY <1>3, <1>5, <2>1, Zenon DEF WakeLocal, TypeOK, identity, cpu, reaper
<1>6. ASSUME NEW w \in Workers, PublishWake(w) PROVE TypeOK'
  <2>1. target[w] \in Ids /\ SlotOf(target[w]) \in Slots
    BY <1>6, Shapes, Zenon DEF PublishWake, At, WakesIssued, TypeOK
  <2>2. /\ flag' \in [Slots -> BOOLEAN]
        /\ pc' \in [Workers -> {"idle", "located", "post", "take", "reap"}]
        /\ target' \in [Workers -> Ids \cup {None}] /\ place' \in [Workers -> Places \cup {None}]
    BY <1>3, <1>6, <2>1, Zenon DEF PublishWake, TypeOK
  <2> QED BY <1>6, <2>2, Zenon DEF PublishWake, TypeOK, identity, cpu, reaper
<1>7. ASSUME NEW w \in Workers, Post(w) PROVE TypeOK'
  <2>1. target[w] \in Ids /\ SlotOf(target[w]) \in Slots
    BY <1>7, Shapes, Zenon DEF Post, At, WakesIssued, TypeOK
  <2>2. inbox' \in [Cpus -> SUBSET Slots]
    BY <1>7, <2>1, Zenon DEF Post, TypeOK
  <2> QED BY <1>3, <1>7, <2>2, Zenon DEF Post, TypeOK, identity, cpu, reaper
<1>8. ASSUME NEW w \in Workers, ReapBegin(w) \/ ReapTake(w) PROVE TypeOK'
  BY <1>8, Zenon DEF ReapBegin, ReapTake, TypeOK, identity, cpu
<1>9. ASSUME NEW w \in Workers, ReapOne(w) PROVE TypeOK'
  <2>1. PICK i \in batch[w] :
           LET p == where[SlotOf(i)].place
               mine == Located(i) /\ TaskMatches(p[1], i)
               running == mine /\ current[p[1]] = p[2]
           IN  /\ batch' = [batch EXCEPT ![w] = @ \ {i}]
               /\ reapQueue' = IF running THEN reapQueue \cup {i} ELSE reapQueue
               /\ reapPending' = (reapPending \/ running)
               /\ IF mine /\ ~running /\ tasks[p].finished /\ ~tasks[p].reaped
                  THEN /\ where' = [where EXCEPT ![SlotOf(i)] = None]
                       /\ flag' = [flag EXCEPT ![SlotOf(i)] = FALSE]
                       /\ tasks' = [tasks EXCEPT ![p].reaped = TRUE]
                       /\ allocated' = allocated \ {SlotOf(i)}
                       /\ owed' = owed \ {i}
                  ELSE UNCHANGED <<allocated, where, flag, tasks, owed>>
    BY <1>9, Zenon DEF ReapOne
  <2>2. i \in Ids
    BY Zenon DEF TypeOK
  <2>3. /\ where' \in [Slots -> Entry \cup {None}] /\ flag' \in [Slots -> BOOLEAN]
        /\ allocated' \subseteq Slots /\ owed' \subseteq asked
    BY <2>1, Zenon DEF TypeOK
  <2>4. tasks' \in [Places -> Task \cup {None}]
    <3> DEFINE p == where[SlotOf(i)].place
    <3>1. CASE tasks' = tasks
      BY <3>1, Zenon DEF TypeOK
    <3>2. CASE Located(i) /\ tasks' = [tasks EXCEPT ![p].reaped = TRUE]
      <4>1. p \in Places /\ tasks[p] \in Task
        BY <2>2, <3>2, LocatedTask, Zenon
      <4>2. [tasks[p] EXCEPT !.reaped = TRUE] \in Task
        BY <4>1, Zenon DEF Task
      <4> HIDE DEF p
      <4> QED BY <3>2, <4>1, <4>2, Zenon DEF TypeOK
    <3> QED BY <2>1, <3>1, <3>2, Zenon
  <2>5. batch' \in [Workers -> SUBSET Ids] /\ reapQueue' \subseteq Ids /\ reapPending' \in BOOLEAN
    BY <2>1, <2>2, Zenon DEF TypeOK
  <2> QED BY <1>9, <2>3, <2>4, <2>5, Zenon DEF ReapOne, TypeOK, cpu, waker
<1>10. ASSUME NEW w \in Workers, ReapEnd(w) PROVE TypeOK'
  BY <1>3, <1>10, Zenon DEF ReapEnd, TypeOK, identity, cpu, reaper
<1>11. ASSUME NEW c \in Cpus, Enter(c) \/ DrainMore(c) \/ DrainEnd(c) \/ Switch(c) PROVE TypeOK'
  <2>1. CASE Enter(c) \/ DrainMore(c)
    <3>1. /\ todo' \in [Cpus -> SUBSET Slots] /\ inbox' \in [Cpus -> SUBSET Slots]
          /\ phase' \in [Cpus -> {"run", "drain", "tick", "switch", "exit"}]
          /\ UNCHANGED <<identity, flag, tasks, fair, current, on, hand, reaper, waker, asked, owed>>
      BY <2>1 DEF Enter, DrainMore, TypeOK
    <3> QED BY <3>1, Zenon DEF TypeOK, identity, reaper, waker
  <2>2. CASE DrainEnd(c) \/ Switch(c)
    <3>1. /\ on' \in [Cpus -> Indices \cup {0}]
          /\ phase' \in [Cpus -> {"run", "drain", "tick", "switch", "exit"}]
          /\ UNCHANGED <<identity, flag, inbox, tasks, fair, current, hand, todo, reaper, waker, asked, owed>>
      BY <2>2 DEF DrainEnd, Switch, TypeOK
    <3> QED BY <3>1, Zenon DEF TypeOK, identity, reaper, waker
  <2> QED BY <1>11, <2>1, <2>2, Zenon
<1>12. ASSUME NEW c \in Cpus, DrainTake(c) PROVE TypeOK'
  <2>1. PICK s \in todo[c] :
          /\ todo' = [todo EXCEPT ![c] = todo[c] \ {s}]
          /\ hand' = [hand EXCEPT ![c] = IF where[s] = None THEN None ELSE where[s].id]
    BY <1>12, Zenon DEF DrainTake
  <2>2. (IF where[s] = None THEN None ELSE where[s].id) \in Ids \cup {None}
    BY <2>1, Zenon DEF TypeOK, Entry
  <2>3. todo' \in [Cpus -> SUBSET Slots] /\ hand' \in [Cpus -> Ids \cup {None}]
    BY <2>1, <2>2, Zenon DEF TypeOK
  <2>4. UNCHANGED <<identity, flag, inbox, tasks, fair, current, on, phase, reaper, waker, asked, owed>>
    BY <1>12, Zenon DEF DrainTake
  <2> QED BY <2>3, <2>4, Zenon DEF TypeOK, identity, reaper, waker
<1>13. ASSUME NEW c \in Cpus, DrainApply(c) PROVE TypeOK'
  <2>1. hand[c] \in Ids /\ SlotOf(hand[c]) \in Slots
    BY <1>13, Shapes DEF DrainApply, TypeOK
  <2>2. /\ tasks' \in [Places -> Task \cup {None}] /\ fair' \in [Cpus -> SUBSET Ids]
        /\ owed' \subseteq asked
    <3>1. CASE ApplyWake(hand[c]) /\ Located(hand[c])
      BY <1>4, <2>1, <3>1, Zenon
    <3>2. CASE Skip
      BY <3>2, Zenon DEF Skip, TypeOK
    <3> QED BY <1>13, <3>1, <3>2, Zenon DEF DrainApply, TaskMatches
  <2>3. flag' \in [Slots -> BOOLEAN] /\ hand' \in [Cpus -> Ids \cup {None}]
    BY <1>13, <2>1, Zenon DEF DrainApply, TypeOK
  <2> QED BY <1>13, <2>2, <2>3, Zenon DEF DrainApply, TypeOK, identity, reaper, waker
<1>14. ASSUME NEW c \in Cpus, Tick(c) PROVE TypeOK'
  <2>1. /\ current' \in [Cpus -> Indices \cup {0}] /\ fair' \in [Cpus -> SUBSET Ids]
        /\ phase' \in [Cpus -> {"run", "drain", "tick", "switch", "exit"}]
    BY <1>14, PickTypes, Zenon DEF Tick, TypeOK
  <2> QED BY <1>14, <2>1, Zenon DEF Tick, TypeOK, identity, reaper, waker
<1>15. ASSUME NEW c \in Cpus, Park(c) \/ Exit(c) PROVE TypeOK'
  <2> DEFINE p == <<c, current[c]>>
  <2>1. p \in Places /\ tasks[p] \in Task
    <3>1. current[c] \in Indices /\ tasks[p] # None
      BY <1>15, Zenon DEF Park, Exit, TypeOK, CurrentAwake
    <3> QED BY <3>1, Shapes DEF TypeOK
  <2>2. /\ [tasks[p] EXCEPT !.blocked = TRUE] \in Task /\ [tasks[p] EXCEPT !.pending = FALSE] \in Task
        /\ [tasks[p] EXCEPT !.finished = TRUE, !.blocked = FALSE] \in Task
    BY <2>1, Zenon DEF Task
  <2> HIDE DEF p
  <2>3. tasks \in [Places -> Task \cup {None}]
    BY Zenon DEF TypeOK
  <2>4. /\ [tasks EXCEPT ![p].blocked = TRUE] \in [Places -> Task \cup {None}]
        /\ [tasks EXCEPT ![p].pending = FALSE] \in [Places -> Task \cup {None}]
        /\ [tasks EXCEPT ![p].finished = TRUE, ![p].blocked = FALSE] \in [Places -> Task \cup {None}]
    BY <2>1, <2>2, <2>3, Zenon
  <2>5. CASE Exit(c)
    BY <2>4, <2>5, Zenon DEF Exit, p, TypeOK, identity, reaper, waker
  <2>6. CASE Park(c) /\ tasks[p].pending
    <3>1. /\ tasks' = [tasks EXCEPT ![p].pending = FALSE]
          /\ fair' = [fair EXCEPT ![c] = fair[c] \ {tasks[p].id}] /\ UNCHANGED <<current, phase>>
      BY <2>6, Zenon DEF Park, p, TypeOK
    <3> QED BY <2>4, <2>6, <3>1, Zenon DEF Park, TypeOK, identity, reaper, waker
  <2>7. CASE Park(c) /\ ~tasks[p].pending
    <3>1. tasks' = [tasks EXCEPT ![p].blocked = TRUE]
          /\ PickNext(c, [tasks EXCEPT ![p].blocked = TRUE], fair[c] \ {tasks[p].id})
      BY <2>7, Zenon DEF Park, p
    <3>2. fair[c] \ {tasks[p].id} \in SUBSET Ids
      BY Zenon DEF TypeOK
    <3>3. /\ current' \in [Cpus -> Indices \cup {0}] /\ fair' \in [Cpus -> SUBSET Ids]
          /\ phase' \in [Cpus -> {"run", "drain", "tick", "switch", "exit"}]
      BY <2>4, <3>1, <3>2, PickTypes, Zenon
    <3> QED BY <2>4, <2>7, <3>1, <3>3, Zenon DEF Park, TypeOK, identity, reaper, waker
  <2> QED BY <1>15, <2>5, <2>6, <2>7, Zenon
<1>16. ASSUME NEW c \in Cpus, QueueForReaper(c) PROVE TypeOK'
  <2>1. tasks[<<c, current[c]>>].id \in Ids
    <3>1. current[c] \in Indices /\ tasks[<<c, current[c]>>] # None
      BY <1>16, Zenon DEF QueueForReaper, TypeOK, CurrentAwake
    <3> QED BY <3>1, Shapes DEF TypeOK, Task
  <2> QED BY <1>16, <2>1, Zenon DEF QueueForReaper, TypeOK, identity, waker
<1> QED BY <1>0, <1>1, <1>2, <1>5, <1>6, <1>7, <1>8, <1>9, <1>10, <1>11, <1>12, <1>13, <1>14, <1>15,
           <1>16, Zenon DEF Next, Start, Finish, SchedStep, TaskStep

-----------------------------------------------------------------------------
(* The inductive invariant *)

\* The empty system satisfies the invariant.
LEMMA InitInd == Init => IInv
<1> SUFFICES ASSUME Init PROVE IInv
  BY Zenon
<1>1. TypeOK
  <2>1. generation \in [Slots -> 0 .. MaxGen]
    BY WakeAssumption DEF Init
  <2>2. /\ where \in [Slots -> Entry \cup {None}] /\ flag \in [Slots -> BOOLEAN]
        /\ tasks \in [Places -> Task \cup {None}]
        /\ target \in [Workers -> Ids \cup {None}] /\ place \in [Workers -> Places \cup {None}]
        /\ hand \in [Cpus -> Ids \cup {None}]
    BY Zenon DEF Init
  <2>3. /\ inbox \in [Cpus -> SUBSET Slots] /\ todo \in [Cpus -> SUBSET Slots]
        /\ fair \in [Cpus -> SUBSET Ids] /\ batch \in [Workers -> SUBSET Ids]
    BY Zenon DEF Init
  <2> QED BY <2>1, <2>2, <2>3, Zenon DEF Init, TypeOK
<1>2. Placed /\ Housed /\ CurrentAwake /\ DrainClean
  BY Zenon DEF Init, Placed, Housed, CurrentAwake, DrainClean
<1>3. WakesIssued /\ WakeOnItsWay
  BY Zenon DEF Init, WakesIssued, WakeOnItsWay
<1>4. RunqueueExact
  BY Zenon DEF Init, RunqueueExact, Runnable
<1> QED BY <1>1, <1>2, <1>3, <1>4, Zenon DEF IInv

\* Every step keeps the directory, the tasks and the queues in agreement.
LEMMA TasksStep == ASSUME IInv, [Next]_vars PROVE TasksOk'
<1>1. TypeOK /\ TasksOk
  BY Zenon DEF IInv, TasksOk
<1>2. CASE UNCHANGED vars
  BY <1>1, <1>2, TasksKept, Zenon DEF vars, cpu
<1>3. ASSUME NEW w \in Workers, NEW c \in Cpus, Spawn(w, c) PROVE TasksOk'
  BY <1>1, <1>3, SpawnKeepsTasks, Zenon
<1>4. ASSUME NEW w \in Workers,
             Locate(w) \/ PublishWake(w) \/ Post(w) \/ ReapBegin(w) \/ ReapTake(w) \/ ReapEnd(w)
      PROVE  TasksOk'
  BY <1>1, <1>4, TasksKept, Zenon DEF Locate, PublishWake, Post, ReapBegin, ReapTake, ReapEnd, cpu
<1>5. ASSUME NEW w \in Workers, WakeLocal(w) PROVE TasksOk'
  <2>1. UNCHANGED <<identity, current, phase>> /\ target[w] \in Ids
    BY <1>5, Zenon DEF WakeLocal, cpu, At, IInv, WakesIssued, TypeOK
  <2>2. CASE TaskMatches(CpuOf[w], target[w])
    BY <1>1, <1>5, <2>1, <2>2, WakeKeepsTasks, Zenon DEF WakeLocal, TaskMatches
  <2>3. CASE ~TaskMatches(CpuOf[w], target[w])
    BY <1>1, <1>5, <2>1, <2>3, TasksKept, Zenon DEF WakeLocal, Skip
  <2> QED BY <2>2, <2>3, Zenon
<1>6. ASSUME NEW w \in Workers, ReapOne(w) PROVE TasksOk'
  BY <1>1, <1>6, ReapKeepsTasks, Zenon
<1>7. ASSUME NEW c \in Cpus,
             Enter(c) \/ DrainMore(c) \/ DrainTake(c) \/ DrainEnd(c) \/ Switch(c) \/ QueueForReaper(c)
      PROVE  TasksOk'
  <2>1. \A d \in Cpus : \/ phase'[d] = phase[d]
                        \/ phase[d] = "run" /\ phase'[d] = "drain"
                        \/ phase[d] = "drain" /\ phase'[d] = "tick"
                        \/ phase[d] = "switch" /\ phase'[d] = "run"
                        \/ phase[d] = "exit" /\ phase'[d] = "tick"
    BY <1>1, <1>7, Zenon DEF Enter, DrainMore, DrainTake, DrainEnd, Switch, QueueForReaper, TypeOK
  <2>2. UNCHANGED <<identity, tasks, fair, current>>
    BY <1>7, Zenon DEF Enter, DrainMore, DrainTake, DrainEnd, Switch, QueueForReaper
  <2> QED BY <1>1, <2>1, <2>2, TasksKept, Zenon
<1>8. ASSUME NEW c \in Cpus, DrainApply(c) PROVE TasksOk'
  <2>1. UNCHANGED <<identity, current, phase>> /\ hand[c] \in Ids
    BY <1>1, <1>8, Zenon DEF DrainApply, TypeOK
  <2>2. CASE ApplyWake(hand[c]) /\ Located(hand[c])
    BY <1>1, <2>1, <2>2, WakeKeepsTasks, Zenon
  <2>3. CASE Skip
    BY <1>1, <2>1, <2>3, TasksKept, Zenon DEF Skip
  <2> QED BY <1>8, <2>2, <2>3, Zenon DEF DrainApply, TaskMatches
<1>9. ASSUME NEW c \in Cpus, Tick(c) \/ Park(c) \/ Exit(c) PROVE TasksOk'
  BY <1>1, <1>9, TickKeepsTasks, ParkKeepsTasks, ExitKeepsTasks, Zenon
<1> QED BY <1>2, <1>3, <1>4, <1>5, <1>6, <1>7, <1>8, <1>9, Zenon DEF Next, Start, Finish, SchedStep, TaskStep

\* Every step keeps the wakes on their way.
LEMMA WakesStep == ASSUME IInv, [Next]_vars PROVE WakesOk'
<1>1. TypeOK /\ TasksOk /\ WakesOk
  BY Zenon DEF IInv, TasksOk, WakesOk
<1>2. CASE UNCHANGED vars
  BY <1>1, <1>2, WakesKept, Zenon DEF vars, cpu, waker
<1>3. ASSUME NEW w \in Workers,
             \/ Locate(w) \/ WakeLocal(w) \/ PublishWake(w) \/ Post(w) \/ ReapOne(w)
             \/ \E c \in Cpus : Spawn(w, c)
      PROVE  WakesOk'
  BY <1>1, <1>3, LocateKeepsWakes, WakeLocalKeepsWakes, PublishKeepsWakes, PostKeepsWakes,
     ReapKeepsWakes, SpawnKeepsWakes, Zenon
<1>4. ASSUME NEW w \in Workers, ReapBegin(w) \/ ReapTake(w) \/ ReapEnd(w) PROVE WakesOk'
  <2>1. UNCHANGED <<identity, flag, inbox, phase, hand, todo, asked, owed>>
    BY <1>4, Zenon DEF ReapBegin, ReapTake, ReapEnd, cpu
  <2>2. pc[w] \notin Waking /\ pc'[w] \notin Waking
    BY <1>1, <1>4, Zenon DEF ReapBegin, ReapTake, ReapEnd, Return, At, Waking, TypeOK
  <2>3. \A v \in Workers \ {w} : pc'[v] = pc[v] /\ target'[v] = target[v] /\ place'[v] = place[v]
    BY <1>1, <1>4, Zenon DEF ReapBegin, ReapTake, ReapEnd, Return, TypeOK
  <2> QED BY <1>1, <2>1, <2>2, <2>3, WakesKept, Zenon
<1>5. ASSUME NEW c \in Cpus, Enter(c) \/ DrainMore(c) \/ DrainTake(c) \/ DrainEnd(c) \/ DrainApply(c)
      PROVE  WakesOk'
  BY <1>1, <1>5, DrainKeepsWakes, ApplyKeepsWakes, Zenon
<1>6. ASSUME NEW c \in Cpus, Switch(c) \/ QueueForReaper(c) \/ Tick(c) \/ Park(c) \/ Exit(c)
      PROVE  WakesOk'
  <2>1. UNCHANGED <<identity, flag, inbox, hand, todo, pc, target, place, asked, owed>>
    BY <1>6, Zenon DEF Switch, QueueForReaper, Tick, Park, Exit, waker
  <2>2. phase[c] # "drain"
    BY <1>6, Zenon DEF Switch, QueueForReaper, Tick, Park, Exit
  <2>3. \A d \in Cpus \ {c} : phase'[d] = phase[d]
    <3>1. CASE Switch(c) \/ QueueForReaper(c) \/ Exit(c)
      BY <1>1, <3>1, Zenon DEF Switch, QueueForReaper, Exit, TypeOK
    <3>2. CASE Tick(c)
      BY <1>1, <3>2, PickTypes, Zenon DEF Tick, TypeOK
    <3>3. CASE Park(c) /\ phase' = phase
      BY <3>3, Zenon
    <3>4. CASE Park(c) /\ phase' # phase
      <4> DEFINE p == <<c, current[c]>>
                 parked == [tasks EXCEPT ![p].blocked = TRUE]
      <4>1. PickNext(c, parked, fair[c] \ {tasks[p].id}) /\ tasks' = parked
        BY <3>4, Zenon DEF Park
      <4>2. parked \in [Places -> Task \cup {None}]
        BY <4>1, TypeStep, Zenon DEF TypeOK
      <4>3. fair[c] \ {tasks[p].id} \in SUBSET Ids
        BY <1>1, Zenon DEF TypeOK
      <4> HIDE DEF parked
      <4> QED BY <1>1, <4>1, <4>2, <4>3, PickTypes, Zenon
    <3> QED BY <1>6, <3>1, <3>2, <3>3, <3>4, Zenon
  <2> QED BY <1>1, <2>1, <2>2, <2>3, WakesKept, Zenon
<1> QED BY <1>2, <1>3, <1>4, <1>5, <1>6, Zenon DEF Next, Start, Finish, SchedStep, TaskStep

\* The invariant is inductive.
LEMMA NextInd == IInv /\ [Next]_vars => IInv'
BY TypeStep, TasksStep, WakesStep, Zenon DEF IInv, TasksOk, WakesOk

\* IInv holds in every reachable state of the scheduler, for every number of CPUs,
\* slots, indexes, generations and workers.
THEOREM WakeInvariant == Spec => []IInv
BY InitInd, NextInd, PTL DEF Spec

\* Every variable of the parking, waking and reaping model keeps its type.
THEOREM WakeTypeCorrect == Spec => []TypeOK
BY WakeInvariant, PTL DEF IInv

\* tick, park, wake, exit and add_task keep the fair queue of every CPU equal to the
\* set of its runnable tasks that are not current: none is stranded, none is stale.
THEOREM QueuesExact == Spec => []RunqueueExact
BY WakeInvariant, PTL DEF IInv

\* A wake_task call that found its task is carried by its caller, or its flag and a
\* bit (set, about to be set, or being served) lead the task's CPU to it.
THEOREM WakesNeverLost == Spec => []WakeOnItsWay
BY WakeInvariant, PTL DEF IInv

\* A step that ends a task's sleep serves a wake_task call for that very identity.
LEMMA StraylessStep ==
    ASSUME IInv, Next, NEW p \in Places, tasks[p] # None, tasks[p].blocked,
           tasks'[p].id = tasks[p].id, ~tasks'[p].blocked
    PROVE  tasks[p].id \in asked
<1> USE DEF IInv
<1>1. ASSUME NEW i \in asked, i \in Ids, Located(i), ApplyWake(i) PROVE tasks[p].id \in asked
  <2>1. p = where[SlotOf(i)].place
    BY <1>1, AppliedWake, Zenon
  <2> QED BY <1>1, <2>1, LocatedTask, Zenon
<1>2. ASSUME tasks' = tasks PROVE FALSE
  BY <1>2, Zenon
<1>3. ASSUME NEW w \in Workers, NEW c \in Cpus, Spawn(w, c) PROVE FALSE
  <2>1. PICK s \in Slots, q \in Places :
         /\ SlotFree(s)
         /\ tasks' = [tasks EXCEPT ![q] = [id |-> <<s, generation[s] + 1>>, blocked |-> FALSE, pending |-> FALSE,
                                           finished |-> FALSE, reaped |-> FALSE]]
    BY <1>3, Zenon DEF Spawn
  <2>2. q = p /\ tasks[p].id = <<s, generation[s] + 1>>
    BY <2>1, Zenon DEF TypeOK
  <2>3. tasks[p].id[2] = generation[s] + 1 /\ SlotOf(tasks[p].id) = s
    <3>1. \A x : x = <<s, generation[s] + 1>> => x[2] = generation[s] + 1 /\ x[1] = s
      OBVIOUS
    <3> QED BY <2>2, <3>1, Zenon DEF SlotOf
  <2>4. tasks[p].id[2] <= generation[s] /\ generation[s] \in Nat
    BY <2>3 DEF Housed, TypeOK
  <2> QED BY <2>3, <2>4
<1>4. ASSUME NEW w \in Workers, WakeLocal(w) PROVE tasks[p].id \in asked
  <2>1. target[w] \in asked /\ target[w] \in Ids
    BY <1>4, Zenon DEF WakeLocal, At, WakesIssued, TypeOK
  <2> QED BY <1>1, <1>2, <1>4, <2>1, Zenon DEF WakeLocal, Skip, TaskMatches
<1>5. ASSUME NEW c \in Cpus, DrainApply(c) PROVE tasks[p].id \in asked
  <2>1. CASE TaskMatches(c, hand[c]) /\ flag[SlotOf(hand[c])]
    <3>1. hand[c] \in Ids /\ SlotOf(hand[c]) \in Slots /\ Located(hand[c])
      <4>1. hand[c] \in Ids
        BY <1>5, Zenon DEF DrainApply, TypeOK
      <4> QED BY <2>1, <4>1, Shapes, Zenon DEF TaskMatches
    <3>2. hand[c] \in asked
      BY <2>1, <3>1, Zenon DEF WakesIssued, Located
    <3> QED BY <1>1, <1>5, <2>1, <3>1, <3>2, Zenon DEF DrainApply
  <2>2. CASE ~(TaskMatches(c, hand[c]) /\ flag[SlotOf(hand[c])])
    BY <1>2, <1>5, <2>2, Zenon DEF DrainApply, Skip
  <2> QED BY <2>1, <2>2, Zenon
<1>6. ASSUME NEW c \in Cpus, Park(c) \/ Exit(c) PROVE FALSE
  <2> DEFINE q == <<c, current[c]>>
  <2>1. q \in Places /\ tasks[q] \in Task /\ ~tasks[q].blocked
    <3>1. current[c] \in Indices /\ tasks[q] # None /\ ~tasks[q].blocked
      BY <1>6, Zenon DEF Park, Exit, TypeOK, CurrentAwake
    <3> QED BY <3>1, Shapes DEF TypeOK
  <2>2. \A r \in Places \ {q} : tasks'[r] = tasks[r]
    BY <1>6, <2>1, Zenon DEF Park, Exit, TypeOK
  <2> QED BY <2>1, <2>2, Zenon
<1>7. ASSUME NEW w \in Workers, ReapOne(w) PROVE FALSE
  <2>1. PICK i \in batch[w] : \/ tasks' = tasks
                              \/ Located(i) /\ tasks' = [tasks EXCEPT ![where[SlotOf(i)].place].reaped = TRUE]
    BY <1>7, Zenon DEF ReapOne
  <2> DEFINE q == where[SlotOf(i)].place
  <2>2. Located(i) => q \in Places /\ tasks[q] \in Task
    BY LocatedTask, Zenon DEF TypeOK
  <2>3. tasks[p] \in Task
    BY Zenon DEF TypeOK
  <2> HIDE DEF q
  <2>4. tasks' = tasks \/ (q \in Places /\ tasks' = [tasks EXCEPT ![q].reaped = TRUE])
    BY <2>1, <2>2, Zenon DEF q
  <2>5. tasks'[p] = tasks[p] \/ tasks'[p] = [tasks[p] EXCEPT !.reaped = TRUE]
    BY <2>4, Zenon DEF TypeOK
  <2> QED BY <2>3, <2>5, Zenon DEF Task
<1>8. ASSUME NEW w \in Workers,
             Locate(w) \/ PublishWake(w) \/ Post(w) \/ ReapBegin(w) \/ ReapTake(w) \/ ReapEnd(w)
      PROVE  FALSE
  BY <1>2, <1>8, Zenon DEF Locate, PublishWake, Post, ReapBegin, ReapTake, ReapEnd
<1>9. ASSUME NEW c \in Cpus,
             \/ Enter(c) \/ DrainMore(c) \/ DrainTake(c) \/ DrainEnd(c) \/ Switch(c)
             \/ QueueForReaper(c) \/ Tick(c)
      PROVE  FALSE
  BY <1>2, <1>9, Zenon DEF Enter, DrainMore, DrainTake, DrainEnd, Switch, QueueForReaper, Tick
<1> QED BY <1>3, <1>4, <1>5, <1>6, <1>7, <1>8, <1>9, Zenon DEF Next, Start, Finish, SchedStep, TaskStep

\* Neither a flag nor a bit of an earlier generation of a slot ends the sleep of the
\* task that has the slot now: only a wake_task call for its own identity does.
THEOREM SleepEndsByOwnWake == Spec => NoStrayUnblock
<1>1. IInv /\ [Next]_vars =>
        [\A p \in Places :
           (tasks[p] # None /\ tasks[p].blocked /\ tasks'[p].id = tasks[p].id /\ ~tasks'[p].blocked)
              => tasks[p].id \in asked]_vars
  BY StraylessStep, Zenon
<1> QED BY <1>1, WakeInvariant, PTL DEF Spec, NoStrayUnblock
=============================================================================
