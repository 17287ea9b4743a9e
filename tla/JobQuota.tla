------------------------------ MODULE JobQuota ------------------------------
(***************************************************************************)
(* The job tree and what it is charged for: hierarchical limits (huesos-   *)
(* quota), jobs with their exhaustion notifications (huesos-object job.rs) *)
(* and the memory objects that hold physical frames on a job's account     *)
(* (vmo.rs).  Memory is counted in pages; handles and CPU ticks go through *)
(* the same tree with the same code.                                       *)
(*                                                                         *)
(* The tree lock, the frame allocator's lock and the notification ring's   *)
(* lock are separate: charging, taking frames one by one, and giving back  *)
(* what a failed allocation charged are separate steps.                    *)
(***************************************************************************)
EXTENDS Integers, Sequences, FiniteSets, FiniteSetsExt

CONSTANTS JobIds,         \* indices of QuotaTree.nodes, in creation order
          RootJob,
          JobLimits,      \* limits a job may be given, Unlimited among them
          Vmos, MaxVmoPages,
          FreeFramesAtBoot,
          MaxQuotaEvents, \* MAX_PENDING_QUOTA_EVENTS
          MaxQuotaPorts,
          PortJobs,       \* bound: the jobs whose exhaustion some process watches
          MaxNotified     \* bound on the packets counted

Unlimited == 1000         \* UNLIMITED: not compared with any amount
NoJob == "none"

ASSUME QuotaAssumption ==
    /\ IsFiniteSet(JobIds) /\ IsFiniteSet(Vmos)
    /\ RootJob \in JobIds /\ NoJob \notin JobIds
    /\ JobLimits \subseteq Nat /\ MaxVmoPages \in Nat /\ FreeFramesAtBoot \in Nat

NoVmo == [job |-> NoJob, frames |-> 0, want |-> 0, st |-> "none"]

VARIABLES jobParent, jobLimit, jobUsed, jobActive,  \* Node
          jobPublished, \* jobs some handle names
          vmo,          \* per VMO: owner, frames held, pages wanted, program point
          freeFrames,   \* huesos-pmm
          quotaEvents,  \* PENDING_QUOTA_EVENTS (its count of lost events is left out)
          quotaPorts,   \* per job: number of bound ports
          notified      \* packets queued by the flush

jqTree == <<jobParent, jobLimit, jobUsed, jobActive, jobPublished>>
jqNotify == <<quotaEvents, quotaPorts, notified>>
jqVars == <<jqTree, vmo, freeFrames, jqNotify>>

QuotaInit ==
    /\ jobParent = [j \in JobIds |-> NoJob]
    /\ jobLimit = [j \in JobIds |-> Unlimited]
    /\ jobUsed = [j \in JobIds |-> 0]
    /\ jobActive = {RootJob} /\ jobPublished = {RootJob}
    /\ vmo = [v \in Vmos |-> NoVmo]
    /\ freeFrames = FreeFramesAtBoot
    /\ quotaEvents = <<>>
    /\ quotaPorts = [j \in JobIds |-> 0] /\ notified = 0

-----------------------------------------------------------------------------
(* QuotaTree *)

\* The nodes from j up to its root along the parent links: the least set that
\* holds j and the parent of each of its members.
ParentClosed(parent, S) == \A k \in S : parent[k] \in JobIds => parent[k] \in S
Ancestors(parent, j) ==
    {a \in JobIds : \A S \in SUBSET JobIds : (j \in S /\ ParentClosed(parent, S)) => a \in S}
Subtree(j) == {k \in jobActive : j \in Ancestors(jobParent, k)}

\* The sum of f over S.
QuotaTotal(S, f) == Cardinality(UNION {{x} \X (1 .. f[x]) : x \in S})

\* subtree_usage_index: usage of a node and of everything below it.
SubtreeUsage(j) == QuotaTotal(Subtree(j), jobUsed)

Within(amount, limit) == limit = Unlimited \/ amount <= limit

\* try_acquire asks every node from the charged one up to the root.
TryAcquire(j, amount) ==
    /\ j \in jobActive
    /\ \A a \in Ancestors(jobParent, j) : Within(SubtreeUsage(a) + amount, jobLimit[a])

\* enqueue_quota_exhaustion: a full ring gives up its oldest event.
PushEvent(j) ==
    quotaEvents' = Append(IF Len(quotaEvents) < MaxQuotaEvents THEN quotaEvents
                          ELSE Tail(quotaEvents), j)

\* Job::charge, then (on another lock) the notification of a refusal.
Charge(j, amount) == jobUsed' = [jobUsed EXCEPT ![j] = @ + amount]
Release(j, amount) ==
    jobUsed' = [jobUsed EXCEPT ![j] = IF @ < amount THEN 0 ELSE @ - amount]

-----------------------------------------------------------------------------
(* Jobs *)

\* Job::child adds a node.
CreateJob(p, j, limit) ==
    /\ p \in jobPublished /\ j \notin jobActive /\ jobParent[j] = NoJob /\ j # RootJob
    /\ jobActive' = jobActive \cup {j}
    /\ jobParent' = [jobParent EXCEPT ![j] = p]
    /\ jobLimit' = [jobLimit EXCEPT ![j] = limit]
    /\ UNCHANGED <<jobUsed, jobPublished, vmo, freeFrames, jqNotify>>

\* The handle insertion succeeds and other syscalls can name the job, ...
PublishJob(j) ==
    /\ j \in jobActive \ jobPublished
    /\ jobPublished' = jobPublished \cup {j}
    /\ UNCHANGED <<jobParent, jobLimit, jobUsed, jobActive, vmo, freeFrames, jqNotify>>

\* ... or fails, and remove_leaf takes the node back (it refuses a node that has
\* children or usage).
RollbackJob(j) ==
    /\ j \in jobActive \ jobPublished
    /\ jobUsed[j] = 0 /\ \A k \in jobActive : jobParent[k] # j
    /\ jobActive' = jobActive \ {j}
    /\ jobParent' = [jobParent EXCEPT ![j] = NoJob]
    /\ jobLimit' = [jobLimit EXCEPT ![j] = Unlimited]
    /\ UNCHANGED <<jobUsed, jobPublished, vmo, freeFrames, jqNotify>>

\* Job::set_limits: a limit below what the subtree already uses is refused.
SetLimits(j, limit) ==
    /\ j \in jobPublished /\ limit # jobLimit[j]
    /\ Within(SubtreeUsage(j), limit)
    /\ jobLimit' = [jobLimit EXCEPT ![j] = limit]
    /\ UNCHANGED <<jobParent, jobUsed, jobActive, jobPublished, vmo, freeFrames, jqNotify>>

BindQuotaPort(j) ==
    /\ j \in jobPublished \cap PortJobs /\ quotaPorts[j] < MaxQuotaPorts
    /\ quotaPorts' = [quotaPorts EXCEPT ![j] = @ + 1]
    /\ UNCHANGED <<jqTree, vmo, freeFrames, quotaEvents, notified>>

\* flush_pending_quota_notifications, from process context.
FlushNotifications ==
    /\ quotaEvents # <<>>
    /\ quotaEvents' = <<>>
    /\ notified' = Min({MaxNotified,
           notified + FoldFunction(LAMBDA j, acc : acc + quotaPorts[j], 0, quotaEvents)})
    /\ UNCHANGED <<jqTree, vmo, freeFrames, quotaPorts>>

-----------------------------------------------------------------------------
(* Memory objects *)

\* Vmo::new_in_job and Vmo::set_size: the whole request is charged first; a
\* refused charge leaves an exhaustion event and nothing else.
RequestPages(v, j, pages) ==
    /\ j \in jobPublished
    /\ \/ vmo[v] = NoVmo /\ pages > 0
       \/ vmo[v].st = "ready" /\ vmo[v].job = j /\ pages > vmo[v].frames
    /\ LET more == pages - vmo[v].frames
           next == IF vmo[v] = NoVmo THEN "create" ELSE "grow"
       IN IF TryAcquire(j, more)
          THEN /\ Charge(j, more)
               /\ vmo' = [vmo EXCEPT ![v] = [@ EXCEPT !.job = j, !.want = pages, !.st = next]]
               /\ UNCHANGED quotaEvents
          ELSE PushEvent(j) /\ UNCHANGED <<jobUsed, vmo>>
    /\ UNCHANGED <<jobParent, jobLimit, jobActive, jobPublished, freeFrames, quotaPorts, notified>>

\* One alloc_frame of the loop, or its end.
TakeFrame(v) ==
    /\ vmo[v].st \in {"create", "grow"}
    /\ \/ /\ vmo[v].frames < vmo[v].want /\ freeFrames > 0
          /\ freeFrames' = freeFrames - 1
          /\ vmo' = [vmo EXCEPT ![v].frames = @ + 1]
       \/ /\ vmo[v].frames = vmo[v].want
          /\ vmo' = [vmo EXCEPT ![v].st = "ready"]
          /\ UNCHANGED freeFrames
    /\ UNCHANGED <<jqTree, jqNotify>>

\* Mutant: a failed growth gives back the whole charge, not what it did not get.
OutOfFramesAll(v) ==
    /\ vmo[v].st \in {"create", "grow"}
    /\ vmo[v].frames < vmo[v].want /\ freeFrames = 0
    /\ IF vmo[v].st = "create"
       THEN /\ Release(vmo[v].job, vmo[v].want)
            /\ freeFrames' = freeFrames + vmo[v].frames
            /\ vmo' = [vmo EXCEPT ![v] = NoVmo]
       ELSE /\ Release(vmo[v].job, vmo[v].want)
            /\ vmo' = [vmo EXCEPT ![v].want = vmo[v].frames, ![v].st = "ready"]
            /\ UNCHANGED freeFrames
    /\ UNCHANGED <<jobParent, jobLimit, jobActive, jobPublished, jqNotify>>

\* alloc_frame fails.  A new VMO frees what it got and its whole charge; a
\* growing one keeps what it got and gives back the charge for the rest.
OutOfFrames(v) ==
    /\ vmo[v].st \in {"create", "grow"}
    /\ vmo[v].frames < vmo[v].want /\ freeFrames = 0
    /\ IF vmo[v].st = "create"
       THEN /\ Release(vmo[v].job, vmo[v].want)
            /\ freeFrames' = freeFrames + vmo[v].frames
            /\ vmo' = [vmo EXCEPT ![v] = NoVmo]
       ELSE /\ Release(vmo[v].job, vmo[v].want - vmo[v].frames)
            /\ vmo' = [vmo EXCEPT ![v].want = vmo[v].frames, ![v].st = "ready"]
            /\ UNCHANGED freeFrames
    /\ UNCHANGED <<jobParent, jobLimit, jobActive, jobPublished, jqNotify>>

\* Drop for Vmo.
DropVmo(v) ==
    /\ vmo[v].st = "ready"
    /\ Release(vmo[v].job, vmo[v].frames)
    /\ freeFrames' = freeFrames + vmo[v].frames
    /\ vmo' = [vmo EXCEPT ![v] = NoVmo]
    /\ UNCHANGED <<jobParent, jobLimit, jobActive, jobPublished, jqNotify>>

-----------------------------------------------------------------------------
QuotaNext ==
    \/ \E p, j \in JobIds, l \in JobLimits : CreateJob(p, j, l)
    \/ \E j \in JobIds : PublishJob(j) \/ RollbackJob(j) \/ BindQuotaPort(j)
    \/ \E j \in JobIds, l \in JobLimits : SetLimits(j, l)
    \/ FlushNotifications
    \/ \E v \in Vmos, j \in JobIds, n \in 1 .. MaxVmoPages : RequestPages(v, j, n)
    \/ \E v \in Vmos : TakeFrame(v) \/ OutOfFrames(v) \/ DropVmo(v)

QuotaSpec == QuotaInit /\ [][QuotaNext]_jqVars

\* No job tree ever exceeds a limit, neither that of the charged job nor that of
\* an ancestor (try_acquire, set_limits).
LimitsKept == \A j \in jobActive : Within(SubtreeUsage(j), jobLimit[j])

\* A job is charged for exactly the frames its memory objects hold or an
\* allocation in progress has been promised, and every frame is free or held.
ChargesExact ==
    /\ \A j \in JobIds :
           jobUsed[j] = QuotaTotal({v \in Vmos : vmo[v].job = j}, [v \in Vmos |-> vmo[v].want])
    /\ freeFrames + QuotaTotal(Vmos, [v \in Vmos |-> vmo[v].frames]) = FreeFramesAtBoot

\* Limits hold and nothing is charged twice, leaked by a rollback or released
\* uncharged, however charges, failed allocations, new limits and new jobs
\* interleave (try_acquire, set_limits, Vmo::new_in_job, set_size and drop).
QuotaSound == LimitsKept /\ ChargesExact
=============================================================================
