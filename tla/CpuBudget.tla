----------------------------- MODULE CpuBudget ------------------------------
(***************************************************************************)
(* huesos-sched lib.rs: the runtime budgets and the per-task state machine *)
(* of the scheduler.  A constant-bandwidth server (CbsRuntime with its     *)
(* bounded RefillRing, admitted by AdmissionControl), the per-period quota *)
(* of a job split over CPUs (JobBandwidth), and the life of one task       *)
(* (TaskLifecycle) with wakers that remember the wait epoch they saw.      *)
(***************************************************************************)
EXTENDS Integers, Sequences, FiniteSets, FiniteSetsExt

CONSTANTS BudgetCpus,
          Capacity, Deadline, Period,   \* CbsReservation, in ticks
          MaxRefills,                   \* REFILLS
          JobQuotaNs, JobPeriod, Slice,
          MaxTime, MaxEpoch, MaxMigrations

ASSUME BudgetAssumption ==
    IsFiniteSet(BudgetCpus) /\ JobQuotaNs \in Nat /\ Slice \in Nat \ {0} /\ MaxEpoch \in Nat

VARIABLES bdNow,                        \* the clock
          remaining, deadlineAt, refills,  \* CbsRuntime
          consumed,                     \* runtime charged at each time
          unissued, localNs, chargedNs, periodStart,  \* JobBandwidth
          life, accepted                \* TaskLifecycle; epochs whose wake was accepted

bdCbs == <<remaining, deadlineAt, refills, consumed>>
bdJob == <<unissued, localNs, chargedNs, periodStart>>
bdLife == <<life, accepted>>
bdVars == <<bdNow, bdCbs, bdJob, bdLife>>

NoCpu == "none"
NewLife == [state |-> "Embryo", owner |-> NoCpu, target |-> NoCpu, epoch |-> 0,
            migGen |-> 0, migFrom |-> NoCpu, wakePending |-> FALSE]

BudgetInit ==
    /\ bdNow = 0
    /\ remaining = Capacity /\ deadlineAt = Deadline /\ refills = <<>>
    /\ consumed = [t \in 0 .. MaxTime |-> 0]
    /\ unissued = JobQuotaNs /\ localNs = [c \in BudgetCpus |-> 0] /\ chargedNs = 0
    /\ periodStart = 0
    /\ life = NewLife /\ accepted = {}

SumOver(f, S) == FoldSet(LAMBDA x, acc : acc + f[x], 0, S)

PassTime ==
    /\ bdNow < MaxTime
    /\ bdNow' = bdNow + 1
    /\ UNCHANGED <<bdCbs, bdJob, bdLife>>

-----------------------------------------------------------------------------
(* CbsRuntime *)

\* Mutant: a full ring adds to the refill that comes first.
ScheduleRefillFirst(ring, refill) ==
    IF Len(ring) < MaxRefills THEN Append(ring, refill)
    ELSE LET i == CHOOSE k \in DOMAIN ring : \A j \in DOMAIN ring : ring[k].at <= ring[j].at
         IN [ring EXCEPT ![i].amount = @ + refill.amount]

\* RefillRing::schedule: a full ring merges with its latest entry, at the later time.
ScheduleRefill(ring, refill) ==
    IF Len(ring) < MaxRefills THEN Append(ring, refill)
    ELSE LET i == CHOOSE k \in DOMAIN ring : \A j \in DOMAIN ring : ring[k].at >= ring[j].at
         IN [ring EXCEPT ![i] = [at |-> Max({@.at, refill.at}), amount |-> @.amount + refill.amount]]

\* CbsRuntime::charge; more than the remaining budget is refused.
ChargeRuntime(ns) ==
    /\ ns <= remaining
    /\ remaining' = remaining - ns
    /\ refills' = ScheduleRefill(refills, [at |-> bdNow + Period, amount |-> ns])
    /\ consumed' = [consumed EXCEPT ![bdNow] = @ + ns]
    /\ UNCHANGED <<bdNow, deadlineAt, bdJob, bdLife>>

\* CbsRuntime::replenish: eligible refills come back (never above the capacity)
\* and a server with budget whose deadline passed gets a later one.
Replenish ==
    LET due == SelectSeq(refills, LAMBDA r : r.at <= bdNow)
        back == FoldFunction(LAMBDA r, acc : acc + r.amount, 0, due)
    IN /\ remaining' = Min({remaining + back, Capacity})
       /\ refills' = SelectSeq(refills, LAMBDA r : r.at > bdNow)
       /\ deadlineAt' = IF bdNow >= deadlineAt /\ remaining' # 0
                        THEN deadlineAt + ((bdNow - deadlineAt) \div Period + 1) * Period
                        ELSE deadlineAt
       /\ UNCHANGED <<bdNow, consumed, bdJob, bdLife>>

-----------------------------------------------------------------------------
(* JobBandwidth *)

ReserveLocal(c) ==
    LET granted == Min({Slice, unissued}) IN
    /\ granted > 0
    /\ localNs' = [localNs EXCEPT ![c] = @ + granted]
    /\ unissued' = unissued - granted
    /\ UNCHANGED <<bdNow, bdCbs, chargedNs, periodStart, bdLife>>

ChargeLocal(c, ns) ==
    /\ ns <= localNs[c]
    /\ localNs' = [localNs EXCEPT ![c] = @ - ns]
    /\ chargedNs' = chargedNs + ns
    /\ UNCHANGED <<bdNow, bdCbs, unissued, periodStart, bdLife>>

ReturnLocal(c) ==
    /\ localNs[c] > 0
    /\ localNs' = [localNs EXCEPT ![c] = 0]
    /\ unissued' = unissued + localNs[c]
    /\ UNCHANGED <<bdNow, bdCbs, chargedNs, periodStart, bdLife>>

\* Mutant: slices of the old period stay valid in the new one.
ReplenishKeepsSlices ==
    /\ bdNow - periodStart >= JobPeriod
    /\ periodStart' = periodStart + ((bdNow - periodStart) \div JobPeriod) * JobPeriod
    /\ unissued' = JobQuotaNs
    /\ chargedNs' = 0
    /\ UNCHANGED <<bdNow, bdCbs, localNs, bdLife>>

\* replenish_if_due: what CPUs still hold of the old period is void.
ReplenishJob ==
    /\ bdNow - periodStart >= JobPeriod
    /\ periodStart' = periodStart + ((bdNow - periodStart) \div JobPeriod) * JobPeriod
    /\ unissued' = JobQuotaNs
    /\ localNs' = [c \in BudgetCpus |-> 0]
    /\ chargedNs' = 0
    /\ UNCHANGED <<bdNow, bdCbs, bdLife>>

-----------------------------------------------------------------------------
(* TaskLifecycle *)

Lives(next, acc) ==
    /\ life' = next
    /\ accepted' = acc
    /\ UNCHANGED <<bdNow, bdCbs, bdJob>>

DeferReady(c) ==
    /\ life.state = "Embryo"
    /\ Lives([life EXCEPT !.state = "DeferredReady", !.target = c], accepted)

EnqueueReady(c) ==
    /\ life.state = "DeferredReady" /\ life.target = c
    /\ Lives([life EXCEPT !.state = "Ready", !.owner = c, !.target = NoCpu], accepted)

StartRunning(c) ==
    /\ life.state = "Ready" /\ life.owner = c
    /\ Lives([life EXCEPT !.state = "Running"], accepted)

Preempt(c) ==
    /\ life.state = "Running" /\ life.owner = c
    /\ Lives([life EXCEPT !.state = "Ready"], accepted)

\* begin_block with a fresh epoch, as the wait queues hand them out.
BeginBlock(c) ==
    /\ life.state = "Running" /\ life.owner = c /\ life.epoch < MaxEpoch
    /\ Lives([life EXCEPT !.state = "Blocking", !.epoch = @ + 1, !.wakePending = FALSE], accepted)

\* Mutant: the wake that came while the task was going to sleep is forgotten.
CompleteBlockAsleep(c) ==
    /\ life.state = "Blocking" /\ life.owner = c
    /\ Lives([life EXCEPT !.state = "Blocked"], accepted)

CompleteBlock(c) ==
    /\ life.state = "Blocking" /\ life.owner = c
    /\ Lives(IF life.wakePending
             THEN [life EXCEPT !.state = "Waking",
                               !.target = IF @ = NoCpu THEN c ELSE @]
             ELSE [life EXCEPT !.state = "Blocked"], accepted)

\* wake(target, epoch) by a waker that remembers an epoch; only the current one counts.
Wake(c, epoch) ==
    /\ epoch = life.epoch
    /\ \/ /\ life.state = "Blocking"
          /\ Lives([life EXCEPT !.wakePending = TRUE, !.target = c], accepted \cup {epoch})
       \/ /\ life.state = "Blocked"
          /\ Lives([life EXCEPT !.state = "Waking", !.target = c], accepted \cup {epoch})

CompleteWake(c, epoch) ==
    /\ life.state = "Waking" /\ life.target = c /\ life.epoch = epoch
    /\ Lives([life EXCEPT !.state = "Ready", !.owner = c, !.target = NoCpu,
                          !.wakePending = FALSE], accepted)

\* begin_migration of a task whose guards allow it, from the runqueue or asleep.
BeginMigration(c) ==
    /\ life.state \in {"Ready", "Blocked"} /\ life.owner # c /\ life.migGen < MaxMigrations
    /\ Lives([life EXCEPT !.state = "Migrating", !.migFrom = life.state, !.target = c,
                          !.migGen = @ + 1], accepted)

CommitMigration(c, gen) ==
    /\ life.state = "Migrating" /\ life.target = c /\ life.migGen = gen
    /\ Lives([life EXCEPT !.state = life.migFrom, !.owner = c, !.target = NoCpu,
                          !.migFrom = NoCpu], accepted)

RollbackMigration(gen) ==
    /\ life.state = "Migrating" /\ life.migGen = gen
    /\ Lives([life EXCEPT !.state = life.migFrom, !.target = NoCpu, !.migFrom = NoCpu], accepted)

BeginDying ==
    /\ life.state \in {"Ready", "Running", "Blocked"}
    /\ Lives([life EXCEPT !.state = "Dying", !.target = NoCpu, !.wakePending = FALSE], accepted)

MarkDead == life.state = "Dying" /\ Lives([life EXCEPT !.state = "Dead"], accepted)

Reap == life.state = "Dead" /\ Lives([life EXCEPT !.state = "Reaped", !.owner = NoCpu], accepted)

-----------------------------------------------------------------------------
CbsNext ==
    \/ PassTime
    \/ \E ns \in 1 .. Capacity : ChargeRuntime(ns)
    \/ Replenish

JobNext ==
    \/ PassTime
    \/ \E c \in BudgetCpus : ReserveLocal(c) \/ ReturnLocal(c)
    \/ \E c \in BudgetCpus, ns \in 1 .. JobQuotaNs : ChargeLocal(c, ns)
    \/ ReplenishJob

TaskNext ==
    \/ \E c \in BudgetCpus : \/ DeferReady(c) \/ EnqueueReady(c) \/ StartRunning(c) \/ Preempt(c)
                             \/ BeginBlock(c) \/ CompleteBlock(c) \/ BeginMigration(c)
    \/ \E c \in BudgetCpus, e \in 0 .. MaxEpoch : Wake(c, e) \/ CompleteWake(c, e)
    \/ \E c \in BudgetCpus, g \in 1 .. MaxMigrations : CommitMigration(c, g)
    \/ \E g \in 1 .. MaxMigrations : RollbackMigration(g)
    \/ BeginDying \/ MarkDead \/ Reap

BudgetSpec == BudgetInit /\ [][CbsNext \/ JobNext \/ TaskNext]_bdVars

\* No window of one period contains more runtime than the reservation allows,
\* although refills are merged when the ring is full and arrive late
\* (CbsRuntime::charge and replenish).
RuntimeWithinReservation ==
    /\ SumOver(consumed, {t \in 0 .. bdNow : t > bdNow - Period}) <= Capacity
    /\ remaining + FoldFunction(LAMBDA r, acc : acc + r.amount, 0, refills) = Capacity

\* A job never runs more than its quota on all CPUs together within one of its
\* periods: what was charged, what CPUs hold in slices (counted as a set of units)
\* and what is unissued add up to the quota, whichever CPUs reserve, charge and
\* return while the period ends (JobBandwidth).
JobWithinQuota ==
    unissued + Cardinality(UNION {{c} \X (1 .. localNs[c]) : c \in BudgetCpus}) + chargedNs = JobQuotaNs

\* A wake that was accepted for the current wait is never slept over: the task
\* leaves Blocking towards Waking, whatever migrations happen around it.
AcceptedWakeRuns == life.epoch \in accepted => life.state # "Blocked"
=============================================================================
