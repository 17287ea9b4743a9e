----------------------------- MODULE SpinLocks ------------------------------
(***************************************************************************)
(* huesos-arch sync.rs and huesos-sync: ticket locks taken with interrupts *)
(* off, and the per-CPU tracker of lock ranks that stops the machine when  *)
(* locks are taken against the order.  Every CPU runs code that takes any  *)
(* lock at any time (lock and try_lock) and releases the innermost one; so *)
(* do interrupt handlers, on a CPU whose interrupts are on.                *)
(***************************************************************************)
EXTENDS Integers, Sequences, FiniteSets, Functions

CONSTANTS LockCpus, Locks, LockRank,   \* rank of every lock
          MaxHeldLocks,              \* MAX_HELD_LOCKS
          TicketModulus              \* tickets are u32 and wrap

ASSUME LocksAssumption ==
    /\ IsFiniteSet(LockCpus) /\ "none" \notin Locks /\ LockRank \in [Locks -> 0 .. 255]
    /\ MaxHeldLocks \in Nat
    /\ TicketModulus \in Nat /\ Cardinality(LockCpus) < TicketModulus

VARIABLES nextTicket, nowServing,   \* TicketLock
          heldLocks,        \* per CPU: RankTracker.held, outermost first
          spin,        \* per CPU: the lock it spins for and its ticket, or NoSpin
          saved,       \* per CPU: was_enabled of the guards it holds, innermost last
          irqOn,       \* per CPU: interrupts enabled
          halted       \* CPUs stopped by rank_violation

slVars == <<nextTicket, nowServing, heldLocks, spin, saved, irqOn, halted>>

NoSpin == [lock |-> "none", ticket |-> 0]

LocksInit ==
    /\ nextTicket = [l \in Locks |-> 0] /\ nowServing = [l \in Locks |-> 0]
    /\ heldLocks = [c \in LockCpus |-> <<>>]
    /\ spin = [c \in LockCpus |-> NoSpin]
    /\ saved = [c \in LockCpus |-> <<>>]
    /\ irqOn = [c \in LockCpus |-> TRUE]
    /\ halted = {}

\* The guards of a CPU and what they saved are stacks.
Top(s) == s[Len(s)]
Below(s) == SubSeq(s, 1, Len(s) - 1)

Unblocked(c) == c \notin halted /\ spin[c] = NoSpin

\* Mutant: only recursion is refused, not taking a lower rank.
EnterAnyOrder(c, l) == Len(heldLocks[c]) < MaxHeldLocks /\ l \notin Range(heldLocks[c])

\* RankTracker::enter
Enter(c, l) ==
    /\ Len(heldLocks[c]) < MaxHeldLocks
    /\ l \notin Range(heldLocks[c])
    /\ heldLocks[c] # <<>> => LockRank[l] >= LockRank[Top(heldLocks[c])]

\* rank_violation: interrupts off, halt for ever.
RankViolation(c, l) ==
    /\ Unblocked(c) /\ ~Enter(c, l)
    /\ halted' = halted \cup {c}
    /\ irqOn' = [irqOn EXCEPT ![c] = FALSE]
    /\ UNCHANGED <<nextTicket, nowServing, heldLocks, spin, saved>>

\* RankedIrqSafeTicketLock::lock up to taking a ticket, ...
TakeTicket(c, l) ==
    /\ Unblocked(c) /\ Enter(c, l)
    /\ heldLocks' = [heldLocks EXCEPT ![c] = Append(@, l)]
    /\ saved' = [saved EXCEPT ![c] = Append(@, irqOn[c])]
    /\ irqOn' = [irqOn EXCEPT ![c] = FALSE]
    /\ spin' = [spin EXCEPT ![c] = [lock |-> l, ticket |-> nextTicket[l]]]
    /\ nextTicket' = [nextTicket EXCEPT ![l] = (@ + 1) % TicketModulus]
    /\ UNCHANGED <<nowServing, halted>>

\* ... and the end of the spinning.
Served(c) ==
    /\ spin[c] # NoSpin /\ nowServing[spin[c].lock] = spin[c].ticket
    /\ spin' = [spin EXCEPT ![c] = NoSpin]
    /\ UNCHANGED <<nextTicket, nowServing, heldLocks, saved, irqOn, halted>>

\* try_lock: a ticket is taken only if it is the one being served; a failed
\* exchange leaves the tracker and the interrupts as they were.
TryLock(c, l) ==
    /\ Unblocked(c) /\ Enter(c, l)
    /\ nextTicket[l] = nowServing[l]
    /\ nextTicket' = [nextTicket EXCEPT ![l] = (@ + 1) % TicketModulus]
    /\ heldLocks' = [heldLocks EXCEPT ![c] = Append(@, l)]
    /\ saved' = [saved EXCEPT ![c] = Append(@, irqOn[c])]
    /\ irqOn' = [irqOn EXCEPT ![c] = FALSE]
    /\ UNCHANGED <<nowServing, spin, halted>>

\* Guard drop: unlock, leave the tracker (innermost only), restore interrupts.
UnlockTicket(c) ==
    /\ Unblocked(c) /\ heldLocks[c] # <<>>
    /\ nowServing' = [nowServing EXCEPT ![Top(heldLocks[c])] = (@ + 1) % TicketModulus]
    /\ heldLocks' = [heldLocks EXCEPT ![c] = Below(@)]
    /\ irqOn' = [irqOn EXCEPT ![c] = Top(saved[c])]
    /\ saved' = [saved EXCEPT ![c] = Below(@)]
    /\ UNCHANGED <<nextTicket, spin, halted>>

LocksNext ==
    \/ \E c \in LockCpus, l \in Locks :
           RankViolation(c, l) \/ TakeTicket(c, l) \/ TryLock(c, l)
    \/ \E c \in LockCpus : Served(c) \/ UnlockTicket(c)

LocksSpec == LocksInit /\ [][LocksNext]_slVars

Owners(l) == {c \in LockCpus : l \in Range(heldLocks[c]) /\ spin[c].lock # l}
WaitsFor(c, d) == spin[c] # NoSpin /\ d \in Owners(spin[c].lock)

\* CPUs that all spin for locks of each other.
Circle(S) == S # {} /\ \A c \in S : \E d \in S : WaitsFor(c, d)

\* A lock has one owner at a time even when tickets wrap, a CPU that owns one has
\* interrupts off, and the CPUs that spin for locks never wait for each other in a
\* circle: whatever code takes which locks, rank checking stops it before that.
LocksSafe ==
    /\ \A l \in Locks : Cardinality(Owners(l)) <= 1
    /\ \A c \in LockCpus : heldLocks[c] # <<>> => ~irqOn[c]
    /\ \A S \in SUBSET LockCpus : ~Circle(S)
=============================================================================
