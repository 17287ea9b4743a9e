---------------------------- MODULE QuotaProofs -----------------------------
(***************************************************************************)
(* Locks and the accounts of jobs, for every value of their constants:     *)
(* ticket locks and lock ranks (SpinLocks), the CPU time of a job and the  *)
(* wakes it accepted (CpuBudget), and the quota tree of jobs (JobQuota).   *)
(*                                                                         *)
(* The quota tree needs sums over sets of jobs and VMOs. They are sizes of *)
(* sets of units here, so that the library's facts on cardinality serve    *)
(* and no induction over the data is needed.                               *)
(***************************************************************************)
EXTENDS SpinLocks, CpuBudget, JobQuota, FiniteSetTheorems, TLAPS

-----------------------------------------------------------------------------
(* Ticket locks and lock ranks *)

Tickets == 0 .. TicketModulus - 1
Spinning == [lock : Locks, ticket : Tickets]

LocksType ==
    /\ nextTicket \in [Locks -> Tickets] /\ nowServing \in [Locks -> Tickets]
    /\ heldLocks \in [LockCpus -> Seq(Locks)]
    /\ spin \in [LockCpus -> {NoSpin} \cup Spinning]
    /\ saved \in [LockCpus -> Seq(BOOLEAN)] /\ irqOn \in [LockCpus -> BOOLEAN]
    /\ halted \subseteq LockCpus

\* What the tracker of a CPU and its guards say: distinct locks by rank, interrupts
\* off from the first one on, and the lock a CPU spins for is the last it entered.
Ordered(h) == \A i, j \in 1 .. Len(h) : i < j => h[i] # h[j] /\ LockRank[h[i]] <= LockRank[h[j]]
NestingSound ==
    \A c \in LockCpus :
        /\ Ordered(heldLocks[c])
        /\ Len(saved[c]) = Len(heldLocks[c])
        /\ \A i \in 2 .. Len(saved[c]) : ~saved[c][i]
        /\ Len(heldLocks[c]) > 0 => ~irqOn[c]
        /\ spin[c] # NoSpin => Len(heldLocks[c]) > 0 /\ spin[c].lock = Top(heldLocks[c])

\* CPUs that hold a lock or a ticket for it, and how far a ticket is from being served.
Holders(l) == {c \in LockCpus : l \in Range(heldLocks[c])}
Ahead(now, t) == IF now <= t THEN t - now ELSE t - now + TicketModulus

\* The tickets given out and not yet served are those of the holders, one each; the
\* ticket being served is nobody else's while the lock has an owner.
TicketsAt(l) ==
    /\ Cardinality(Holders(l)) = Ahead(nowServing[l], nextTicket[l])
    /\ \A c \in LockCpus : spin[c].lock = l =>
          Ahead(nowServing[l], spin[c].ticket) < Ahead(nowServing[l], nextTicket[l])
    /\ \A c, d \in LockCpus : c # d /\ spin[c].lock = l /\ spin[d].lock = l
                                => spin[c].ticket # spin[d].ticket
    /\ \A c \in Owners(l), d \in Holders(l) :
          c # d => spin[d].lock = l /\ spin[d].ticket # nowServing[l]
TicketsSound == \A l \in Locks : TicketsAt(l)

LocksInv == LocksType /\ NestingSound /\ TicketsSound

\* The next ticket, in the 32-bit counter as anywhere else.
LEMMA NextTicket ==
    ASSUME NEW t \in Tickets
    PROVE  /\ (t + 1) % TicketModulus = IF t = TicketModulus - 1 THEN 0 ELSE t + 1
           /\ (t + 1) % TicketModulus \in Tickets
<1>1. CASE t = TicketModulus - 1
  BY <1>1, LocksAssumption DEF Tickets
<1>2. CASE t # TicketModulus - 1
  BY <1>2, LocksAssumption DEF Tickets
<1> QED BY <1>1, <1>2, Zenon

\* Entering a lock adds it to what a CPU holds; leaving the innermost removes it.
LEMMA Entered ==
    ASSUME NEW s \in Seq(Locks), NEW l \in Locks
    PROVE  /\ Append(s, l) \in Seq(Locks) /\ Len(Append(s, l)) = Len(s) + 1 /\ Len(s) \in Nat
           /\ \A i \in 1 .. Len(s) : Append(s, l)[i] = s[i]
           /\ Append(s, l)[Len(s) + 1] = l /\ Top(Append(s, l)) = l
           /\ Range(Append(s, l)) = Range(s) \cup {l}
<1>1. /\ Append(s, l) \in Seq(Locks) /\ Len(Append(s, l)) = Len(s) + 1 /\ Len(s) \in Nat
      /\ \A i \in 1 .. Len(s) : Append(s, l)[i] = s[i]
      /\ Append(s, l)[Len(s) + 1] = l
  OBVIOUS
<1>2. DOMAIN s = 1 .. Len(s) /\ DOMAIN Append(s, l) = 1 .. Len(s) + 1
  BY <1>1
<1>3. Range(Append(s, l)) \subseteq Range(s) \cup {l}
  BY <1>1, <1>2 DEF Range
<1>4. Range(s) \cup {l} \subseteq Range(Append(s, l))
  BY <1>1, <1>2 DEF Range
<1> QED BY <1>1, <1>3, <1>4, Zenon DEF Top

\* Leaving the innermost lock leaves the locks below it, in their order.
LEMMA LeftLock ==
    ASSUME NEW s \in Seq(Locks), Len(s) > 0, Ordered(s)
    PROVE  /\ Ordered(Below(s)) /\ Below(s) \in Seq(Locks) /\ Len(Below(s)) = Len(s) - 1 /\ Len(s) \in Nat
           /\ \A i \in 1 .. Len(s) - 1 : Below(s)[i] = s[i]
           /\ Top(s) \in Locks /\ Top(s) \in Range(s)
           /\ Range(Below(s)) = Range(s) \ {Top(s)}
<1>1. Len(s) \in Nat /\ DOMAIN s = 1 .. Len(s) /\ \A i \in 1 .. Len(s) : s[i] \in Locks
  OBVIOUS
<1>2. /\ Below(s) \in Seq(Locks) /\ Len(Below(s)) = Len(s) - 1
      /\ \A i \in 1 .. Len(s) - 1 : Below(s)[i] = s[i]
  <2>1. \A i \in 1 .. Len(s) - 1 : s[i] \in Locks
    BY <1>1
  <2>2. 1 \in Int /\ Len(s) - 1 \in Int
    BY <1>1
  <2>3. /\ SubSeq(s, 1, Len(s) - 1) \in Seq(Locks)
        /\ Len(SubSeq(s, 1, Len(s) - 1)) = IF 1 <= Len(s) - 1 THEN Len(s) - 1 - 1 + 1 ELSE 0
        /\ \A i \in 1 .. Len(s) - 1 - 1 + 1 : SubSeq(s, 1, Len(s) - 1)[i] = s[1 + i - 1]
    BY <2>1, <2>2
  <2> QED BY <1>1, <2>3 DEF Below
<1>3. DOMAIN Below(s) = 1 .. Len(s) - 1
  BY <1>1, <1>2
<1>4. Top(s) \in Locks /\ Top(s) \in Range(s)
  BY <1>1 DEF Top, Range
<1>5. Range(Below(s)) \subseteq Range(s) \ {Top(s)}
  BY <1>1, <1>2, <1>3 DEF Top, Range, Ordered
<1>6. Range(s) \ {Top(s)} \subseteq Range(Below(s))
  BY <1>1, <1>2, <1>3 DEF Top, Range
<1>7. Ordered(Below(s))
  BY <1>1, <1>2 DEF Ordered
<1> QED BY <1>1, <1>2, <1>4, <1>5, <1>6, <1>7, Zenon

\* Ranks are ordered.
LEMMA RanksTransitive == \A a, b, c \in 0 .. 255 : a <= b /\ b <= c => a <= c
OBVIOUS

\* A lock of a rank not below the innermost one keeps the order.
LEMMA EnteredInOrder ==
    ASSUME NEW h \in Seq(Locks), Ordered(h), NEW l \in Locks, l \notin Range(h),
           h # <<>> => LockRank[l] >= LockRank[Top(h)]
    PROVE  Ordered(Append(h, l))
<1> DEFINE n == Len(h)
           g == Append(h, l)
<1>1. /\ n \in Nat /\ DOMAIN h = 1 .. n /\ Len(g) = n + 1 /\ g[n + 1] = l
      /\ \A i \in 1 .. n : g[i] = h[i] /\ h[i] \in Locks /\ LockRank[h[i]] \in 0 .. 255
  BY Entered, LocksAssumption
<1>2. LockRank[l] \in 0 .. 255
  BY LocksAssumption, Zenon
<1>3. \A i \in 1 .. n : h[i] # l
  BY <1>1, Zenon DEF Range
<1>4. \A i \in 1 .. n : LockRank[h[i]] <= LockRank[l]
  <2> SUFFICES ASSUME NEW i \in 1 .. n PROVE LockRank[h[i]] <= LockRank[l]
    BY Zenon
  <2>1. h # <<>> /\ n \in 1 .. n
    BY <1>1
  <2>2. LockRank[h[n]] <= LockRank[l]
    BY <1>1, <1>2, <2>1, Zenon DEF Top
  <2>3. i = n \/ i < n
    <3>1. n \in Nat
      BY <1>1, Zenon
    <3> HIDE DEF n
    <3> QED BY <3>1
  <2>4. i < n => LockRank[h[i]] <= LockRank[h[n]]
    BY <2>1, Zenon DEF Ordered
  <2>5. LockRank[h[i]] \in 0 .. 255 /\ LockRank[h[n]] \in 0 .. 255
    BY <1>1, <2>1, Zenon
  <2> QED BY <1>2, <2>2, <2>3, <2>4, <2>5, RanksTransitive, Zenon
<1> HIDE DEF g, n
<1>5. ASSUME NEW i \in 1 .. n + 1, NEW j \in 1 .. n + 1, i < j
      PROVE  g[i] # g[j] /\ LockRank[g[i]] <= LockRank[g[j]]
  <2>1. i \in 1 .. n
    BY <1>1, <1>5
  <2>2. CASE j = n + 1
    BY <1>1, <1>3, <1>4, <2>1, <2>2, Zenon
  <2>3. CASE j \in 1 .. n
    BY <1>1, <1>5, <2>1, <2>3 DEF Ordered, n
  <2> QED BY <1>1, <2>2, <2>3
<1> QED BY <1>1, <1>5, Zenon DEF Ordered, g

\* How far tickets are apart when one is given out or one more is served.
LEMMA AheadFacts ==
    ASSUME NEW now \in Tickets, NEW t \in Tickets
    PROVE  /\ Ahead(now, t) \in 0 .. TicketModulus - 1
           /\ Ahead(now, t) = 0 <=> now = t
           /\ \A u \in Tickets : Ahead(now, t) = Ahead(now, u) => t = u
           /\ Ahead(now, t) + 1 < TicketModulus => Ahead(now, (t + 1) % TicketModulus) = Ahead(now, t) + 1
           /\ Ahead(now, t) >= 1 => Ahead((now + 1) % TicketModulus, t) = Ahead(now, t) - 1
<1>1. /\ Ahead(now, t) \in 0 .. TicketModulus - 1
      /\ Ahead(now, t) = 0 <=> now = t
  BY LocksAssumption DEF Tickets, Ahead
<1>2. \A u \in Tickets : Ahead(now, t) = Ahead(now, u) => t = u
  BY LocksAssumption DEF Tickets, Ahead
<1>3. Ahead(now, t) + 1 < TicketModulus => Ahead(now, (t + 1) % TicketModulus) = Ahead(now, t) + 1
  <2> DEFINE n == (t + 1) % TicketModulus
  <2>1. n = IF t = TicketModulus - 1 THEN 0 ELSE t + 1
    BY NextTicket, Zenon
  <2> HIDE DEF n
  <2> QED BY <2>1, LocksAssumption DEF Tickets, Ahead
<1>4. Ahead(now, t) >= 1 => Ahead((now + 1) % TicketModulus, t) = Ahead(now, t) - 1
  <2> DEFINE n == (now + 1) % TicketModulus
  <2>1. n = IF now = TicketModulus - 1 THEN 0 ELSE now + 1
    BY NextTicket, Zenon
  <2> HIDE DEF n
  <2> QED BY <2>1, LocksAssumption DEF Tickets, Ahead
<1> QED BY <1>1, <1>2, <1>3, <1>4, Zenon

\* Spinning CPUs hold a place in the queue of their lock.
LEMMA SpinnersHold ==
    ASSUME LocksType, NestingSound, NEW c \in LockCpus
    PROVE  /\ spin[c] # NoSpin => /\ spin[c] \in Spinning /\ spin[c].lock \in Locks /\ spin[c].ticket \in Tickets
                                  /\ c \in Holders(spin[c].lock)
           /\ \A l \in Locks : spin[c].lock = l => spin[c] # NoSpin
<1>1. NoSpin.lock \notin Locks
  BY LocksAssumption, Zenon DEF NoSpin
<1>2. spin[c] # NoSpin => spin[c] \in Spinning /\ spin[c].lock \in Locks /\ spin[c].ticket \in Tickets
  BY Zenon DEF LocksType, Spinning
<1>3. spin[c] # NoSpin => c \in Holders(spin[c].lock)
  BY LeftLock, Zenon DEF NestingSound, LocksType, Holders
<1> QED BY <1>1, <1>2, <1>3, Zenon

\* What a step that concerns other locks leaves of a lock's queue.
LEMMA TicketsFrame ==
    ASSUME NEW l \in Locks, TicketsAt(l), UNCHANGED <<Holders(l), nextTicket[l], nowServing[l]>>,
           \A c \in LockCpus : /\ spin'[c].lock = l <=> spin[c].lock = l
                               /\ spin[c].lock = l => spin'[c].ticket = spin[c].ticket
    PROVE  TicketsAt(l)'
<1>1. \A c : /\ c \in Owners(l)' <=> c \in Holders(l)' /\ spin'[c].lock # l
             /\ c \in Owners(l) <=> c \in Holders(l) /\ spin[c].lock # l
             /\ c \in Holders(l) => c \in LockCpus
  BY Zenon DEF Owners, Holders
<1>2. \A c : c \in Owners(l)' <=> c \in Owners(l)
  BY <1>1, Zenon
<1>3. Cardinality(Holders(l))' = Ahead(nowServing[l], nextTicket[l])'
  BY Zenon DEF TicketsAt, Ahead
<1>4. \A c \in LockCpus : spin'[c].lock = l =>
          Ahead(nowServing'[l], spin'[c].ticket) < Ahead(nowServing'[l], nextTicket'[l])
  BY Zenon DEF TicketsAt
<1>5. \A c, d \in LockCpus : c # d /\ spin'[c].lock = l /\ spin'[d].lock = l
                                => spin'[c].ticket # spin'[d].ticket
  BY DEF TicketsAt
<1>6. \A c \in Owners(l)', d \in Holders(l)' :
          c # d => spin'[d].lock = l /\ spin'[d].ticket # nowServing'[l]
  BY <1>1, <1>2 DEF TicketsAt
<1> QED BY <1>3, <1>4, <1>5, <1>6, Zenon DEF TicketsAt

\* The number of holders of a lock is limited by the number of CPUs.
LEMMA HoldersFinite ==
    ASSUME NEW l \in Locks
    PROVE  /\ IsFiniteSet(Holders(l)) /\ Cardinality(Holders(l)) \in Nat
           /\ \A c \in LockCpus : c \notin Holders(l) => Cardinality(Holders(l)) < Cardinality(LockCpus)
           /\ Cardinality(Holders(l)) = 0 <=> Holders(l) = {}
<1>1. Holders(l) \in SUBSET LockCpus
  BY Zenon DEF Holders
<1>2. /\ IsFiniteSet(Holders(l)) /\ Cardinality(Holders(l)) <= Cardinality(LockCpus)
      /\ Cardinality(LockCpus) = Cardinality(Holders(l)) => LockCpus = Holders(l)
  BY <1>1, FS_Subset, LocksAssumption, Zenon
<1>3. Cardinality(Holders(l)) \in Nat /\ Cardinality(LockCpus) \in Nat
  BY <1>2, FS_CardinalityType, LocksAssumption, Zenon
<1>4. Cardinality(Holders(l)) = 0 <=> Holders(l) = {}
  BY <1>2, FS_EmptySet, Zenon
<1> QED BY <1>2, <1>3, <1>4

\* A CPU that enters a lock, with or without a ticket to wait on, nests it soundly.
LEMMA EnterNests ==
    ASSUME LocksType, NestingSound, NEW c \in LockCpus, NEW l \in Locks, Enter(c, l),
           heldLocks' = [heldLocks EXCEPT ![c] = Append(@, l)],
           saved' = [saved EXCEPT ![c] = Append(@, irqOn[c])],
           irqOn' = [irqOn EXCEPT ![c] = FALSE],
           \A d \in LockCpus \ {c} : spin'[d] = spin[d],
           spin'[c] = NoSpin \/ spin'[c].lock = l
    PROVE  /\ NestingSound' /\ c \notin Holders(l)
           /\ heldLocks' \in [LockCpus -> Seq(Locks)] /\ saved' \in [LockCpus -> Seq(BOOLEAN)]
           /\ irqOn' \in [LockCpus -> BOOLEAN]
           /\ Holders(l)' = Holders(l) \cup {c}
           /\ \A m \in Locks \ {l} : Holders(m)' = Holders(m)
<1> DEFINE h == heldLocks[c]
           s == saved[c]
<1>1. h \in Seq(Locks) /\ s \in Seq(BOOLEAN) /\ irqOn[c] \in BOOLEAN
  BY Zenon DEF LocksType
<1>2. /\ Append(h, l) \in Seq(Locks) /\ Len(Append(h, l)) = Len(h) + 1 /\ Len(h) \in Nat
      /\ \A i \in 1 .. Len(h) : Append(h, l)[i] = h[i]
      /\ Append(h, l)[Len(h) + 1] = l /\ Top(Append(h, l)) = l
      /\ Range(Append(h, l)) = Range(h) \cup {l}
  BY <1>1, Entered, Zenon
<1>3. /\ Append(s, irqOn[c]) \in Seq(BOOLEAN) /\ Len(Append(s, irqOn[c])) = Len(s) + 1
      /\ \A i \in 1 .. Len(s) : Append(s, irqOn[c])[i] = s[i]
      /\ Append(s, irqOn[c])[Len(s) + 1] = irqOn[c]
  BY <1>1
<1>4. /\ heldLocks' \in [LockCpus -> Seq(Locks)] /\ saved' \in [LockCpus -> Seq(BOOLEAN)]
      /\ irqOn' \in [LockCpus -> BOOLEAN]
      /\ heldLocks'[c] = Append(h, l) /\ saved'[c] = Append(s, irqOn[c]) /\ irqOn'[c] = FALSE
      /\ \A d \in LockCpus \ {c} : heldLocks'[d] = heldLocks[d] /\ saved'[d] = saved[d] /\ irqOn'[d] = irqOn[d]
  BY <1>2, <1>3, Zenon DEF LocksType
<1>5. Ordered(h) /\ Len(s) = Len(h)
  BY Zenon DEF NestingSound
<1>6. Ordered(Append(h, l))
  BY <1>1, <1>5, EnteredInOrder, Zenon DEF Enter
<1>7. \A i \in 2 .. Len(s) + 1 : ~Append(s, irqOn[c])[i]
  <2>1. Len(s) \in Nat
    BY <1>1
  <2>2. (\A i \in 2 .. Len(s) : ~s[i]) /\ (Len(h) > 0 => ~irqOn[c])
    BY Zenon DEF NestingSound
  <2>3. ASSUME NEW i \in 2 .. Len(s) + 1 PROVE ~Append(s, irqOn[c])[i]
    <3>1. (i \in 2 .. Len(s) /\ i \in 1 .. Len(s)) \/ (i = Len(s) + 1 /\ Len(s) > 0)
      BY <2>1
    <3> QED BY <3>1, <1>3, <1>5, <2>2, Zenon
  <2> QED BY <2>3, Zenon
<1> HIDE DEF h, s
<1>9. NestingSound'
  <2> SUFFICES ASSUME NEW d \in LockCpus
               PROVE  /\ Ordered(heldLocks'[d])
                      /\ Len(saved'[d]) = Len(heldLocks'[d])
                      /\ \A i \in 2 .. Len(saved'[d]) : ~saved'[d][i]
                      /\ Len(heldLocks'[d]) > 0 => ~irqOn'[d]
                      /\ spin'[d] # NoSpin => Len(heldLocks'[d]) > 0 /\ spin'[d].lock = Top(heldLocks'[d])
    BY Zenon DEF NestingSound
  <2>1. CASE d = c
    <3>1. heldLocks'[c] = Append(h, l) /\ saved'[c] = Append(s, irqOn[c]) /\ ~irqOn'[c]
      BY <1>4, Zenon
    <3>2. spin'[c] # NoSpin => spin'[c].lock = Top(heldLocks'[c])
      BY <1>2, <3>1, Zenon
    <3>3. Len(saved'[c]) = Len(s) + 1 /\ Len(heldLocks'[c]) = Len(h) + 1 /\ Len(h) \in Nat
      BY <1>2, <1>3, <3>1, Zenon
    <3>4. \A i \in 2 .. Len(saved'[c]) : ~saved'[c][i]
      BY <1>7, <3>1, <3>3, Zenon
    <3>5. Ordered(heldLocks'[c])
      BY <1>6, <3>1, Zenon
    <3>6. Len(saved'[c]) = Len(heldLocks'[c]) /\ Len(heldLocks'[c]) > 0
      BY <1>5, <3>3
    <3> QED BY <2>1, <3>1, <3>2, <3>4, <3>5, <3>6, Zenon
  <2>2. CASE d # c
    BY <1>4, <2>2, Zenon DEF NestingSound
  <2> QED BY <2>1, <2>2, Zenon
<1>10. c \notin Holders(l)
  BY Zenon DEF Enter, Holders
<1>11. Holders(l)' = Holders(l) \cup {c} /\ \A m \in Locks \ {l} : Holders(m)' = Holders(m)
  <2>1. \A d \in LockCpus, m \in Locks : m \in Range(heldLocks'[d]) <=> m \in Range(heldLocks[d]) \/ (d = c /\ m = l)
    BY <1>2, <1>4, Zenon DEF h
  <2> QED BY <2>1, Zenon DEF Holders
<1> QED BY <1>4, <1>9, <1>10, <1>11, Zenon

\* RankedIrqSafeTicketLock::lock, up to the ticket.
LEMMA TakeTicketStep ==
    ASSUME LocksInv, NEW c \in LockCpus, NEW l \in Locks, TakeTicket(c, l)
    PROVE  LocksInv'
<1> USE DEF LocksInv
<1> DEFINE now == nowServing[l]
           t == nextTicket[l]
<1>1. /\ spin[c] = NoSpin /\ Enter(c, l) /\ UNCHANGED <<nowServing, halted>>
      /\ spin'[c] = [lock |-> l, ticket |-> t] /\ \A d \in LockCpus \ {c} : spin'[d] = spin[d]
      /\ nextTicket'[l] = (t + 1) % TicketModulus /\ \A m \in Locks \ {l} : nextTicket'[m] = nextTicket[m]
      /\ now \in Tickets /\ t \in Tickets
  BY Zenon DEF TakeTicket, Unblocked, LocksType
<1>2. /\ NestingSound' /\ c \notin Holders(l)
      /\ heldLocks' \in [LockCpus -> Seq(Locks)] /\ saved' \in [LockCpus -> Seq(BOOLEAN)]
      /\ irqOn' \in [LockCpus -> BOOLEAN]
      /\ Holders(l)' = Holders(l) \cup {c}
      /\ \A m \in Locks \ {l} : Holders(m)' = Holders(m)
  <2>1. /\ heldLocks' = [heldLocks EXCEPT ![c] = Append(@, l)]
        /\ saved' = [saved EXCEPT ![c] = Append(@, irqOn[c])]
        /\ irqOn' = [irqOn EXCEPT ![c] = FALSE]
    BY Zenon DEF TakeTicket
  <2>2. spin'[c].lock = l
    BY <1>1
  <2> QED BY <1>1, <2>1, <2>2, EnterNests, Zenon
<1>3. LocksType'
  <2>1. nextTicket' \in [Locks -> Tickets]
    BY <1>1, NextTicket, Zenon DEF TakeTicket, LocksType
  <2>2. spin' \in [LockCpus -> {NoSpin} \cup Spinning]
    BY <1>1, Zenon DEF TakeTicket, LocksType, Spinning
  <2> QED BY <1>1, <1>2, <2>1, <2>2, Zenon DEF LocksType
<1>4. /\ Cardinality(Holders(l)) = Ahead(now, t) /\ Ahead(now, t) + 1 < TicketModulus
      /\ Cardinality(Holders(l)') = Ahead(now, t) + 1
      /\ Holders(l) # {} => Ahead(now, t) > 0
      /\ Ahead(now, (t + 1) % TicketModulus) = Ahead(now, t) + 1 /\ Ahead(now, t) \in Nat
  <2>1. Cardinality(Holders(l)) = Ahead(now, t)
    BY Zenon DEF TicketsSound, TicketsAt
  <2>2. /\ IsFiniteSet(Holders(l)) /\ Cardinality(Holders(l)) < Cardinality(LockCpus)
        /\ Cardinality(Holders(l)) \in Nat /\ (Cardinality(Holders(l)) = 0 <=> Holders(l) = {})
    BY <1>2, HoldersFinite, Zenon
  <2>3. Cardinality(LockCpus) \in Nat
    BY LocksAssumption, FS_CardinalityType, Zenon
  <2>4. Cardinality(Holders(l)') = Cardinality(Holders(l)) + 1
    BY <1>2, <2>2, FS_AddElement, Zenon
  <2>5. Ahead(now, t) + 1 < TicketModulus
    BY <2>1, <2>2, <2>3, LocksAssumption
  <2>6. Ahead(now, (t + 1) % TicketModulus) = Ahead(now, t) + 1
    BY <1>1, <2>5, AheadFacts, Zenon
  <2> QED BY <2>1, <2>2, <2>4, <2>5, <2>6
<1>5. NoSpin.lock \notin Locks
  BY LocksAssumption, Zenon DEF NoSpin
<1>6. TicketsAt(l)'
  <2>1. Cardinality(Holders(l)') = Ahead(nowServing'[l], nextTicket'[l])
    BY <1>1, <1>4, Zenon
  <2>2. \A d \in LockCpus : spin'[d].lock = l /\ d # c =>
           /\ spin[d].lock = l /\ spin[d].ticket \in Tickets /\ Ahead(now, spin[d].ticket) < Ahead(now, t)
           /\ Ahead(now, spin[d].ticket) \in Nat
    <3> SUFFICES ASSUME NEW d \in LockCpus, spin'[d].lock = l, d # c
                 PROVE  /\ spin[d].lock = l /\ spin[d].ticket \in Tickets
                        /\ Ahead(now, spin[d].ticket) < Ahead(now, t) /\ Ahead(now, spin[d].ticket) \in Nat
      BY Zenon
    <3>1. spin[d].lock = l /\ spin[d].ticket \in Tickets
      BY <1>1, SpinnersHold, Zenon
    <3>2. Ahead(now, spin[d].ticket) < Ahead(now, t)
      BY <3>1, Zenon DEF TicketsSound, TicketsAt
    <3>3. Ahead(now, spin[d].ticket) \in Nat
      BY <1>1, <3>1, AheadFacts, LocksAssumption
    <3> QED BY <3>1, <3>2, <3>3, Zenon
  <2>3. \A d \in LockCpus : spin'[d].lock = l =>
           Ahead(nowServing'[l], spin'[d].ticket) < Ahead(nowServing'[l], nextTicket'[l])
    <3> SUFFICES ASSUME NEW d \in LockCpus, spin'[d].lock = l
                 PROVE  Ahead(now, spin'[d].ticket) < Ahead(now, t) + 1
      BY <1>1, <1>4, Zenon
    <3>1. CASE d = c
      BY <1>1, <1>4, <3>1
    <3>2. CASE d # c
      BY <1>1, <1>4, <2>2, <3>2
    <3> QED BY <3>1, <3>2, Zenon
  <2>4. \A d, e \in LockCpus : d # e /\ spin'[d].lock = l /\ spin'[e].lock = l
                                 => spin'[d].ticket # spin'[e].ticket
    <3>1. \A d \in LockCpus : d # c /\ spin'[d].lock = l => spin'[d].ticket # t
      BY <1>1, <1>4, <2>2
    <3>2. \A d, e \in LockCpus : d # c /\ e # c /\ d # e /\ spin'[d].lock = l /\ spin'[e].lock = l
                                   => spin'[d].ticket # spin'[e].ticket
      BY <1>1 DEF TicketsSound, TicketsAt
    <3> QED BY <1>1, <3>1, <3>2
  <2>5. \A d \in Owners(l)', e \in Holders(l)' :
          d # e => spin'[e].lock = l /\ spin'[e].ticket # nowServing'[l]
    <3> SUFFICES ASSUME NEW d \in Owners(l)', NEW e \in Holders(l)', d # e
                 PROVE  spin'[e].lock = l /\ spin'[e].ticket # now
      BY <1>1, Zenon
    <3>1. d \in Owners(l) /\ d \in Holders(l) /\ d # c
      BY <1>1, <1>2 DEF Owners, Holders
    <3>2. CASE e = c
      <4>1. Ahead(now, t) > 0
        BY <1>4, <3>1, Zenon
      <4>2. t # now
        BY <1>1, <1>4, <4>1, AheadFacts
      <4> QED BY <1>1, <3>2, <4>2
    <3>3. CASE e # c
      <4>1. e \in Holders(l) /\ e \in LockCpus
        BY <1>2, <3>3, Zenon DEF Holders
      <4> QED BY <1>1, <3>1, <3>3, <4>1 DEF TicketsSound, TicketsAt
    <3> QED BY <3>2, <3>3, Zenon
  <2> QED BY <2>1, <2>3, <2>4, <2>5, Zenon DEF TicketsAt
<1>7. ASSUME NEW m \in Locks \ {l} PROVE TicketsAt(m)'
  <2>1. TicketsAt(m) /\ UNCHANGED <<Holders(m), nextTicket[m], nowServing[m]>>
    BY <1>1, <1>2, Zenon DEF TicketsSound
  <2>2. spin'[c].lock # m /\ spin[c].lock # m
    BY <1>1, <1>5
  <2>3. \A d \in LockCpus : /\ spin'[d].lock = m <=> spin[d].lock = m
                            /\ spin[d].lock = m => spin'[d].ticket = spin[d].ticket
    BY <1>1, <2>2, Zenon
  <2> QED BY <2>1, <2>3, TicketsFrame, Zenon
<1> QED BY <1>2, <1>3, <1>6, <1>7, Zenon DEF TicketsSound

\* The end of the spinning: the CPU whose ticket is served owns the lock.
LEMMA ServedStep ==
    ASSUME LocksInv, NEW c \in LockCpus, Served(c)
    PROVE  LocksInv'
<1> USE DEF LocksInv
<1>1. /\ spin[c] # NoSpin /\ nowServing[spin[c].lock] = spin[c].ticket
      /\ UNCHANGED <<nextTicket, nowServing, heldLocks, saved, irqOn, halted>>
      /\ spin' \in [LockCpus -> {NoSpin} \cup Spinning]
      /\ spin'[c] = NoSpin /\ \A d \in LockCpus \ {c} : spin'[d] = spin[d]
  BY Zenon DEF Served, LocksType
<1>2. PICK l \in Locks : spin[c].lock = l /\ nowServing[l] = spin[c].ticket /\ c \in Holders(l)
  BY <1>1, SpinnersHold, Zenon
<1>3. \A m \in Locks : Holders(m)' = Holders(m) /\ NoSpin.lock # m
  BY <1>1, LocksAssumption, Zenon DEF Holders, NoSpin
<1>4. LocksType' /\ NestingSound'
  BY <1>1, Zenon DEF LocksType, NestingSound
<1>6. ASSUME NEW m \in Locks, m # l PROVE TicketsAt(m)'
  <2>1. TicketsAt(m) /\ UNCHANGED <<Holders(m), nextTicket[m], nowServing[m]>>
    BY <1>1, <1>3, Zenon DEF TicketsSound
  <2>2. \A d \in LockCpus : /\ spin'[d].lock = m <=> spin[d].lock = m
                            /\ spin[d].lock = m => spin'[d].ticket = spin[d].ticket
    BY <1>1, <1>2, <1>3, <1>6, Zenon
  <2> QED BY <2>1, <2>2, TicketsFrame, Zenon
<1>7. TicketsAt(l)'
  <2>1. TicketsAt(l)
    BY <1>2, Zenon DEF TicketsSound
  <2>2. \A d \in LockCpus : spin'[d].lock = l => d # c /\ spin'[d] = spin[d]
    BY <1>1, <1>2, <1>3, Zenon
  <2>3. \A d \in Holders(l) : d # c => spin[d].lock = l /\ spin[d].ticket # nowServing[l] /\ d \in LockCpus
    <3> SUFFICES ASSUME NEW d \in Holders(l), d # c
                 PROVE  spin[d].lock = l /\ spin[d].ticket # nowServing[l] /\ d \in LockCpus
      BY Zenon
    <3>1. d \in LockCpus
      BY Zenon DEF Holders
    <3>2. spin[d].lock = l
      <4>1. spin[d].lock # l => d \in Owners(l)
        BY Zenon DEF Owners, Holders
      <4> QED BY <1>2, <2>1, <4>1, Zenon DEF TicketsAt
    <3> QED BY <1>2, <2>1, <3>1, <3>2, Zenon DEF TicketsAt
  <2>4. \A d \in Owners(l)', e \in Holders(l)' :
           d # e => spin'[e].lock = l /\ spin'[e].ticket # nowServing'[l]
    <3>1. \A d \in Owners(l)' : d \in Holders(l) /\ d \in LockCpus /\ spin'[d].lock # l
      BY <1>2, <1>3, Zenon DEF Owners, Holders
    <3>2. \A d \in Owners(l)' : d = c
      BY <1>1, <2>3, <3>1, Zenon
    <3> QED BY <1>1, <1>2, <1>3, <2>3, <3>2
  <2>5. Cardinality(Holders(l)') = Ahead(nowServing'[l], nextTicket'[l])
    BY <1>1, <1>2, <1>3, <2>1, Zenon DEF TicketsAt
  <2>6. \A d \in LockCpus : spin'[d].lock = l =>
           Ahead(nowServing'[l], spin'[d].ticket) < Ahead(nowServing'[l], nextTicket'[l])
    BY <1>1, <2>1, <2>2, Zenon DEF TicketsAt
  <2>7. \A d, e \in LockCpus : d # e /\ spin'[d].lock = l /\ spin'[e].lock = l
                                 => spin'[d].ticket # spin'[e].ticket
    BY <2>1, <2>2 DEF TicketsAt
  <2> QED BY <2>4, <2>5, <2>6, <2>7, Zenon DEF TicketsAt
<1> QED BY <1>4, <1>6, <1>7, Zenon DEF TicketsSound

\* try_lock that finds the lock free.
LEMMA TryLockStep ==
    ASSUME LocksInv, NEW c \in LockCpus, NEW l \in Locks, TryLock(c, l)
    PROVE  LocksInv'
<1> USE DEF LocksInv
<1> DEFINE t == nextTicket[l]
<1>1. /\ spin[c] = NoSpin /\ Enter(c, l) /\ UNCHANGED <<nowServing, spin, halted>>
      /\ nextTicket'[l] = (t + 1) % TicketModulus /\ \A m \in Locks \ {l} : nextTicket'[m] = nextTicket[m]
      /\ nowServing[l] = t /\ t \in Tickets
  BY Zenon DEF TryLock, Unblocked, LocksType
<1>2. /\ NestingSound' /\ c \notin Holders(l)
      /\ heldLocks' \in [LockCpus -> Seq(Locks)] /\ saved' \in [LockCpus -> Seq(BOOLEAN)]
      /\ irqOn' \in [LockCpus -> BOOLEAN]
      /\ Holders(l)' = Holders(l) \cup {c}
      /\ \A m \in Locks \ {l} : Holders(m)' = Holders(m)
  <2>1. /\ heldLocks' = [heldLocks EXCEPT ![c] = Append(@, l)]
        /\ saved' = [saved EXCEPT ![c] = Append(@, irqOn[c])]
        /\ irqOn' = [irqOn EXCEPT ![c] = FALSE]
    BY Zenon DEF TryLock
  <2> QED BY <1>1, <2>1, EnterNests, Zenon
<1>3. LocksType'
  <2>1. nextTicket' \in [Locks -> Tickets]
    BY <1>1, NextTicket, Zenon DEF TryLock, LocksType
  <2> QED BY <1>1, <1>2, <2>1, Zenon DEF LocksType
<1>4. Holders(l) = {}
  <2>1. Ahead(t, t) = 0 /\ Cardinality(Holders(l)) = Ahead(nowServing[l], t)
    BY <1>1, AheadFacts DEF TicketsSound, TicketsAt
  <2> QED BY <1>1, <2>1, HoldersFinite, Zenon
<1>5. \A d \in LockCpus : spin'[d].lock # l
  BY <1>1, <1>4, SpinnersHold, Zenon
<1>6. TicketsAt(l)'
  <2>1. Holders(l)' = {c}
    BY <1>2, <1>4, Zenon
  <2>2. Cardinality(Holders(l)') = 1
    BY <2>1, FS_Singleton, Zenon
  <2>3. Ahead(t, (t + 1) % TicketModulus) = 1
    <3>1. Ahead(t, t) = 0
      BY <1>1, AheadFacts, Zenon
    <3>2. 1 < TicketModulus
      <4>1. Cardinality(LockCpus) \in Nat /\ Cardinality(LockCpus) # 0
        BY LocksAssumption, FS_CardinalityType, FS_EmptySet
      <4> QED BY <4>1, LocksAssumption
    <3> QED BY <1>1, <3>1, <3>2, AheadFacts
  <2>4. Cardinality(Holders(l)') = Ahead(nowServing'[l], nextTicket'[l])
    BY <1>1, <2>2, <2>3, Zenon
  <2>5. \A d \in Owners(l)' : d = c
    BY <2>1, Zenon DEF Owners, Holders
  <2> QED BY <1>5, <2>1, <2>4, <2>5, Zenon DEF TicketsAt
<1>7. ASSUME NEW m \in Locks \ {l} PROVE TicketsAt(m)'
  <2>1. TicketsAt(m) /\ UNCHANGED <<Holders(m), nextTicket[m], nowServing[m]>>
    BY <1>1, <1>2, Zenon DEF TicketsSound
  <2> QED BY <1>1, <2>1, TicketsFrame, Zenon
<1> QED BY <1>2, <1>3, <1>6, <1>7, Zenon DEF TicketsSound

\* The guard's drop: one more ticket is served, the tracker and the interrupts are
\* as they were before the lock was taken.
LEMMA UnlockStep ==
    ASSUME LocksInv, NEW c \in LockCpus, UnlockTicket(c)
    PROVE  LocksInv'
<1> USE DEF LocksInv
<1> DEFINE h == heldLocks[c]
           s == saved[c]
<1>1. /\ spin[c] = NoSpin /\ UNCHANGED <<nextTicket, spin, halted>> /\ h \in Seq(Locks) /\ s \in Seq(BOOLEAN)
      /\ h # <<>> /\ Ordered(h) /\ Len(s) = Len(h) /\ \A i \in 2 .. Len(s) : ~s[i]
  BY Zenon DEF UnlockTicket, Unblocked, LocksType, NestingSound
<1>2. Len(h) \in Nat /\ Len(h) > 0
  BY <1>1
<1>3. /\ Ordered(Below(h)) /\ Below(h) \in Seq(Locks) /\ Len(Below(h)) = Len(h) - 1
      /\ Top(h) \in Locks /\ Top(h) \in Range(h) /\ Range(Below(h)) = Range(h) \ {Top(h)}
  BY <1>1, <1>2, LeftLock, Zenon
<1>4. PICK l \in Locks : l = Top(h)
  BY <1>3, Zenon
<1>5. /\ Below(s) \in Seq(BOOLEAN) /\ Len(Below(s)) = Len(s) - 1
      /\ \A i \in 1 .. Len(s) - 1 : Below(s)[i] = s[i]
      /\ Top(s) \in BOOLEAN /\ (Len(s) > 1 => ~Top(s))
  <2>1. Len(s) \in Nat /\ \A i \in 1 .. Len(s) : s[i] \in BOOLEAN
    BY <1>1
  <2>2. /\ SubSeq(s, 1, Len(s) - 1) \in Seq(BOOLEAN)
        /\ Len(SubSeq(s, 1, Len(s) - 1)) = IF 1 <= Len(s) - 1 THEN Len(s) - 1 - 1 + 1 ELSE 0
        /\ \A i \in 1 .. Len(s) - 1 - 1 + 1 : SubSeq(s, 1, Len(s) - 1)[i] = s[1 + i - 1]
    BY <2>1
  <2>3. Top(s) \in BOOLEAN /\ (Len(s) > 1 => ~Top(s))
    BY <1>1, <1>2, <2>1 DEF Top
  <2> QED BY <1>1, <1>2, <2>1, <2>2, <2>3 DEF Below
<1>6. /\ heldLocks' = [heldLocks EXCEPT ![c] = Below(h)] /\ saved' = [saved EXCEPT ![c] = Below(s)]
      /\ irqOn' = [irqOn EXCEPT ![c] = Top(s)]
      /\ nowServing' = [nowServing EXCEPT ![l] = (nowServing[l] + 1) % TicketModulus]
  BY <1>4, Zenon DEF UnlockTicket
<1>7. /\ heldLocks' \in [LockCpus -> Seq(Locks)] /\ saved' \in [LockCpus -> Seq(BOOLEAN)]
      /\ irqOn' \in [LockCpus -> BOOLEAN]
      /\ heldLocks'[c] = Below(h) /\ saved'[c] = Below(s) /\ irqOn'[c] = Top(s)
      /\ \A d \in LockCpus \ {c} : heldLocks'[d] = heldLocks[d] /\ saved'[d] = saved[d] /\ irqOn'[d] = irqOn[d]
  BY <1>3, <1>5, <1>6, Zenon DEF LocksType
<1>8. /\ nowServing[l] \in Tickets /\ nextTicket[l] \in Tickets /\ nowServing' \in [Locks -> Tickets]
      /\ nowServing'[l] = (nowServing[l] + 1) % TicketModulus
      /\ \A m \in Locks \ {l} : nowServing'[m] = nowServing[m]
  BY <1>6, NextTicket, Zenon DEF LocksType
<1>9. LocksType'
  BY <1>1, <1>7, <1>8, Zenon DEF LocksType
<1>10. \A d \in LockCpus, m \in Locks : m \in Range(heldLocks'[d]) <=> m \in Range(heldLocks[d]) /\ (d # c \/ m # l)
  BY <1>3, <1>4, <1>7, Zenon
<1>11. /\ Holders(l)' = Holders(l) \ {c} /\ c \in Holders(l) /\ c \in Owners(l)
       /\ \A m \in Locks \ {l} : Holders(m)' = Holders(m)
  <2>1. NoSpin.lock # l
    BY LocksAssumption, Zenon DEF NoSpin
  <2> QED BY <1>1, <1>3, <1>4, <1>10, <2>1, Zenon DEF Holders, Owners
<1> HIDE DEF h, s
<1>12. NestingSound'
  <2> SUFFICES ASSUME NEW d \in LockCpus
               PROVE  /\ Ordered(heldLocks'[d])
                      /\ Len(saved'[d]) = Len(heldLocks'[d])
                      /\ \A i \in 2 .. Len(saved'[d]) : ~saved'[d][i]
                      /\ Len(heldLocks'[d]) > 0 => ~irqOn'[d]
                      /\ spin'[d] # NoSpin => Len(heldLocks'[d]) > 0 /\ spin'[d].lock = Top(heldLocks'[d])
    BY Zenon DEF NestingSound
  <2>1. CASE d = c
    <3>1. \A i \in 2 .. Len(Below(s)) : ~Below(s)[i]
      BY <1>1, <1>2, <1>5
    <3>2. Len(Below(s)) = Len(Below(h)) /\ (Len(Below(h)) > 0 => ~Top(s))
      BY <1>1, <1>2, <1>3, <1>5
    <3> QED BY <1>1, <1>3, <1>7, <2>1, <3>1, <3>2, Zenon
  <2>2. CASE d # c
    BY <1>1, <1>7, <2>2, Zenon DEF NestingSound
  <2> QED BY <2>1, <2>2, Zenon
<1>13. ASSUME NEW m \in Locks \ {l} PROVE TicketsAt(m)'
  <2>1. TicketsAt(m) /\ UNCHANGED <<Holders(m), nextTicket[m], nowServing[m]>>
    BY <1>1, <1>8, <1>11, Zenon DEF TicketsSound
  <2> QED BY <1>1, <2>1, TicketsFrame, Zenon
<1>14. TicketsAt(l)'
  <2> DEFINE now == nowServing[l]
             n == Ahead(now, nextTicket[l])
  <2>1. TicketsAt(l)
    BY Zenon DEF TicketsSound
  <2>2. Cardinality(Holders(l)) = n /\ n \in Nat /\ n >= 1 /\ Cardinality(Holders(l)') = n - 1
    <3>1. Cardinality(Holders(l)) = n
      BY <2>1, Zenon DEF TicketsAt
    <3>2. IsFiniteSet(Holders(l)) /\ Cardinality(Holders(l)) \in Nat /\ Cardinality(Holders(l)) # 0
      BY <1>11, HoldersFinite, Zenon
    <3>3. Cardinality(Holders(l)') = Cardinality(Holders(l)) - 1
      BY <1>11, <3>2, FS_RemoveElement
    <3> QED BY <3>1, <3>2, <3>3
  <2>3. Ahead(nowServing'[l], nextTicket'[l]) = n - 1
    <3>1. Ahead((now + 1) % TicketModulus, nextTicket[l]) = n - 1
      <4>1. now \in Tickets /\ nextTicket[l] \in Tickets
        BY <1>8, Zenon
      <4> QED BY <4>1, <2>2, AheadFacts, Zenon
    <3> QED BY <3>1, <1>1, <1>8, Zenon
  <2>4. \A d \in LockCpus : spin[d].lock = l =>
           Ahead(nowServing'[l], spin[d].ticket) < n - 1
    <3> SUFFICES ASSUME NEW d \in LockCpus, spin[d].lock = l
                 PROVE  Ahead(nowServing'[l], spin[d].ticket) < n - 1
      BY Zenon
    <3>1. spin[d].ticket \in Tickets /\ d \in Holders(l) /\ d # c
      BY <1>1, SpinnersHold, Zenon
    <3>2. spin[d].ticket # now
      BY <1>11, <2>1, <3>1, Zenon DEF TicketsAt
    <3>3. Ahead(now, spin[d].ticket) < n
      BY <2>1, Zenon DEF TicketsAt
    <3>4. Ahead(now, spin[d].ticket) \in Nat /\ Ahead(now, spin[d].ticket) >= 1
      <4>1. Ahead(now, spin[d].ticket) \in 0 .. TicketModulus - 1 /\ Ahead(now, spin[d].ticket) # 0
        BY <1>8, <3>1, <3>2, AheadFacts
      <4> QED BY <4>1, LocksAssumption
    <3>5. Ahead(nowServing'[l], spin[d].ticket) = Ahead(now, spin[d].ticket) - 1
      BY <1>8, <3>1, <3>4, AheadFacts
    <3> QED BY <2>2, <3>3, <3>4, <3>5
  <2>5. \A d \in Owners(l)' : FALSE
    <3> SUFFICES ASSUME NEW d \in Owners(l)' PROVE FALSE
      BY Zenon
    <3>1. d \in Holders(l) /\ d # c /\ spin[d].lock # l
      BY <1>1, <1>11, Zenon DEF Owners, Holders
    <3> QED BY <1>11, <2>1, <3>1, Zenon DEF TicketsAt
  <2>6. Cardinality(Holders(l)') = Ahead(nowServing'[l], nextTicket'[l])
    BY <2>2, <2>3, Zenon
  <2>7. \A d \in LockCpus : spin'[d].lock = l =>
           Ahead(nowServing'[l], spin'[d].ticket) < Ahead(nowServing'[l], nextTicket'[l])
    BY <1>1, <2>3, <2>4, Zenon
  <2>8. \A d, e \in LockCpus : d # e /\ spin'[d].lock = l /\ spin'[e].lock = l
                                 => spin'[d].ticket # spin'[e].ticket
    BY <1>1, <2>1, Zenon DEF TicketsAt
  <2> QED BY <2>5, <2>6, <2>7, <2>8, Zenon DEF TicketsAt
<1> QED BY <1>9, <1>12, <1>13, <1>14, Zenon DEF TicketsSound

\* A CPU stopped by the tracker changes no lock.
LEMMA RankViolationStep ==
    ASSUME LocksInv, NEW c \in LockCpus, NEW l \in Locks, RankViolation(c, l)
    PROVE  LocksInv'
<1> USE DEF LocksInv
<1>1. /\ UNCHANGED <<nextTicket, nowServing, heldLocks, spin, saved>>
      /\ irqOn' \in [LockCpus -> BOOLEAN] /\ halted' \subseteq LockCpus
      /\ \A d \in LockCpus : ~irqOn[d] => ~irqOn'[d]
  BY Zenon DEF RankViolation, LocksType
<1>2. LocksType'
  BY <1>1, Zenon DEF LocksType
<1>3. NestingSound'
  BY <1>1, Zenon DEF NestingSound
<1>4. TicketsSound'
  <2> SUFFICES ASSUME NEW m \in Locks PROVE TicketsAt(m)'
    BY Zenon DEF TicketsSound
  <2>1. TicketsAt(m) /\ UNCHANGED <<Holders(m), nextTicket[m], nowServing[m]>>
    BY <1>1, Zenon DEF TicketsSound, Holders
  <2> QED BY <1>1, <2>1, TicketsFrame, Zenon
<1> QED BY <1>2, <1>3, <1>4, Zenon

\* With no lock taken the invariant holds.
LEMMA LocksInitInv == LocksInit => LocksInv
<1> SUFFICES ASSUME LocksInit PROVE LocksInv
  BY Zenon
<1>1. 0 \in Tickets
  BY LocksAssumption, FS_CardinalityType DEF Tickets
<1>2. \A c \in LockCpus : heldLocks[c] = <<>> /\ saved[c] = <<>> /\ spin[c] = NoSpin
  BY Zenon DEF LocksInit
<1>3. LocksType
  <2>1. nextTicket \in [Locks -> Tickets] /\ nowServing \in [Locks -> Tickets]
    BY <1>1, Zenon DEF LocksInit
  <2>2. heldLocks \in [LockCpus -> Seq(Locks)] /\ saved \in [LockCpus -> Seq(BOOLEAN)]
    BY DEF LocksInit
  <2>3. spin \in [LockCpus -> {NoSpin} \cup Spinning] /\ irqOn \in [LockCpus -> BOOLEAN] /\ halted \subseteq LockCpus
    BY Zenon DEF LocksInit
  <2> QED BY <2>1, <2>2, <2>3, Zenon DEF LocksType
<1>4. NestingSound
  BY <1>2 DEF NestingSound, Ordered
<1>5. \A l \in Locks : Holders(l) = {} /\ NoSpin.lock # l
  BY <1>2, LocksAssumption DEF Holders, Range, NoSpin
<1>6. TicketsSound
  <2> SUFFICES ASSUME NEW l \in Locks PROVE TicketsAt(l)
    BY Zenon DEF TicketsSound
  <2>1. Cardinality(Holders(l)) = 0
    BY <1>5, FS_EmptySet, Zenon
  <2>2. nowServing[l] = 0 /\ nextTicket[l] = 0 /\ Ahead(0, 0) = 0
    BY DEF LocksInit, Ahead
  <2>3. \A c \in LockCpus : spin[c].lock # l
    BY <1>2, <1>5, Zenon
  <2> QED BY <1>5, <2>1, <2>2, <2>3, Zenon DEF TicketsAt, Owners, Holders
<1> QED BY <1>3, <1>4, <1>6, Zenon DEF LocksInv

\* The invariant depends on nothing but the locks' variables.
LEMMA LocksStutter ==
    ASSUME LocksInv, UNCHANGED slVars
    PROVE  LocksInv'
<1>1. LocksType'
  BY Zenon DEF LocksInv, LocksType, slVars
<1>2. NestingSound'
  BY Zenon DEF LocksInv, NestingSound, slVars
<1>3. TicketsSound'
  BY DEF LocksInv, TicketsSound, TicketsAt, Holders, Owners, slVars
<1> QED BY <1>1, <1>2, <1>3, Zenon DEF LocksInv

\* The state of every ticket lock, of the trackers and of the interrupts they
\* turned off, whatever locks the code takes in whatever order.
THEOREM LocksInvariant == LocksSpec => []LocksInv
<1>1. LocksInv /\ [LocksNext]_slVars => LocksInv'
  <2> SUFFICES ASSUME LocksInv, LocksNext \/ UNCHANGED slVars PROVE LocksInv'
    BY Zenon
  <2> QED BY RankViolationStep, TakeTicketStep, TryLockStep, ServedStep, UnlockStep, LocksStutter, Zenon DEF LocksNext
<1> QED BY <1>1, LocksInitInv, PTL DEF LocksSpec

\* TicketLock and IrqSafeTicketLock: a lock has one owner at a time, although its
\* tickets wrap, and a CPU that holds or waits for one takes no interrupt, so no
\* handler spins for a lock of the code it interrupted.
LocksExclusive ==
    /\ \A l \in Locks : Cardinality(Owners(l)) <= 1
    /\ \A c \in LockCpus : heldLocks[c] # <<>> => ~irqOn[c]
\* The ticket invariant gives every lock at most one holder.
LEMMA InvExclusive == LocksInv => LocksExclusive
<1> SUFFICES ASSUME LocksInv PROVE LocksExclusive
  BY Zenon
<1>1. ASSUME NEW l \in Locks PROVE Cardinality(Owners(l)) <= 1
  <2>1. \A c, d \in Owners(l) : c = d
    BY Zenon DEF LocksInv, TicketsSound, TicketsAt, Owners, Holders
  <2>2. CASE Owners(l) = {}
    BY <2>2, FS_EmptySet
  <2>3. ASSUME NEW c \in Owners(l) PROVE Cardinality(Owners(l)) <= 1
    <3>1. Owners(l) = {c}
      BY <2>1, Zenon
    <3>2. Cardinality({c}) = 1
      BY FS_Singleton, Zenon
    <3> QED BY <3>1, <3>2
  <2> QED BY <2>2, <2>3, Zenon
<1>2. ASSUME NEW c \in LockCpus, heldLocks[c] # <<>> PROVE ~irqOn[c]
  <2>1. Len(heldLocks[c]) > 0
    BY <1>2 DEF LocksInv, LocksType
  <2> QED BY <2>1, Zenon DEF LocksInv, NestingSound
<1> QED BY <1>1, <1>2, Zenon DEF LocksExclusive

\* TicketLock::lock and try_lock: no two CPUs hold one lock, also when the
\* 32-bit ticket counters wrap round, as long as fewer CPUs than tickets
\* contend.
THEOREM TicketLocksExclusive == LocksSpec => []LocksExclusive
BY LocksInvariant, InvExclusive, PTL

\* No two locks share a rank.  The tracker refuses a lower rank and allows an equal
\* one, and two CPUs that nest two locks of one rank in opposite orders do wait for
\* each other, so the order is only as good as the ranks.
DistinctRanks == \A l, m \in Locks : LockRank[l] = LockRank[m] => l = m

\* Some CPU of a nonempty set waits for a lock of the greatest rank.
LEMMA GreatestRank ==
    ASSUME NEW T, T \subseteq 0 .. 255, T # {}
    PROVE  \E x \in T : \A y \in T : y <= x
<1> DEFINE U == {255 - x : x \in T}
<1>1. U \subseteq Nat /\ U # {}
  <2>1. \A x \in T : 255 - x \in Nat
    OBVIOUS
  <2> QED BY <2>1, Zenon
<1>2. PICK u \in U : \A v \in U : ~(<<v, u>> \in OpToRel(<, Nat))
  BY <1>1, WFMin, NatLessThanWellFounded, Zenon
<1>3. PICK x \in T : u = 255 - x
  BY Zenon
<1>4. ASSUME NEW y \in T PROVE y <= x
  <2> DEFINE v == 255 - y
  <2>1. v \in U /\ v \in Nat /\ u \in Nat
    BY <1>1, Zenon
  <2> HIDE DEF U
  <2>2. ~(v < u)
    <3>1. <<v, u>> \in Nat \X Nat /\ <<v, u>>[1] = v /\ <<v, u>>[2] = u
      BY <2>1, Zenon
    <3> HIDE DEF v
    <3>2. v < u => <<v, u>> \in OpToRel(<, Nat)
      BY <3>1, Zenon DEF OpToRel
    <3> QED BY <1>2, <2>1, <3>2, Zenon
  <2>3. x \in 0 .. 255 /\ y \in 0 .. 255
    BY Zenon
  <2> QED BY <1>3, <2>2, <2>3
<1> QED BY <1>4, Zenon

\* Along a chain of waiting CPUs the ranks grow.
LEMMA RankGrows ==
    ASSUME LocksInv, DistinctRanks, NEW c \in LockCpus, NEW d \in LockCpus, WaitsFor(c, d), spin[d] # NoSpin
    PROVE  /\ spin[c].lock \in Locks /\ spin[d].lock \in Locks
           /\ LockRank[spin[c].lock] < LockRank[spin[d].lock]
<1> DEFINE h == heldLocks[d]
<1>1. /\ h \in Seq(Locks) /\ Ordered(h) /\ Len(h) > 0 /\ spin[d].lock = Top(h)
      /\ spin[c].lock \in Locks /\ spin[d].lock \in Locks
      /\ spin[c].lock \in Range(h) /\ spin[d].lock # spin[c].lock
  BY Zenon DEF LocksInv, LocksType, NestingSound, WaitsFor, Owners, Spinning
<1>2. Len(h) \in Nat /\ DOMAIN h = 1 .. Len(h)
  BY <1>1
<1>3. PICK i \in 1 .. Len(h) : spin[c].lock = h[i]
  BY <1>1, <1>2, Zenon DEF Range
<1>4. i # Len(h) /\ spin[d].lock = h[Len(h)]
  BY <1>1, <1>3, Zenon DEF Top
<1>5. LockRank[spin[c].lock] <= LockRank[spin[d].lock]
  <2>1. i < Len(h) /\ Len(h) \in 1 .. Len(h)
    BY <1>2, <1>4
  <2> QED BY <1>1, <1>3, <1>4, <2>1, Zenon DEF Ordered
<1>6. LockRank[spin[c].lock] # LockRank[spin[d].lock]
  BY <1>1, Zenon DEF DistinctRanks
<1>7. LockRank[spin[c].lock] \in 0 .. 255 /\ LockRank[spin[d].lock] \in 0 .. 255
  BY <1>1, LocksAssumption, Zenon
<1>8. \A a, b \in 0 .. 255 : a <= b /\ a # b => a < b
  OBVIOUS
<1> QED BY <1>1, <1>5, <1>6, <1>7, <1>8, Zenon

\* CPUs that take locks of distinct ranks in rank order never wait for each
\* other in a circle.
LEMMA NoCircle ==
    ASSUME LocksInv, DistinctRanks, NEW S \in SUBSET LockCpus
    PROVE  ~Circle(S)
<1> SUFFICES ASSUME Circle(S) PROVE FALSE
  BY Zenon
<1>1. \A c \in S : spin[c] # NoSpin /\ \E d \in S : WaitsFor(c, d)
  BY Zenon DEF Circle, WaitsFor
<1>2. \A c \in S : \E d \in S : /\ spin[c].lock \in Locks /\ spin[d].lock \in Locks
                               /\ LockRank[spin[c].lock] < LockRank[spin[d].lock]
  BY <1>1, RankGrows, Zenon
<1> DEFINE T == {LockRank[spin[c].lock] : c \in S}
<1>3. T \subseteq 0 .. 255 /\ T # {}
  BY <1>2, LocksAssumption DEF Circle
<1> HIDE DEF T
<1>4. PICK x \in T : \A y \in T : y <= x
  BY <1>3, GreatestRank, Zenon
<1>5. PICK c \in S : x = LockRank[spin[c].lock]
  BY Zenon DEF T
<1>6. PICK d \in S : x < LockRank[spin[d].lock] /\ LockRank[spin[d].lock] \in T
  BY <1>2, <1>5, Zenon DEF T
<1>7. \A a, b \in 0 .. 255 : ~(a < b /\ b <= a)
  OBVIOUS
<1> QED BY <1>3, <1>4, <1>6, <1>7, Zenon

\* Locks of distinct ranks are safe: one owner each, interrupts off, and no CPUs
\* that wait for each other in a circle, because the rank of the lock a CPU waits
\* for is above the ranks of the locks it owns.
THEOREM RankedLocksSafe == DistinctRanks => (LocksSpec => []LocksSafe)
<1> SUFFICES ASSUME DistinctRanks PROVE LocksSpec => []LocksSafe
  BY Zenon
<1>1. LocksInv => LocksSafe
  BY InvExclusive, NoCircle, Zenon DEF LocksSafe, LocksExclusive
<1> QED BY <1>1, LocksInvariant, PTL

\* What a function adds up to over a finite set, as the size of a set of units.
Units(S, f) == UNION {{x} \X (1 .. f[x]) : x \in S}

\* Adding up naturals over a finite set gives a natural.
LEMMA UnitsFinite ==
    ASSUME NEW S, IsFiniteSet(S), NEW f, \A x \in S : f[x] \in Nat
    PROVE  IsFiniteSet(Units(S, f)) /\ Cardinality(Units(S, f)) \in Nat
<1> DEFINE T == {{x} \X (1 .. f[x]) : x \in S}
           F == [x \in S |-> {x} \X (1 .. f[x])]
<1>1. F \in Surjection(S, T)
  <2>1. F \in [S -> T]
    BY Zenon
  <2>2. \A t \in T : \E x \in S : F[x] = t
    BY Zenon
  <2> QED BY <2>1, <2>2, Zenon DEF Surjection
<1>2. IsFiniteSet(T)
  <2> HIDE DEF T, F
  <2> QED BY <1>1, FS_Surjection
<1>3. \A t \in T : IsFiniteSet(t)
  <2> SUFFICES ASSUME NEW x \in S PROVE IsFiniteSet({x} \X (1 .. f[x]))
    BY Zenon
  <2>1. IsFiniteSet({x})
    BY FS_Singleton, Zenon
  <2>2. f[x] \in Int
    OBVIOUS
  <2>3. IsFiniteSet(1 .. f[x])
    BY <2>2, FS_Interval
  <2> QED BY <2>1, <2>3, FS_Product, Zenon
<1>4. IsFiniteSet(UNION T)
  BY <1>2, <1>3, FS_UNION, Zenon
<1> QED BY <1>4, FS_CardinalityType, Zenon DEF Units

\* The units of one element.
LEMMA OneColumn ==
    ASSUME NEW c, NEW n \in Nat
    PROVE  IsFiniteSet({c} \X (1 .. n)) /\ Cardinality({c} \X (1 .. n)) = n
<1>1. IsFiniteSet({c}) /\ Cardinality({c}) = 1
  BY FS_Singleton, Zenon
<1>2. IsFiniteSet(1 .. n) /\ Cardinality(1 .. n) = n
  BY FS_Interval
<1>3. IsFiniteSet({c} \X (1 .. n)) /\ Cardinality({c} \X (1 .. n)) = Cardinality({c}) * Cardinality(1 .. n)
  BY <1>1, <1>2, FS_Product, Zenon
<1> QED BY <1>1, <1>2, <1>3

\* One element more.
LEMMA UnitsAdd ==
    ASSUME NEW S, IsFiniteSet(S), NEW f, NEW c, c \notin S, \A x \in S \cup {c} : f[x] \in Nat
    PROVE  Cardinality(Units(S \cup {c}, f)) = Cardinality(Units(S, f)) + f[c]
<1> DEFINE R == Units(S, f)
           C == {c} \X (1 .. f[c])
<1>1. Units(S \cup {c}, f) = R \cup C
  BY Zenon DEF Units
<1>2. IsFiniteSet(R) /\ Cardinality(R) \in Nat
  BY UnitsFinite
<1>3. IsFiniteSet(C) /\ Cardinality(C) = f[c] /\ f[c] \in Nat
  BY OneColumn, Zenon
<1>4. R \cap C = {}
  BY DEF Units
<1>5. Cardinality(R \cup C) = Cardinality(R) + Cardinality(C) - Cardinality(R \cap C)
  BY <1>2, <1>3, FS_Union
<1>6. Cardinality(R \cap C) = 0
  BY <1>4, FS_EmptySet
<1>7. Cardinality(Units(S \cup {c}, f)) = Cardinality(R) + Cardinality(C) - 0
  BY <1>1, <1>5, <1>6, Zenon
<1> HIDE DEF R, C
<1>8. Cardinality(Units(S \cup {c}, f)) = Cardinality(R) + f[c]
  BY <1>2, <1>3, <1>7
<1> QED BY <1>8 DEF R

\* The sum after one value changed.
LEMMA UnitsChange ==
    ASSUME NEW S, IsFiniteSet(S), NEW c \in S, NEW f, NEW g,
           \A x \in S : f[x] \in Nat /\ g[x] \in Nat,
           \A x \in S \ {c} : g[x] = f[x]
    PROVE  Cardinality(Units(S, g)) = Cardinality(Units(S, f)) - f[c] + g[c]
<1> DEFINE R == S \ {c}
<1>1. IsFiniteSet(R) /\ c \notin R /\ R \cup {c} = S
  BY FS_Subset
<1>2. Units(R, g) = Units(R, f)
  BY Zenon DEF Units
<1>3. Cardinality(Units(R, f)) \in Nat
  BY <1>1, UnitsFinite
<1> HIDE DEF R
<1>4. \A x \in R \cup {c} : f[x] \in Nat /\ g[x] \in Nat
  BY <1>1
<1>5. Cardinality(Units(R \cup {c}, f)) = Cardinality(Units(R, f)) + f[c]
  <2>1. \A x \in R \cup {c} : f[x] \in Nat
    BY <1>4
  <2>2. IsFiniteSet(R) /\ c \notin R
    BY <1>1
  <2> QED BY <2>1, <2>2, UnitsAdd
<1>6. Cardinality(Units(R \cup {c}, g)) = Cardinality(Units(R, g)) + g[c]
  <2>1. \A x \in R \cup {c} : g[x] \in Nat
    BY <1>4
  <2>2. IsFiniteSet(R) /\ c \notin R
    BY <1>1
  <2> QED BY <2>1, <2>2, UnitsAdd
<1> QED BY <1>1, <1>2, <1>3, <1>4, <1>5, <1>6

\* Nothing adds up to nothing.
LEMMA UnitsNone ==
    ASSUME NEW S, NEW f, \A x \in S : f[x] = 0
    PROVE  Cardinality(Units(S, f)) = 0
<1>1. Units(S, f) = {}
  BY DEF Units
<1> QED BY <1>1, FS_EmptySet

-----------------------------------------------------------------------------
(* TaskLifecycle: accepted wakes *)

States == {"Embryo", "DeferredReady", "Ready", "Running", "Blocking", "Blocked", "Waking",
           "Migrating", "Dying", "Dead", "Reaped"}
Lifecycle == [state : States, owner : BudgetCpus \cup {NoCpu}, target : BudgetCpus \cup {NoCpu},
              epoch : Nat, migGen : Nat, migFrom : {NoCpu, "Ready", "Blocked"}, wakePending : BOOLEAN]

\* Wakes are accepted for waits that have begun; a wake accepted for the current one
\* is either remembered until the task has blocked, or has ended the wait, also for
\* a task that sleeps while it migrates.
WakesRemembered ==
    /\ life \in Lifecycle /\ accepted \subseteq 0 .. life.epoch
    /\ life.state = "Migrating" => life.migFrom # NoCpu
    /\ life.epoch \in accepted =>
          /\ life.state # "Blocked"
          /\ life.state = "Blocking" => life.wakePending
          /\ life.state = "Migrating" => life.migFrom # "Blocked"

\* The fields of a task's lifecycle record.
LEMMA LifeFields ==
    ASSUME NEW l \in Lifecycle
    PROVE  /\ l.state \in States /\ l.owner \in BudgetCpus \cup {NoCpu} /\ l.target \in BudgetCpus \cup {NoCpu}
           /\ l.epoch \in Nat /\ l.migGen \in Nat /\ l.migFrom \in {NoCpu, "Ready", "Blocked"}
           /\ l.wakePending \in BOOLEAN
BY Zenon DEF Lifecycle

\* A step of the task either leaves its epoch and what was accepted alone and keeps
\* the three cases, or begins a wait, or accepts a wake.
LEMMA TaskStepRemembers ==
    ASSUME WakesRemembered, TaskNext
    PROVE  WakesRemembered'
<1> USE DEF WakesRemembered
<1>1. ASSUME NEW c \in BudgetCpus,
             DeferReady(c) \/ EnqueueReady(c) \/ StartRunning(c) \/ Preempt(c)
      PROVE  WakesRemembered'
  BY <1>1, Zenon DEF DeferReady, EnqueueReady, StartRunning, Preempt, Lives, Lifecycle, States
<1>2. ASSUME NEW c \in BudgetCpus, BeginBlock(c) PROVE WakesRemembered'
  <2>1. /\ life' \in Lifecycle /\ life'.epoch = life.epoch + 1 /\ life'.state = "Blocking"
        /\ accepted' = accepted
    <3>1. PICK n \in Nat : n = life.epoch + 1
      BY LifeFields
    <3>2. life \in Lifecycle
      BY Zenon
    <3>3. life' = [life EXCEPT !.state = "Blocking", !.epoch = n, !.wakePending = FALSE] /\ accepted' = accepted
      BY <1>2, <3>1, Zenon DEF BeginBlock, Lives
    <3> HIDE DEF WakesRemembered
    <3> QED BY <3>1, <3>2, <3>3, Zenon DEF Lifecycle, States
  <2>2. life.epoch \in Nat
    BY LifeFields, Zenon
  <2>3. \A e \in accepted : e \in 0 .. life.epoch + 1 /\ e # life.epoch + 1
    BY <2>2
  <2> QED BY <2>1, <2>3, Zenon
<1>3. ASSUME NEW c \in BudgetCpus, CompleteBlock(c) PROVE WakesRemembered'
  BY <1>3, Zenon DEF CompleteBlock, Lives, Lifecycle, States
<1>4. ASSUME NEW c \in BudgetCpus, BeginMigration(c) PROVE WakesRemembered'
  <2>1. life' = [life EXCEPT !.state = "Migrating", !.migFrom = life.state, !.target = c, !.migGen = life.migGen + 1]
    BY <1>4, Zenon DEF BeginMigration, Lives
  <2>2. life.state \in {"Ready", "Blocked"} /\ accepted' = accepted
    BY <1>4, Zenon DEF BeginMigration, Lives
  <2>3. /\ life' \in Lifecycle /\ life'.epoch = life.epoch /\ life'.state = "Migrating"
        /\ life'.migFrom = life.state
    <3>1. PICK n \in Nat : n = life.migGen + 1
      BY LifeFields
    <3>2. PICK f \in {"Ready", "Blocked"} : f = life.state
      BY <2>2, Zenon
    <3>3. life \in Lifecycle /\ life' = [life EXCEPT !.state = "Migrating", !.migFrom = f, !.target = c, !.migGen = n]
      BY <2>1, <3>1, <3>2, Zenon
    <3> HIDE DEF WakesRemembered
    <3> QED BY <3>2, <3>3, Zenon DEF Lifecycle, States
  <2>4. "Ready" # NoCpu /\ "Blocked" # NoCpu
    BY Zenon DEF NoCpu
  <2> QED BY <2>2, <2>3, <2>4, Zenon
<1>5. ASSUME NEW c \in BudgetCpus, NEW e \in 0 .. MaxEpoch, Wake(c, e) PROVE WakesRemembered'
  <2>1. /\ life' \in Lifecycle /\ life'.epoch = life.epoch /\ accepted' = accepted \cup {life.epoch}
        /\ life'.state = "Waking" \/ (life'.state = "Blocking" /\ life'.wakePending)
    <3>1. /\ life \in Lifecycle /\ accepted' = accepted \cup {life.epoch}
          /\ \/ life' = [life EXCEPT !.wakePending = TRUE, !.target = c] /\ life.state = "Blocking"
             \/ life' = [life EXCEPT !.state = "Waking", !.target = c]
      BY <1>5, Zenon DEF Wake, Lives
    <3> HIDE DEF WakesRemembered
    <3>2. CASE life' = [life EXCEPT !.wakePending = TRUE, !.target = c] /\ life.state = "Blocking"
      BY <3>1, <3>2, Zenon DEF Lifecycle
    <3>3. CASE life' = [life EXCEPT !.state = "Waking", !.target = c]
      <4>1. "Waking" \in States
        BY Zenon DEF States
      <4>2. life' \in Lifecycle /\ life'.epoch = life.epoch /\ life'.state = "Waking"
        BY <3>1, <3>3, <4>1, Zenon DEF Lifecycle
      <4> QED BY <3>1, <4>2, Zenon
    <3> QED BY <3>1, <3>2, <3>3, Zenon
  <2>2. life.epoch \in 0 .. life.epoch
    BY LifeFields
  <2> QED BY <2>1, <2>2, Zenon
<1>6. ASSUME NEW c \in BudgetCpus, NEW e \in 0 .. MaxEpoch, CompleteWake(c, e) PROVE WakesRemembered'
  BY <1>6, Zenon DEF CompleteWake, Lives, Lifecycle, States
<1>7. ASSUME NEW c \in BudgetCpus, NEW g, CommitMigration(c, g) PROVE WakesRemembered'
  BY <1>7, Zenon DEF CommitMigration, Lives, Lifecycle, States
<1>8. ASSUME NEW g, RollbackMigration(g) PROVE WakesRemembered'
  BY <1>8, Zenon DEF RollbackMigration, Lives, Lifecycle, States
<1>9. ASSUME BeginDying \/ MarkDead \/ Reap PROVE WakesRemembered'
  BY <1>9, Zenon DEF BeginDying, MarkDead, Reap, Lives, Lifecycle, States
<1> QED BY <1>1, <1>2, <1>3, <1>4, <1>5, <1>6, <1>7, <1>8, <1>9, Zenon DEF TaskNext

\* TaskLifecycle::wake and complete_block: a wake accepted for the current wait is
\* never slept over, however many wakers, waits and migrations there are.
THEOREM AcceptedWakesRun == BudgetSpec => []AcceptedWakeRuns
<1>1. BudgetInit => WakesRemembered
  BY DEF BudgetInit, NewLife, WakesRemembered, Lifecycle, States
<1>2. WakesRemembered /\ [CbsNext \/ JobNext \/ TaskNext]_bdVars => WakesRemembered'
  <2>1. ASSUME CbsNext \/ JobNext \/ UNCHANGED bdVars PROVE UNCHANGED <<life, accepted>>
    BY <2>1, Zenon DEF CbsNext, JobNext, PassTime, ChargeRuntime, Replenish, ReserveLocal, ReturnLocal,
                ChargeLocal, ReplenishJob, bdVars, bdLife
  <2>2. ASSUME WakesRemembered, UNCHANGED <<life, accepted>> PROVE WakesRemembered'
    BY <2>2, Zenon DEF WakesRemembered
  <2> QED BY <2>1, <2>2, TaskStepRemembers, Zenon
<1>3. WakesRemembered => AcceptedWakeRuns
  BY Zenon DEF WakesRemembered, AcceptedWakeRuns
<1> QED BY <1>1, <1>2, <1>3, PTL DEF BudgetSpec

-----------------------------------------------------------------------------
(* JobBandwidth: one quota over all CPUs *)

JobInv ==
    /\ unissued \in Nat /\ localNs \in [BudgetCpus -> Nat] /\ chargedNs \in Nat
    /\ JobWithinQuota

\* A slice that changes on one CPU.
LEMMA SliceChange ==
    ASSUME JobInv, NEW c \in BudgetCpus, NEW n \in Nat,
           localNs' \in [BudgetCpus -> Nat], localNs'[c] = n,
           \A d \in BudgetCpus \ {c} : localNs'[d] = localNs[d],
           unissued' \in Nat, chargedNs' \in Nat,
           unissued' + n + chargedNs' = unissued + localNs[c] + chargedNs
    PROVE  JobInv'
<1>2. localNs \in [BudgetCpus -> Nat] /\ localNs[c] \in Nat
  BY Zenon DEF JobInv
<1>3. Cardinality(Units(BudgetCpus, localNs')) = Cardinality(Units(BudgetCpus, localNs)) - localNs[c] + n
  <2>1. \A x \in BudgetCpus : localNs[x] \in Nat /\ localNs'[x] \in Nat
    BY <1>2, Zenon
  <2>2. Cardinality(Units(BudgetCpus, localNs')) = Cardinality(Units(BudgetCpus, localNs)) - localNs[c] + localNs'[c]
    <3> DEFINE f == localNs
               g == localNs'
    <3>1. /\ IsFiniteSet(BudgetCpus) /\ \A x \in BudgetCpus : f[x] \in Nat /\ g[x] \in Nat
          /\ \A x \in BudgetCpus \ {c} : g[x] = f[x]
      BY <2>1, BudgetAssumption, Zenon
    <3> HIDE DEF f, g
    <3>2. Cardinality(Units(BudgetCpus, g)) = Cardinality(Units(BudgetCpus, f)) - f[c] + g[c]
      BY <3>1, UnitsChange
    <3> QED BY <3>2, Zenon DEF f, g
  <2> QED BY <2>2, Zenon
<1>4. Cardinality(Units(BudgetCpus, localNs)) \in Nat
  BY <1>2, BudgetAssumption, UnitsFinite, Zenon
<1>5. unissued \in Nat /\ chargedNs \in Nat /\ unissued + Cardinality(Units(BudgetCpus, localNs)) + chargedNs = JobQuotaNs
  BY Zenon DEF JobInv, JobWithinQuota, Units
<1>6. unissued' + Cardinality(Units(BudgetCpus, localNs')) + chargedNs' = JobQuotaNs
  BY <1>2, <1>3, <1>4, <1>5, BudgetAssumption
<1> QED BY <1>6, Zenon DEF JobInv, JobWithinQuota, Units

\* JobBandwidth: a job runs no more than its quota in a period, on all CPUs together.
THEOREM JobsWithinQuota == BudgetSpec => []JobWithinQuota
<1>1. ASSUME localNs \in [BudgetCpus -> Nat], \A c \in BudgetCpus : localNs[c] = 0,
             unissued = JobQuotaNs, chargedNs = 0
      PROVE  JobInv
  <2>1. Cardinality(Units(BudgetCpus, localNs)) = 0
    BY <1>1, UnitsNone, Zenon
  <2> QED BY <1>1, <2>1, BudgetAssumption DEF JobInv, JobWithinQuota, Units
<1>2. BudgetInit => JobInv
  BY <1>1 DEF BudgetInit
<1>3. ASSUME JobInv, CbsNext \/ JobNext \/ TaskNext \/ UNCHANGED bdVars PROVE JobInv'
  <2>1. ASSUME UNCHANGED bdJob PROVE JobInv'
    BY <1>3, <2>1, Zenon DEF JobInv, JobWithinQuota, bdJob
  <2>2. CASE UNCHANGED bdVars \/ CbsNext \/ PassTime
    BY <2>1, <2>2, Zenon DEF bdVars, CbsNext, PassTime, ChargeRuntime, Replenish
  <2>3. CASE TaskNext
    BY <2>1, <2>3, Zenon DEF TaskNext, DeferReady, EnqueueReady, StartRunning, Preempt, BeginBlock, CompleteBlock,
         BeginMigration, Wake, CompleteWake, CommitMigration, RollbackMigration, BeginDying, MarkDead, Reap, Lives
  <2>4. ASSUME NEW c \in BudgetCpus, ReserveLocal(c) PROVE JobInv'
    <3> DEFINE granted == Min({Slice, unissued})
    <3>1. unissued \in Nat /\ localNs[c] \in Nat /\ Slice \in Nat /\ chargedNs \in Nat
      BY <1>3, BudgetAssumption, Zenon DEF JobInv
    <3>2. granted \in Nat /\ granted <= unissued
      BY <3>1 DEF Min
    <3>3. localNs' = [localNs EXCEPT ![c] = localNs[c] + granted] /\ unissued' = unissued - granted /\ chargedNs' = chargedNs
      BY <2>4, Zenon DEF ReserveLocal
    <3> HIDE DEF granted
    <3>4. /\ localNs' \in [BudgetCpus -> Nat] /\ localNs'[c] = localNs[c] + granted
          /\ \A d \in BudgetCpus \ {c} : localNs'[d] = localNs[d]
      BY <1>3, <3>1, <3>2, <3>3 DEF JobInv
    <3>5. localNs[c] + granted \in Nat /\ unissued' \in Nat
          /\ unissued' + (localNs[c] + granted) + chargedNs' = unissued + localNs[c] + chargedNs
      BY <3>1, <3>2, <3>3
    <3> QED BY <1>3, <3>1, <3>3, <3>4, <3>5, SliceChange, Zenon
  <2>5. ASSUME NEW c \in BudgetCpus, ReturnLocal(c) PROVE JobInv'
    <3>1. unissued \in Nat /\ localNs[c] \in Nat /\ chargedNs \in Nat
      BY <1>3, Zenon DEF JobInv
    <3>2. /\ localNs' \in [BudgetCpus -> Nat] /\ localNs'[c] = 0
          /\ \A d \in BudgetCpus \ {c} : localNs'[d] = localNs[d]
          /\ unissued' = unissued + localNs[c] /\ chargedNs' = chargedNs
      BY <1>3, <2>5, Zenon DEF JobInv, ReturnLocal
    <3> QED BY <1>3, <3>1, <3>2, SliceChange
  <2>6. ASSUME NEW c \in BudgetCpus, NEW ns \in 1 .. JobQuotaNs, ChargeLocal(c, ns) PROVE JobInv'
    <3>1. unissued \in Nat /\ localNs[c] \in Nat /\ chargedNs \in Nat /\ ns \in Nat
      BY <1>3, BudgetAssumption DEF JobInv
    <3>2. localNs' = [localNs EXCEPT ![c] = localNs[c] - ns] /\ chargedNs' = chargedNs + ns /\ unissued' = unissued
          /\ ns <= localNs[c]
      BY <2>6, Zenon DEF ChargeLocal
    <3>3. /\ localNs' \in [BudgetCpus -> Nat] /\ localNs'[c] = localNs[c] - ns
          /\ \A d \in BudgetCpus \ {c} : localNs'[d] = localNs[d]
      BY <1>3, <3>1, <3>2 DEF JobInv
    <3>4. localNs[c] - ns \in Nat /\ chargedNs' \in Nat /\ unissued' \in Nat
          /\ unissued' + (localNs[c] - ns) + chargedNs' = unissued + localNs[c] + chargedNs
      BY <3>1, <3>2
    <3> QED BY <1>3, <3>3, <3>4, SliceChange, Zenon
  <2>7. CASE ReplenishJob
    <3>1. /\ localNs' = [c \in BudgetCpus |-> 0] /\ unissued' = JobQuotaNs /\ chargedNs' = 0
      BY <2>7, Zenon DEF ReplenishJob
    <3>2. Cardinality(Units(BudgetCpus, localNs')) = 0
      BY <3>1, UnitsNone, Zenon
    <3> QED BY <3>1, <3>2, BudgetAssumption DEF JobInv, JobWithinQuota, Units
  <2> QED BY <1>3, <2>2, <2>3, <2>4, <2>5, <2>6, <2>7, Zenon DEF JobNext
<1>4. JobInv => JobWithinQuota
  BY Zenon DEF JobInv
<1> QED BY <1>2, <1>3, <1>4, PTL DEF BudgetSpec

-----------------------------------------------------------------------------
(* JobQuota *)

VmoStates == {"none", "create", "grow", "ready"}
VmoRecords == [job : JobIds \cup {NoJob}, frames : Nat, want : Nat, st : VmoStates]

QuotaType ==
    /\ jobParent \in [JobIds -> JobIds \cup {NoJob}]
    /\ jobLimit \in [JobIds -> Nat]
    /\ jobUsed \in [JobIds -> Nat]
    /\ jobPublished \subseteq jobActive /\ jobActive \subseteq JobIds
    /\ vmo \in [Vmos -> VmoRecords]
    /\ freeFrames \in Nat

\* Nodes of the tree hang from nodes of the tree, and a memory object belongs to
\* a job some handle names and holds no more than what it was charged for.
TreeLinked == ParentClosed(jobParent, jobActive)
VmosOwned ==
    \A v \in Vmos :
        \/ vmo[v] = NoVmo
        \/ /\ vmo[v].job \in jobPublished /\ vmo[v].st \in {"create", "grow", "ready"}
           /\ vmo[v].frames <= vmo[v].want
           /\ vmo[v].st = "ready" => vmo[v].frames = vmo[v].want

QuotaInv == QuotaType /\ TreeLinked /\ VmosOwned /\ LimitsKept /\ ChargesExact

Wants == [v \in Vmos |-> vmo[v].want]
Holds == [v \in Vmos |-> vmo[v].frames]
Charged(j) == QuotaTotal({v \in Vmos : vmo[v].job = j}, Wants)
Held == QuotaTotal(Vmos, Holds)

\* A part of a set as the whole set with nothing outside the part.
LEMMA PartUnits ==
    ASSUME NEW S, NEW T \in SUBSET S, NEW f, NEW g,
           \A x \in T : g[x] = f[x], \A x \in S \ T : g[x] = 0
    PROVE  Units(T, f) = Units(S, g)
<1>1. \A x \in S \ T : {x} \X (1 .. g[x]) = {}
  OBVIOUS
<1>2. \A x \in T : {x} \X (1 .. g[x]) = {x} \X (1 .. f[x])
  BY Zenon
<1>3. Units(T, f) \subseteq Units(S, g)
  BY <1>2, Zenon DEF Units
<1>4. Units(S, g) \subseteq Units(T, f)
  <2> SUFFICES ASSUME NEW u \in Units(S, g) PROVE u \in Units(T, f)
    BY Zenon
  <2>1. PICK x \in S : u \in {x} \X (1 .. g[x])
    BY Zenon DEF Units
  <2>2. x \in T
    BY <2>1, <1>1, Zenon
  <2> QED
    BY <2>1, <2>2, <1>2, Zenon DEF Units
<1> QED
  BY <1>3, <1>4, Zenon

\* The sum over a part, after one element changed its value or joined or left.
LEMMA PartChange ==
    ASSUME NEW S, IsFiniteSet(S), NEW c \in S, NEW T \in SUBSET S, NEW U \in SUBSET S,
           NEW f, NEW g, \A x \in S : f[x] \in Nat /\ g[x] \in Nat,
           \A x \in S \ {c} : g[x] = f[x] /\ (x \in U <=> x \in T)
    PROVE  /\ QuotaTotal(T, f) \in Nat /\ QuotaTotal(U, g) \in Nat
           /\ QuotaTotal(U, g) = QuotaTotal(T, f) - (IF c \in T THEN f[c] ELSE 0)
                                                  + (IF c \in U THEN g[c] ELSE 0)
<1> DEFINE ff == [x \in S |-> IF x \in T THEN f[x] ELSE 0]
           gg == [x \in S |-> IF x \in U THEN g[x] ELSE 0]
<1>1. QuotaTotal(T, f) = Cardinality(Units(S, ff))
  <2>1. QuotaTotal(T, f) = Cardinality(Units(T, f))
    BY Zenon DEF QuotaTotal, Units
  <2>2. (\A x \in T : ff[x] = f[x]) /\ (\A x \in S \ T : ff[x] = 0)
    BY Zenon
  <2>3. Units(T, f) = Units(S, ff)
    <3> HIDE DEF ff
    <3> QED
      BY <2>2, PartUnits
  <2> QED
    BY <2>1, <2>3, Zenon
<1>2. QuotaTotal(U, g) = Cardinality(Units(S, gg))
  <2>1. QuotaTotal(U, g) = Cardinality(Units(U, g))
    BY Zenon DEF QuotaTotal, Units
  <2>2. (\A x \in U : gg[x] = g[x]) /\ (\A x \in S \ U : gg[x] = 0)
    BY Zenon
  <2>3. Units(U, g) = Units(S, gg)
    <3> HIDE DEF gg
    <3> QED
      BY <2>2, PartUnits
  <2> QED
    BY <2>1, <2>3, Zenon
<1>3. \A x \in S : ff[x] \in Nat /\ gg[x] \in Nat
  BY Zenon
<1>4. \A x \in S \ {c} : gg[x] = ff[x]
  BY Zenon
<1>5. Cardinality(Units(S, gg)) = Cardinality(Units(S, ff)) - ff[c] + gg[c]
  <2> HIDE DEF ff, gg
  <2> QED
    BY <1>3, <1>4, UnitsChange
<1>6. Cardinality(Units(S, gg)) \in Nat /\ Cardinality(Units(S, ff)) \in Nat
  <2> HIDE DEF ff, gg
  <2> QED
    BY <1>3, UnitsFinite, Zenon
<1>7. ff[c] = (IF c \in T THEN f[c] ELSE 0) /\ gg[c] = (IF c \in U THEN g[c] ELSE 0)
  BY Zenon
<1> QED
  BY <1>1, <1>2, <1>5, <1>6, <1>7, Zenon

\* The same when every element counts before and after.
LEMMA WholeChange ==
    ASSUME NEW S, IsFiniteSet(S), NEW c \in S, NEW f, NEW g,
           \A x \in S : f[x] \in Nat /\ g[x] \in Nat, \A x \in S \ {c} : g[x] = f[x]
    PROVE  /\ QuotaTotal(S, f) \in Nat /\ QuotaTotal(S, g) \in Nat
           /\ QuotaTotal(S, g) = QuotaTotal(S, f) - f[c] + g[c]
BY PartChange

\* What one memory object's step does to the charges and to the frames held.
LEMMA VmoChange ==
    ASSUME vmo \in [Vmos -> VmoRecords], vmo' \in [Vmos -> VmoRecords], NEW v \in Vmos,
           \A x \in Vmos \ {v} : vmo'[x] = vmo[x]
    PROVE  /\ \A j \in JobIds :
                /\ Charged(j) \in Nat /\ Charged(j)' \in Nat
                /\ Charged(j)' = Charged(j) - (IF vmo[v].job = j THEN vmo[v].want ELSE 0)
                                     + (IF vmo'[v].job = j THEN vmo'[v].want ELSE 0)
           /\ Held \in Nat /\ Held' \in Nat /\ Held' = Held - vmo[v].frames + vmo'[v].frames
<1>1. IsFiniteSet(Vmos)
  BY QuotaAssumption, Zenon
<1>2. \A x \in Vmos : /\ Wants[x] = vmo[x].want /\ Wants'[x] = vmo'[x].want
                      /\ Holds[x] = vmo[x].frames /\ Holds'[x] = vmo'[x].frames
  BY Zenon DEF Wants, Holds
<1>3. \A x \in Vmos : /\ vmo[x].want \in Nat /\ vmo'[x].want \in Nat
                      /\ vmo[x].frames \in Nat /\ vmo'[x].frames \in Nat
  BY Zenon DEF VmoRecords
<1>4. ASSUME NEW j \in JobIds
      PROVE  /\ Charged(j) \in Nat /\ Charged(j)' \in Nat
             /\ Charged(j)' = Charged(j) - (IF vmo[v].job = j THEN vmo[v].want ELSE 0)
                                     + (IF vmo'[v].job = j THEN vmo'[v].want ELSE 0)
  <2> DEFINE T == {x \in Vmos : vmo[x].job = j}
             U == {x \in Vmos : vmo'[x].job = j}
             f == Wants
             g == Wants'
  <2>1. T \in SUBSET Vmos /\ U \in SUBSET Vmos
    BY Zenon
  <2>2. \A x \in Vmos : f[x] \in Nat /\ g[x] \in Nat
    BY <1>2, <1>3, Zenon
  <2>3. \A x \in Vmos \ {v} : g[x] = f[x] /\ (x \in U <=> x \in T)
    BY <1>2
  <2>4. Charged(j) = QuotaTotal(T, f) /\ Charged(j)' = QuotaTotal(U, g)
    BY Zenon DEF Charged
  <2>5. /\ f[v] = vmo[v].want /\ g[v] = vmo'[v].want
        /\ (v \in T <=> vmo[v].job = j) /\ (v \in U <=> vmo'[v].job = j)
    BY <1>2, Zenon
  <2> HIDE DEF T, U, f, g
  <2>6. /\ QuotaTotal(T, f) \in Nat /\ QuotaTotal(U, g) \in Nat
        /\ QuotaTotal(U, g) = QuotaTotal(T, f) - (IF v \in T THEN f[v] ELSE 0)
                                               + (IF v \in U THEN g[v] ELSE 0)
    BY <1>1, <2>1, <2>2, <2>3, PartChange
  <2> QED
    BY <2>4, <2>5, <2>6, Zenon
<1>5. Held \in Nat /\ Held' \in Nat /\ Held' = Held - vmo[v].frames + vmo'[v].frames
  <2> DEFINE f == Holds
             g == Holds'
  <2>2. \A x \in Vmos : f[x] \in Nat /\ g[x] \in Nat
    BY <1>2, <1>3, Zenon
  <2>3. \A x \in Vmos \ {v} : g[x] = f[x]
    BY <1>2
  <2>4. Held = QuotaTotal(Vmos, f) /\ Held' = QuotaTotal(Vmos, g)
    BY Zenon DEF Held
  <2>5. f[v] = vmo[v].frames /\ g[v] = vmo'[v].frames
    BY <1>2, Zenon
  <2> HIDE DEF f, g
  <2>6. /\ QuotaTotal(Vmos, f) \in Nat /\ QuotaTotal(Vmos, g) \in Nat
        /\ QuotaTotal(Vmos, g) = QuotaTotal(Vmos, f) - f[v] + g[v]
    BY <1>1, <2>2, <2>3, WholeChange
  <2> QED
    BY <2>4, <2>5, <2>6
<1> QED
  BY <1>4, <1>5, Zenon

\* What a change of one job's own usage does to every subtree.
LEMMA UsageChange ==
    ASSUME IsFiniteSet(jobActive), jobActive' = jobActive, jobParent' = jobParent,
           NEW j \in jobActive, NEW a \in JobIds,
           \A k \in jobActive : jobUsed[k] \in Nat /\ jobUsed'[k] \in Nat,
           \A k \in jobActive \ {j} : jobUsed'[k] = jobUsed[k]
    PROVE  /\ SubtreeUsage(a) \in Nat /\ SubtreeUsage(a)' \in Nat
           /\ a \in Ancestors(jobParent, j) =>
                  SubtreeUsage(a)' = SubtreeUsage(a) - jobUsed[j] + jobUsed'[j]
           /\ a \notin Ancestors(jobParent, j) => SubtreeUsage(a)' = SubtreeUsage(a)
<1> DEFINE T == Subtree(a)
           f == jobUsed
           g == jobUsed'
<1>1. T \in SUBSET jobActive /\ (j \in T <=> a \in Ancestors(jobParent, j))
  BY Zenon DEF Subtree
<1>2. Subtree(a)' = T
  BY Zenon DEF Subtree
<1>3. SubtreeUsage(a) = QuotaTotal(T, f) /\ SubtreeUsage(a)' = QuotaTotal(T, g)
  BY <1>2, Zenon DEF SubtreeUsage
<1>4. \A k \in jobActive : f[k] \in Nat /\ g[k] \in Nat
  BY Zenon
<1>5. \A k \in jobActive \ {j} : g[k] = f[k]
  BY Zenon
<1>7. f[j] = jobUsed[j] /\ g[j] = jobUsed'[j]
  BY Zenon
<1> HIDE DEF T, f, g
<1>6. /\ QuotaTotal(T, f) \in Nat /\ QuotaTotal(T, g) \in Nat
      /\ QuotaTotal(T, g) = QuotaTotal(T, f) - (IF j \in T THEN f[j] ELSE 0)
                                             + (IF j \in T THEN g[j] ELSE 0)
  BY <1>1, <1>4, <1>5, PartChange
<1> QED
  BY <1>1, <1>3, <1>6, <1>7

\* The way up from a node only depends on the links of a closed part it is in.
LEMMA AncestorsWithin ==
    ASSUME NEW f, NEW g, NEW A \in SUBSET JobIds, ParentClosed(f, A), ParentClosed(g, A),
           \A k \in A : f[k] = g[k], NEW j \in A
    PROVE  Ancestors(f, j) \subseteq Ancestors(g, j) /\ Ancestors(f, j) \subseteq A
<1>1. Ancestors(f, j) \subseteq A
  BY Zenon DEF Ancestors
<1>2. ASSUME NEW a \in Ancestors(f, j), NEW S \in SUBSET JobIds, j \in S, ParentClosed(g, S)
      PROVE  a \in S
  <2>1. ParentClosed(f, S \cap A)
    BY <1>2, Zenon DEF ParentClosed
  <2>2. j \in S \cap A /\ S \cap A \in SUBSET JobIds
    BY <1>2, Zenon
  <2> QED
    BY <2>1, <2>2, Zenon DEF Ancestors
<1> QED
  BY <1>1, <1>2, Zenon DEF Ancestors

\* The ancestors of a job depend on the links of its own branch only.
LEMMA AncestorsSame ==
    ASSUME NEW f, NEW g, NEW A \in SUBSET JobIds, ParentClosed(f, A), ParentClosed(g, A),
           \A k \in A : f[k] = g[k], NEW j \in A
    PROVE  Ancestors(f, j) = Ancestors(g, j) /\ Ancestors(f, j) \subseteq A
<1>1. Ancestors(f, j) \subseteq Ancestors(g, j) /\ Ancestors(f, j) \subseteq A
  BY AncestorsWithin, Zenon
<1>2. \A k \in A : g[k] = f[k]
  BY Zenon
<1>3. Ancestors(g, j) \subseteq Ancestors(f, j)
  BY <1>2, AncestorsWithin, Zenon
<1> QED
  BY <1>1, <1>3, Zenon

\* Usage that was asked for at every limit on the way up, or given back, keeps
\* every limit.
LEMMA UsageKeepsLimits ==
    ASSUME QuotaType, LimitsKept, QuotaType', NEW j \in jobActive,
           UNCHANGED <<jobParent, jobLimit, jobActive>>,
           \A k \in JobIds \ {j} : jobUsed'[k] = jobUsed[k],
           \/ jobUsed'[j] <= jobUsed[j]
           \/ TryAcquire(j, jobUsed'[j] - jobUsed[j])
    PROVE  LimitsKept'
<1>1. IsFiniteSet(jobActive)
  BY QuotaAssumption, FS_Subset, Zenon DEF QuotaType
<1>2. \A k \in jobActive : jobUsed[k] \in Nat /\ jobUsed'[k] \in Nat
  BY Zenon DEF QuotaType
<1>3. \A k \in jobActive \ {j} : jobUsed'[k] = jobUsed[k]
  BY Zenon DEF QuotaType
<1> SUFFICES ASSUME NEW a \in jobActive PROVE Within(SubtreeUsage(a), jobLimit[a])'
  BY Zenon DEF LimitsKept
<1>4. a \in JobIds /\ jobLimit'[a] = jobLimit[a] /\ jobLimit[a] \in Nat
  BY Zenon DEF QuotaType
<1>5. /\ SubtreeUsage(a) \in Nat /\ SubtreeUsage(a)' \in Nat
      /\ a \in Ancestors(jobParent, j) =>
             SubtreeUsage(a)' = SubtreeUsage(a) - jobUsed[j] + jobUsed'[j]
      /\ a \notin Ancestors(jobParent, j) => SubtreeUsage(a)' = SubtreeUsage(a)
  BY <1>1, <1>2, <1>3, <1>4, UsageChange, Zenon
<1>6. Within(SubtreeUsage(a), jobLimit[a])
  BY Zenon DEF LimitsKept
<1>7. jobUsed[j] \in Nat /\ jobUsed'[j] \in Nat
  BY <1>2, Zenon
<1>8. CASE SubtreeUsage(a)' <= SubtreeUsage(a)
  BY <1>4, <1>5, <1>6, <1>8 DEF Within
<1>9. CASE a \in Ancestors(jobParent, j) /\ TryAcquire(j, jobUsed'[j] - jobUsed[j])
  <2>1. Within(SubtreeUsage(a) + (jobUsed'[j] - jobUsed[j]), jobLimit[a])
    BY <1>9, Zenon DEF TryAcquire
  <2>2. SubtreeUsage(a) + (jobUsed'[j] - jobUsed[j]) = SubtreeUsage(a)'
    BY <1>5, <1>7, <1>9
  <2> QED
    BY <1>4, <2>1, <2>2, Zenon DEF Within
<1> QED
  BY <1>5, <1>7, <1>8, <1>9

\* A node that comes or goes with nothing charged, and that no other node hangs
\* from, changes nobody else's subtree.
LEMMA LeafUsage ==
    ASSUME QuotaType, QuotaType', UNCHANGED jobUsed, NEW j \in JobIds, jobUsed[j] = 0,
           ParentClosed(jobParent, jobActive \ {j}), ParentClosed(jobParent', jobActive \ {j}),
           \A k \in jobActive \ {j} : jobParent[k] = jobParent'[k],
           jobActive \ {j} = jobActive' \ {j}, NEW a \in JobIds
    PROVE  /\ a # j => SubtreeUsage(a)' = SubtreeUsage(a)
           /\ a = j => SubtreeUsage(a)' = 0
<1> DEFINE A == jobActive \ {j}
           f == jobParent
           g == jobParent'
           T == Subtree(a)
           U == Subtree(a)'
<1>1. A \in SUBSET JobIds /\ IsFiniteSet(JobIds)
  BY QuotaAssumption, Zenon DEF QuotaType
<1>2. ParentClosed(f, A) /\ ParentClosed(g, A) /\ \A k \in A : f[k] = g[k]
  BY Zenon
<1>3. \A k \in A : Ancestors(f, k) = Ancestors(g, k) /\ Ancestors(f, k) \subseteq A
  <2> HIDE DEF A, f, g
  <2> QED
    BY <1>1, <1>2, AncestorsSame
<1>4. T \in SUBSET JobIds /\ U \in SUBSET JobIds
  BY Zenon DEF QuotaType, Subtree
<1>5. \A k \in JobIds \ {j} : k \in U <=> k \in T
  BY <1>3, Zenon DEF Subtree, QuotaType
<1>6. a = j => \A k \in U : k = j
  BY <1>3, Zenon DEF Subtree, QuotaType
<1>7. \A k \in JobIds : jobUsed[k] \in Nat
  BY Zenon DEF QuotaType
<1>8. SubtreeUsage(a) = QuotaTotal(T, jobUsed) /\ SubtreeUsage(a)' = QuotaTotal(U, jobUsed)
  BY Zenon DEF SubtreeUsage
<1> HIDE DEF T, U
<1>9. QuotaTotal(U, jobUsed) = QuotaTotal(T, jobUsed)
  <2>1. /\ QuotaTotal(T, jobUsed) \in Nat /\ QuotaTotal(U, jobUsed) \in Nat
        /\ QuotaTotal(U, jobUsed) = QuotaTotal(T, jobUsed) - (IF j \in T THEN jobUsed[j] ELSE 0)
                                                  + (IF j \in U THEN jobUsed[j] ELSE 0)
    BY <1>1, <1>4, <1>5, <1>7, PartChange
  <2>2. PICK n, x, y : /\ n \in Nat /\ n = QuotaTotal(T, jobUsed)
                       /\ x = (IF j \in T THEN jobUsed[j] ELSE 0)
                       /\ y = (IF j \in U THEN jobUsed[j] ELSE 0)
    BY <2>1, Zenon
  <2>3. n \in Nat /\ x = 0 /\ y = 0
    BY <2>2, Zenon
  <2>4. n - x + y = n
    BY <2>3
  <2> QED
    BY <2>1, <2>2, <2>4, Zenon
<1>10. a = j => QuotaTotal(U, jobUsed) = 0
  <2> HAVE a = j
  <2>1. \A k \in U : jobUsed[k] = 0
    BY <1>6, Zenon
  <2>2. Cardinality(Units(U, jobUsed)) = 0
    BY <2>1, UnitsNone, Zenon
  <2> QED
    BY <2>2, Zenon DEF QuotaTotal, Units
<1> QED
  BY <1>8, <1>9, <1>10, Zenon

\* A step of one memory object that moves its charge and its job's usage alike
\* keeps the accounts exact.
LEMMA AccountsMove ==
    ASSUME QuotaType, QuotaType', ChargesExact, NEW v \in Vmos, NEW j \in JobIds,
           \A x \in Vmos \ {v} : vmo'[x] = vmo[x],
           \A k \in JobIds \ {j} : jobUsed'[k] = jobUsed[k],
           vmo[v].job \in {j, NoJob}, vmo'[v].job \in {j, NoJob},
           vmo[v].job = NoJob => vmo[v].want = 0, vmo'[v].job = NoJob => vmo'[v].want = 0,
           jobUsed'[j] = jobUsed[j] - vmo[v].want + vmo'[v].want,
           freeFrames' = freeFrames + vmo[v].frames - vmo'[v].frames
    PROVE  ChargesExact'
<1>1. vmo \in [Vmos -> VmoRecords] /\ vmo' \in [Vmos -> VmoRecords]
  BY Zenon DEF QuotaType
<1>2. /\ \A k \in JobIds :
           /\ Charged(k) \in Nat /\ Charged(k)' \in Nat
           /\ Charged(k)' = Charged(k) - (IF vmo[v].job = k THEN vmo[v].want ELSE 0)
                                + (IF vmo'[v].job = k THEN vmo'[v].want ELSE 0)
      /\ Held \in Nat /\ Held' \in Nat /\ Held' = Held - vmo[v].frames + vmo'[v].frames
  BY <1>1, VmoChange, Zenon
<1>3. (\A k \in JobIds : jobUsed[k] = Charged(k)) /\ freeFrames + Held = FreeFramesAtBoot
  BY Zenon DEF ChargesExact, Charged, Held, Wants, Holds
<1>4. /\ vmo[v].want \in Nat /\ vmo'[v].want \in Nat /\ vmo[v].frames \in Nat
      /\ vmo'[v].frames \in Nat
  BY <1>1, Zenon DEF VmoRecords
<1>5. /\ \A k \in JobIds : jobUsed[k] \in Nat /\ jobUsed'[k] \in Nat
      /\ freeFrames \in Nat /\ freeFrames' \in Nat
  BY Zenon DEF QuotaType
<1>6. NoJob \notin JobIds
  BY QuotaAssumption, Zenon
<1>7. ASSUME NEW k \in JobIds PROVE jobUsed'[k] = Charged(k)'
  <2>1. CASE k # j
    BY <1>2, <1>3, <1>5, <1>6, <2>1
  <2>2. CASE k = j
    BY <1>2, <1>3, <1>4, <1>5, <1>6, <2>2, Zenon
  <2> QED
    BY <2>1, <2>2, Zenon
<1>8. freeFrames' + Held' = FreeFramesAtBoot
  BY <1>2, <1>3, <1>4, <1>5
<1> QED
  BY <1>7, <1>8, Zenon DEF ChargesExact, Charged, Held, Wants, Holds

\* The usage of a job is what its memory objects were promised: giving back what
\* one of them was promised never runs below zero.
LEMMA ChargeCovered ==
    ASSUME QuotaType, ChargesExact, NEW v \in Vmos, NEW j \in JobIds, vmo[v].job = j
    PROVE  vmo[v].want <= jobUsed[j]
<1> DEFINE T == {x \in Vmos : vmo[x].job = j}
           U == T \ {v}
           f == Wants
<1>1. IsFiniteSet(Vmos) /\ T \in SUBSET Vmos /\ U \in SUBSET Vmos
  BY QuotaAssumption, Zenon
<1>2. \A x \in Vmos : f[x] \in Nat
  BY Zenon DEF QuotaType, VmoRecords, Wants
<1>3. jobUsed[j] = QuotaTotal(T, f)
  BY Zenon DEF ChargesExact, Wants
<1>4. v \in T /\ v \notin U /\ f[v] = vmo[v].want /\ \A x \in Vmos \ {v} : x \in U <=> x \in T
  BY Zenon DEF Wants
<1> HIDE DEF T, U, f
<1>5. /\ QuotaTotal(T, f) \in Nat /\ QuotaTotal(U, f) \in Nat
      /\ QuotaTotal(U, f) = QuotaTotal(T, f) - (IF v \in T THEN f[v] ELSE 0)
                                             + (IF v \in U THEN f[v] ELSE 0)
  BY <1>1, <1>2, <1>4, PartChange
<1>6. f[v] \in Nat
  BY <1>2, Zenon
<1> QED
  BY <1>3, <1>4, <1>5, <1>6

\* Steps of the job tree.
LEMMA CreateJobStep ==
    ASSUME QuotaInv, NEW p \in JobIds, NEW j \in JobIds, NEW l \in JobLimits, CreateJob(p, j, l)
    PROVE  QuotaInv'
<1> USE DEF QuotaInv
<1>1. /\ p \in jobActive /\ j \notin jobActive /\ jobParent[j] = NoJob /\ p # j
      /\ l \in Nat /\ NoJob \notin JobIds
  BY QuotaAssumption, Zenon DEF CreateJob, QuotaType
<1>2. /\ jobActive' = jobActive \cup {j}
      /\ jobParent' \in [JobIds -> JobIds \cup {NoJob}] /\ jobLimit' \in [JobIds -> Nat]
      /\ jobParent'[j] = p /\ \A k \in JobIds \ {j} : jobParent'[k] = jobParent[k]
      /\ jobLimit'[j] = l /\ \A k \in JobIds \ {j} : jobLimit'[k] = jobLimit[k]
      /\ UNCHANGED <<jobUsed, jobPublished, vmo, freeFrames>>
  BY <1>1, Zenon DEF CreateJob, QuotaType
<1>3. QuotaType'
  BY <1>2, Zenon DEF QuotaType
<1>4. TreeLinked'
  BY <1>1, <1>2, Zenon DEF TreeLinked, ParentClosed, QuotaType
<1>5. VmosOwned'
  BY <1>2, Zenon DEF VmosOwned
<1>6. ChargesExact'
  BY <1>2, Zenon DEF ChargesExact
<1>7. jobUsed[j] = 0
  <2> DEFINE T == {v \in Vmos : vmo[v].job = j}
  <2>1. T = {}
    BY <1>1 DEF VmosOwned, QuotaType, NoVmo
  <2>2. jobUsed[j] = QuotaTotal(T, Wants)
    BY Zenon DEF ChargesExact, Wants
  <2>3. \A x \in T : Wants[x] = 0
    BY <2>1, Zenon
  <2>4. Cardinality(Units(T, Wants)) = 0
    BY <2>3, UnitsNone, Zenon
  <2> QED
    BY <2>2, <2>4, Zenon DEF QuotaTotal, Units
<1>8. ASSUME NEW a \in jobActive' PROVE Within(SubtreeUsage(a), jobLimit[a])'
  <2>1. jobActive \ {j} = jobActive' \ {j} /\ jobActive \ {j} = jobActive
    BY <1>1, <1>2, Zenon
  <2>2. ParentClosed(jobParent, jobActive \ {j}) /\ ParentClosed(jobParent', jobActive \ {j})
    BY <1>1, <1>2, <2>1, Zenon DEF TreeLinked, ParentClosed, QuotaType
  <2>3. \A k \in jobActive \ {j} : jobParent[k] = jobParent'[k]
    BY <1>2, Zenon DEF QuotaType
  <2>4. a \in JobIds
    BY <1>3, <1>8, Zenon DEF QuotaType
  <2>5. (a # j => SubtreeUsage(a)' = SubtreeUsage(a)) /\ (a = j => SubtreeUsage(a)' = 0)
    BY <1>2, <1>3, <1>7, <2>1, <2>2, <2>3, <2>4, LeafUsage, Zenon
  <2>6. CASE a = j
    BY <1>1, <1>2, <2>5, <2>6 DEF Within
  <2>7. CASE a # j
    BY <1>2, <1>8, <2>4, <2>5, <2>7, Zenon DEF Within, LimitsKept
  <2> QED
    BY <2>6, <2>7, Zenon
<1> QED
  BY <1>3, <1>4, <1>5, <1>6, <1>8, Zenon DEF LimitsKept

\* A job whose publication failed is taken back with nothing charged to it.
LEMMA RollbackJobStep ==
    ASSUME QuotaInv, NEW j \in JobIds, RollbackJob(j)
    PROVE  QuotaInv'
<1> USE DEF QuotaInv
<1>1. /\ j \in jobActive /\ j \notin jobPublished /\ jobUsed[j] = 0
      /\ \A k \in jobActive : jobParent[k] # j
  BY Zenon DEF RollbackJob
<1>2. /\ jobActive' = jobActive \ {j}
      /\ jobParent' \in [JobIds -> JobIds \cup {NoJob}] /\ jobLimit' \in [JobIds -> Nat]
      /\ \A k \in JobIds \ {j} : jobParent'[k] = jobParent[k]
      /\ \A k \in JobIds \ {j} : jobLimit'[k] = jobLimit[k]
      /\ UNCHANGED <<jobUsed, jobPublished, vmo, freeFrames>>
  BY DEF RollbackJob, QuotaType, Unlimited
<1>3. QuotaType'
  BY <1>1, <1>2, Zenon DEF QuotaType
<1>4. TreeLinked'
  BY <1>1, <1>2, Zenon DEF TreeLinked, ParentClosed, QuotaType
<1>5. VmosOwned'
  BY <1>2, Zenon DEF VmosOwned
<1>6. ChargesExact'
  BY <1>2, Zenon DEF ChargesExact
<1>8. ASSUME NEW a \in jobActive' PROVE Within(SubtreeUsage(a), jobLimit[a])'
  <2>1. jobActive \ {j} = jobActive' \ {j}
    BY <1>2, Zenon
  <2>2. ParentClosed(jobParent, jobActive \ {j}) /\ ParentClosed(jobParent', jobActive \ {j})
    BY <1>1, <1>2, Zenon DEF TreeLinked, ParentClosed, QuotaType
  <2>3. \A k \in jobActive \ {j} : jobParent[k] = jobParent'[k]
    BY <1>2, Zenon DEF QuotaType
  <2>4. a \in JobIds /\ a # j /\ a \in jobActive
    BY <1>2, <1>3, <1>8, Zenon DEF QuotaType
  <2>5. SubtreeUsage(a)' = SubtreeUsage(a)
    BY <1>1, <1>2, <1>3, <2>1, <2>2, <2>3, <2>4, LeafUsage, Zenon
  <2> QED
    BY <1>2, <2>4, <2>5, Zenon DEF Within, LimitsKept
<1> QED
  BY <1>3, <1>4, <1>5, <1>6, <1>8, Zenon DEF LimitsKept

\* The same tree with the same usage.
LEMMA SameUsage ==
    ASSUME UNCHANGED <<jobParent, jobActive, jobUsed>>
    PROVE  \A a : SubtreeUsage(a)' = SubtreeUsage(a)
BY Zenon DEF SubtreeUsage, Subtree

\* Publishing a job changes no charge.
LEMMA PublishJobStep ==
    ASSUME QuotaInv, NEW j \in JobIds, PublishJob(j)
    PROVE  QuotaInv'
<1>1. /\ UNCHANGED <<jobParent, jobLimit, jobUsed, jobActive, vmo, freeFrames>>
      /\ j \in jobActive /\ jobPublished' = jobPublished \cup {j}
  BY Zenon DEF PublishJob
<1>2. QuotaType' /\ TreeLinked' /\ VmosOwned' /\ ChargesExact'
  BY <1>1, Zenon DEF QuotaInv, QuotaType, TreeLinked, VmosOwned, ChargesExact
<1>3. LimitsKept'
  BY <1>1, SameUsage, Zenon DEF QuotaInv, LimitsKept, Within
<1> QED
  BY <1>2, <1>3, Zenon DEF QuotaInv

\* set_limits refuses a limit below what is used.
LEMMA SetLimitsStep ==
    ASSUME QuotaInv, NEW j \in JobIds, NEW l \in JobLimits, SetLimits(j, l)
    PROVE  QuotaInv'
<1>1. /\ UNCHANGED <<jobParent, jobPublished, jobUsed, jobActive, vmo, freeFrames>>
      /\ jobLimit' \in [JobIds -> Nat] /\ jobLimit'[j] = l
      /\ \A k \in JobIds \ {j} : jobLimit'[k] = jobLimit[k]
      /\ Within(SubtreeUsage(j), l)
  BY QuotaAssumption, Zenon DEF SetLimits, QuotaInv, QuotaType
<1>2. QuotaType' /\ TreeLinked' /\ VmosOwned' /\ ChargesExact'
  BY <1>1, Zenon DEF QuotaInv, QuotaType, TreeLinked, VmosOwned, ChargesExact
<1>3. ASSUME NEW a \in jobActive' PROVE Within(SubtreeUsage(a), jobLimit[a])'
  <2>1. SubtreeUsage(a)' = SubtreeUsage(a) /\ a \in jobActive /\ a \in JobIds
    BY <1>1, <1>3, SameUsage, Zenon DEF QuotaInv, QuotaType
  <2>2. Within(SubtreeUsage(a), jobLimit[a])
    BY <2>1, Zenon DEF QuotaInv, LimitsKept
  <2> QED
    BY <1>1, <2>1, <2>2, Zenon DEF Within
<1> QED
  BY <1>2, <1>3, Zenon DEF QuotaInv, LimitsKept

\* The invariant depends on nothing but the tree, the VMOs and the free frames.
LEMMA QuotaSame ==
    ASSUME QuotaInv, UNCHANGED <<jqTree, vmo, freeFrames>>
    PROVE  QuotaInv'
<1>1. UNCHANGED <<jobParent, jobLimit, jobUsed, jobActive, jobPublished, vmo, freeFrames>>
  BY Zenon DEF jqTree
<1>2. QuotaType' /\ TreeLinked' /\ VmosOwned' /\ ChargesExact'
  BY <1>1, Zenon DEF QuotaInv, QuotaType, TreeLinked, VmosOwned, ChargesExact
<1>3. LimitsKept'
  BY <1>1, SameUsage, Zenon DEF QuotaInv, LimitsKept, Within
<1> QED
  BY <1>2, <1>3, Zenon DEF QuotaInv

\* Steps of the memory objects.
LEMMA RequestPagesStep ==
    ASSUME QuotaInv, NEW v \in Vmos, NEW j \in JobIds, NEW n \in 1 .. MaxVmoPages,
           RequestPages(v, j, n)
    PROVE  QuotaInv'
<1> USE DEF QuotaInv
<1> DEFINE more == n - vmo[v].frames
           nx == IF vmo[v] = NoVmo THEN "create" ELSE "grow"
<1>1. CASE ~TryAcquire(j, more)
  <2>1. UNCHANGED <<jqTree, vmo, freeFrames>>
    BY <1>1, Zenon DEF RequestPages, jqTree
  <2> QED
    BY <2>1, QuotaSame, Zenon
<1>2. CASE TryAcquire(j, more)
  <2>1. /\ jobUsed' = [jobUsed EXCEPT ![j] = @ + more]
        /\ vmo' = [vmo EXCEPT ![v] = [@ EXCEPT !.job = j, !.want = n, !.st = nx]]
        /\ UNCHANGED <<jobParent, jobLimit, jobActive, jobPublished, freeFrames>>
        /\ j \in jobPublished
        /\ \/ vmo[v] = NoVmo
           \/ vmo[v].st = "ready" /\ vmo[v].job = j /\ n > vmo[v].frames
    BY <1>2, Zenon DEF RequestPages, Charge
  <2>2. vmo[v] \in VmoRecords /\ n \in Nat /\ MaxVmoPages \in Nat /\ nx \in {"create", "grow"}
    BY QuotaAssumption DEF QuotaType
  <2>3. /\ vmo[v].frames \in Nat /\ vmo[v].want = vmo[v].frames /\ vmo[v].frames <= n
        /\ vmo[v].job \in {j, NoJob} /\ (vmo[v].job = NoJob => vmo[v].want = 0)
    <3>1. CASE vmo[v] = NoVmo
      <4>1. 0 \in Nat /\ 0 <= n
        BY <2>2
      <4>2. NoVmo.frames = 0 /\ NoVmo.want = 0 /\ NoVmo.job = NoJob
        BY Zenon DEF NoVmo
      <4>3. vmo[v].frames = 0 /\ vmo[v].want = 0 /\ vmo[v].job = NoJob
        BY <3>1, <4>2, Zenon
      <4> QED
        BY <4>1, <4>3, Zenon
    <3>2. CASE vmo[v] # NoVmo
      <4>1. vmo[v].st = "ready" /\ vmo[v].job = j /\ n > vmo[v].frames
        BY <2>1, <3>2, Zenon
      <4>2. vmo[v].frames = vmo[v].want
        BY <4>1, <3>2, Zenon DEF VmosOwned
      <4>3. vmo[v].frames \in Nat /\ j # NoJob
        BY <2>2, QuotaAssumption, Zenon DEF VmoRecords
      <4> QED
        BY <4>1, <4>2, <4>3, <2>2
    <3> QED
      BY <3>1, <3>2, Zenon
  <2>4. PICK d \in Nat : d = more
    BY <2>2, <2>3
  <2>5. /\ jobUsed' \in [JobIds -> Nat] /\ jobUsed'[j] = jobUsed[j] + d
        /\ \A k \in JobIds \ {j} : jobUsed'[k] = jobUsed[k]
    BY <2>1, <2>4 DEF QuotaType
  <2> DEFINE r == [vmo[v] EXCEPT !.job = j, !.want = n, !.st = nx]
  <2>6. /\ r \in VmoRecords /\ vmo' = [vmo EXCEPT ![v] = r]
        /\ r.job = j /\ r.want = n /\ r.st = nx /\ r.frames = vmo[v].frames
    BY <2>1, <2>2, Zenon DEF VmoRecords, VmoStates
  <2> HIDE DEF r
  <2>7. vmo' \in [Vmos -> VmoRecords] /\ vmo'[v] = r /\ \A x \in Vmos \ {v} : vmo'[x] = vmo[x]
    BY <2>6, Zenon DEF QuotaType
  <2>8. QuotaType'
    BY <2>1, <2>5, <2>7, Zenon DEF QuotaType
  <2>9. TreeLinked'
    BY <2>1, Zenon DEF TreeLinked
  <2>10. VmosOwned'
    BY <2>1, <2>2, <2>3, <2>6, <2>7 DEF VmosOwned
  <2>11. ChargesExact'
    <3>1. /\ vmo'[v].job \in {j, NoJob} /\ (vmo'[v].job = NoJob => vmo'[v].want = 0)
      BY <2>6, <2>7, QuotaAssumption, Zenon
    <3>2. jobUsed'[j] = jobUsed[j] - vmo[v].want + vmo'[v].want
      <4>1. jobUsed[j] \in Nat
        BY Zenon DEF QuotaType
      <4> QED
        BY <4>1, <2>2, <2>3, <2>4, <2>5, <2>6, <2>7
    <3>3. freeFrames' = freeFrames + vmo[v].frames - vmo'[v].frames
      BY <2>1, <2>3, <2>6, <2>7 DEF QuotaType
    <3> QED
      BY <2>3, <2>5, <2>7, <2>8, <3>1, <3>2, <3>3, AccountsMove, Zenon
  <2>12. LimitsKept'
    <3>1. jobUsed[j] \in Nat /\ j \in jobActive
      BY <2>1, Zenon DEF QuotaType
    <3>2. jobUsed'[j] - jobUsed[j] = more
      BY <3>1, <2>4, <2>5
    <3> QED
      BY <1>2, <2>1, <2>5, <2>8, <3>1, <3>2, UsageKeepsLimits, Zenon
  <2> QED
    BY <2>8, <2>9, <2>10, <2>11, <2>12, Zenon
<1> QED
  BY <1>1, <1>2, Zenon

\* A frame that was charged for is taken.
LEMMA TakeFrameStep ==
    ASSUME QuotaInv, NEW v \in Vmos, TakeFrame(v)
    PROVE  QuotaInv'
<1> USE DEF QuotaInv
<1>1. /\ UNCHANGED <<jobParent, jobLimit, jobUsed, jobActive, jobPublished>>
      /\ vmo[v].st \in {"create", "grow"}
  BY Zenon DEF TakeFrame, jqTree
<1>2. /\ vmo[v] \in VmoRecords /\ vmo[v].frames \in Nat /\ vmo[v].want \in Nat
      /\ freeFrames \in Nat
  BY Zenon DEF QuotaType, VmoRecords
<1>3. PICK r \in VmoRecords, m \in Nat :
        /\ vmo' = [vmo EXCEPT ![v] = r] /\ freeFrames' = m
        /\ m = freeFrames + vmo[v].frames - r.frames
        /\ r.job = vmo[v].job /\ r.want = vmo[v].want
        /\ r.st \in {"create", "grow", "ready"} /\ r.frames <= r.want
        /\ r.st = "ready" => r.frames = r.want
  <2>1. CASE vmo[v].frames < vmo[v].want /\ freeFrames > 0
    <3>1. freeFrames' = freeFrames - 1 /\ vmo' = [vmo EXCEPT ![v].frames = @ + 1]
      BY <1>2, <2>1 DEF TakeFrame
    <3>2. PICK k \in Nat : k = vmo[v].frames + 1
      BY <1>2
    <3> DEFINE r == [vmo[v] EXCEPT !.frames = k]
    <3>3. /\ r \in VmoRecords /\ r.frames = k
          /\ r.job = vmo[v].job /\ r.want = vmo[v].want /\ r.st = vmo[v].st
      BY <1>2, Zenon DEF VmoRecords
    <3>4. vmo' = [vmo EXCEPT ![v] = r]
      BY <3>1, <3>2, Zenon
    <3> HIDE DEF r
    <3>5. freeFrames' \in Nat /\ freeFrames' = freeFrames + vmo[v].frames - r.frames
      BY <1>2, <2>1, <3>1, <3>2, <3>3
    <3>6. r.st \in {"create", "grow", "ready"} /\ r.frames <= r.want /\ r.st # "ready"
      BY <1>1, <1>2, <2>1, <3>2, <3>3
    <3> QED
      BY <3>3, <3>4, <3>5, <3>6, Zenon
  <2>2. CASE vmo[v].frames = vmo[v].want
    <3>1. freeFrames' = freeFrames /\ vmo' = [vmo EXCEPT ![v].st = "ready"]
      BY <1>2, <2>2 DEF TakeFrame
    <3> DEFINE r == [vmo[v] EXCEPT !.st = "ready"]
    <3>3. /\ r \in VmoRecords /\ r.st = "ready" /\ r.job = vmo[v].job /\ r.want = vmo[v].want
          /\ r.frames = vmo[v].frames
      BY <1>2, Zenon DEF VmoRecords, VmoStates
    <3>4. vmo' = [vmo EXCEPT ![v] = r]
      BY <3>1, Zenon
    <3> HIDE DEF r
    <3>5. freeFrames' = freeFrames + vmo[v].frames - r.frames /\ r.frames <= r.want
      BY <1>2, <2>2, <3>1, <3>3
    <3> QED
      BY <1>2, <2>2, <3>1, <3>3, <3>4, <3>5, Zenon
  <2> QED
    BY <2>1, <2>2, Zenon DEF TakeFrame
<1>4. vmo' \in [Vmos -> VmoRecords] /\ vmo'[v] = r /\ \A x \in Vmos \ {v} : vmo'[x] = vmo[x]
  BY <1>3, Zenon DEF QuotaType
<1>5. QuotaType'
  BY <1>1, <1>3, <1>4, Zenon DEF QuotaType
<1>6. TreeLinked'
  BY <1>1, Zenon DEF TreeLinked
<1>7. vmo[v].job \in jobPublished /\ vmo[v].job \in JobIds /\ NoJob \notin JobIds
  BY <1>1, QuotaAssumption DEF VmosOwned, NoVmo, QuotaType
<1>8. VmosOwned'
  BY <1>1, <1>3, <1>4, <1>7, Zenon DEF VmosOwned
<1>9. ChargesExact'
  <2> DEFINE j == vmo[v].job
  <2>1. PICK k \in JobIds : k = j
    BY <1>7, Zenon
  <2>2. jobUsed'[k] = jobUsed[k] - vmo[v].want + vmo'[v].want
    BY <1>1, <1>2, <1>3, <1>4 DEF QuotaType
  <2>3. freeFrames' = freeFrames + vmo[v].frames - vmo'[v].frames
    BY <1>3, <1>4, Zenon
  <2>4. /\ vmo[v].job \in {k, NoJob} /\ vmo'[v].job \in {k, NoJob}
        /\ vmo[v].job # NoJob /\ vmo'[v].job # NoJob
    BY <1>3, <1>4, <1>7, <2>1, Zenon
  <2>5. \A i \in JobIds \ {k} : jobUsed'[i] = jobUsed[i]
    BY <1>1, Zenon
  <2> QED
    BY <1>4, <1>5, <2>2, <2>3, <2>4, <2>5, AccountsMove, Zenon
<1>10. LimitsKept'
  BY <1>1, SameUsage, Zenon DEF LimitsKept, Within
<1> QED
  BY <1>5, <1>6, <1>8, <1>9, <1>10, Zenon

\* A memory object that gives back a part of its charge, and the frames it does
\* not keep.
LEMMA GiveBackStep ==
    ASSUME QuotaInv, NEW v \in Vmos, NEW j \in JobIds, vmo[v].job = j,
           NEW d \in Nat, Release(j, d), NEW r \in VmoRecords, d = vmo[v].want - r.want,
           vmo' = [vmo EXCEPT ![v] = r],
           freeFrames' = freeFrames + vmo[v].frames - r.frames, r.frames <= vmo[v].frames,
           UNCHANGED <<jobParent, jobLimit, jobActive, jobPublished>>,
           \/ r = NoVmo
           \/ r.job = j /\ r.st = "ready" /\ r.frames = r.want
    PROVE  QuotaInv'
<1> USE DEF QuotaInv
<1>1. vmo' \in [Vmos -> VmoRecords] /\ vmo'[v] = r /\ \A x \in Vmos \ {v} : vmo'[x] = vmo[x]
  BY Zenon DEF QuotaType
<1>2. /\ vmo[v].frames \in Nat /\ vmo[v].want \in Nat /\ r.want \in Nat /\ r.frames \in Nat
      /\ freeFrames \in Nat /\ jobUsed[j] \in Nat
  BY Zenon DEF QuotaType, VmoRecords
<1>3. d <= jobUsed[j]
  <2>1. vmo[v].want <= jobUsed[j]
    BY ChargeCovered, Zenon
  <2> QED
    BY <1>2, <2>1
<1>4. PICK u \in Nat : u = jobUsed[j] - d
  BY <1>2, <1>3
<1>5. /\ jobUsed' \in [JobIds -> Nat] /\ jobUsed'[j] = u
      /\ \A k \in JobIds \ {j} : jobUsed'[k] = jobUsed[k]
  <2>1. jobUsed' = [jobUsed EXCEPT ![j] = IF jobUsed[j] < d THEN 0 ELSE jobUsed[j] - d]
    BY Zenon DEF Release
  <2>2. ~(jobUsed[j] < d)
    BY <1>2, <1>3
  <2>3. jobUsed' = [jobUsed EXCEPT ![j] = u]
    BY <1>4, <2>1, <2>2, Zenon
  <2> QED
    BY <2>3, Zenon DEF QuotaType
<1>6. freeFrames' \in Nat
  BY <1>2
<1>7. QuotaType'
  BY <1>1, <1>5, <1>6, Zenon DEF QuotaType
<1>8. TreeLinked'
  BY Zenon DEF TreeLinked
<1>9. NoJob \notin JobIds /\ (r = NoVmo => r.job = NoJob /\ r.want = 0)
  BY QuotaAssumption DEF NoVmo
<1>10. j \in jobPublished /\ j \in jobActive
  <2>1. NoVmo.job = NoJob
    BY Zenon DEF NoVmo
  <2>2. vmo[v] # NoVmo
    BY <1>9, <2>1, Zenon
  <2> QED
    BY <2>2, Zenon DEF VmosOwned, QuotaType
<1>11. VmosOwned'
  <2>1. r = NoVmo \/ (r.job \in jobPublished /\ r.st = "ready" /\ r.frames <= r.want /\ r.frames = r.want)
    <3>1. \A a, b \in Nat : a = b => a <= b
      OBVIOUS
    <3> QED
      BY <1>2, <1>10, <3>1, Zenon
  <2> QED
    BY <1>1, <2>1, Zenon DEF VmosOwned
<1>12. ChargesExact'
  <2>1. jobUsed'[j] = jobUsed[j] - vmo[v].want + vmo'[v].want
    <3>1. PICK a \in Nat, b \in Nat, c \in Nat : a = jobUsed[j] /\ b = vmo[v].want /\ c = r.want
      BY <1>2, Zenon
    <3>2. d = b - c
      BY <3>1, Zenon
    <3>3. a - d = a - b + c
      BY <3>2
    <3>4. jobUsed'[j] = a - d /\ vmo'[v].want = c
      BY <1>1, <1>4, <1>5, <3>1, Zenon
    <3> QED
      BY <3>1, <3>3, <3>4, Zenon
  <2>2. freeFrames' = freeFrames + vmo[v].frames - vmo'[v].frames
    BY <1>1, Zenon
  <2>3. /\ vmo[v].job \in {j, NoJob} /\ vmo'[v].job \in {j, NoJob} /\ vmo[v].job # NoJob
        /\ (vmo'[v].job = NoJob => vmo'[v].want = 0)
    BY <1>1, <1>9, Zenon
  <2> QED
    BY <1>1, <1>5, <1>7, <2>1, <2>2, <2>3, AccountsMove, Zenon
<1>13. LimitsKept'
  <2>1. jobUsed'[j] <= jobUsed[j]
    BY <1>2, <1>4, <1>5
  <2> QED
    BY <1>5, <1>7, <1>10, <2>1, UsageKeepsLimits, Zenon
<1> QED
  BY <1>7, <1>8, <1>11, <1>12, <1>13, Zenon

\* When frames run out, what was charged for the missing ones is released at
\* every ancestor.
LEMMA OutOfFramesStep ==
    ASSUME QuotaInv, NEW v \in Vmos, OutOfFrames(v)
    PROVE  QuotaInv'
<1> USE DEF QuotaInv
<1>1. /\ vmo[v] \in VmoRecords /\ vmo[v].frames \in Nat /\ vmo[v].want \in Nat
      /\ freeFrames \in Nat /\ vmo[v].st \in {"create", "grow"}
      /\ vmo[v].frames < vmo[v].want
      /\ UNCHANGED <<jobParent, jobLimit, jobActive, jobPublished>>
  BY Zenon DEF QuotaType, VmoRecords, OutOfFrames
<1>2. vmo[v].job \in JobIds
  BY <1>1 DEF VmosOwned, NoVmo, QuotaType
<1>3. PICK j \in JobIds : vmo[v].job = j
  BY <1>2, Zenon
<1>4. CASE vmo[v].st = "create"
  <2>1. /\ Release(vmo[v].job, vmo[v].want) /\ freeFrames' = freeFrames + vmo[v].frames
        /\ vmo' = [vmo EXCEPT ![v] = NoVmo]
    BY <1>4, Zenon DEF OutOfFrames
  <2>2. NoVmo \in VmoRecords /\ NoVmo.want = 0 /\ NoVmo.frames = 0
    BY Zenon DEF NoVmo, VmoRecords, VmoStates
  <2>3. PICK d \in Nat : d = vmo[v].want
    BY <1>1, Zenon
  <2>4. Release(j, d) /\ d = vmo[v].want - NoVmo.want /\ NoVmo.frames <= vmo[v].frames
    BY <1>1, <1>3, <2>1, <2>2, <2>3
  <2>5. freeFrames' = freeFrames + vmo[v].frames - NoVmo.frames
    BY <1>1, <2>1, <2>2
  <2> HIDE DEF QuotaInv
  <2> QED
    BY <1>1, <1>3, <2>1, <2>2, <2>4, <2>5, GiveBackStep, Zenon
<1>5. CASE vmo[v].st = "grow"
  <2>1. /\ Release(vmo[v].job, vmo[v].want - vmo[v].frames) /\ freeFrames' = freeFrames
        /\ vmo' = [vmo EXCEPT ![v].want = vmo[v].frames, ![v].st = "ready"]
    BY <1>5, Zenon DEF OutOfFrames
  <2> DEFINE r == [vmo[v] EXCEPT !.want = vmo[v].frames, !.st = "ready"]
  <2>2. /\ r \in VmoRecords /\ r.want = vmo[v].frames /\ r.frames = vmo[v].frames
        /\ r.job = vmo[v].job /\ r.st = "ready"
    BY <1>1, Zenon DEF VmoRecords, VmoStates
  <2>3. vmo' = [vmo EXCEPT ![v] = r]
    BY <2>1, Zenon
  <2> HIDE DEF r, QuotaInv
  <2>4. PICK d \in Nat : d = vmo[v].want - vmo[v].frames
    BY <1>1
  <2>5. Release(j, d) /\ d = vmo[v].want - r.want /\ r.frames <= vmo[v].frames
    BY <1>1, <1>3, <2>1, <2>2, <2>4
  <2>6. freeFrames' = freeFrames + vmo[v].frames - r.frames
    BY <1>1, <2>1, <2>2
  <2>7. r.job = j /\ r.st = "ready" /\ r.frames = r.want
    BY <1>3, <2>2, Zenon
  <2> QED
    BY <1>1, <1>3, <2>2, <2>3, <2>5, <2>6, <2>7, GiveBackStep, Zenon
<1> QED
  BY <1>1, <1>4, <1>5, Zenon

\* Dropping a VMO releases its frames and exactly their charges.
LEMMA DropVmoStep ==
    ASSUME QuotaInv, NEW v \in Vmos, DropVmo(v)
    PROVE  QuotaInv'
<1> USE DEF QuotaInv
<1>1. /\ vmo[v] \in VmoRecords /\ vmo[v].frames \in Nat /\ vmo[v].want \in Nat
      /\ freeFrames \in Nat /\ vmo[v].st = "ready"
      /\ UNCHANGED <<jobParent, jobLimit, jobActive, jobPublished>>
      /\ Release(vmo[v].job, vmo[v].frames) /\ freeFrames' = freeFrames + vmo[v].frames
      /\ vmo' = [vmo EXCEPT ![v] = NoVmo]
  BY Zenon DEF QuotaType, VmoRecords, DropVmo
<1>2. vmo[v].job \in JobIds /\ vmo[v].frames = vmo[v].want
  BY <1>1 DEF VmosOwned, NoVmo, QuotaType
<1>3. PICK j \in JobIds : vmo[v].job = j
  BY <1>2, Zenon
<1>4. NoVmo \in VmoRecords /\ NoVmo.want = 0 /\ NoVmo.frames = 0
  BY Zenon DEF NoVmo, VmoRecords, VmoStates
<1>5. PICK d \in Nat : d = vmo[v].want
  BY <1>1, Zenon
<1>6. Release(j, d) /\ d = vmo[v].want - NoVmo.want /\ NoVmo.frames <= vmo[v].frames
  BY <1>1, <1>2, <1>3, <1>4, <1>5
<1>7. freeFrames' = freeFrames + vmo[v].frames - NoVmo.frames
  BY <1>1, <1>4
<1> HIDE DEF QuotaInv
<1> QED
  BY <1>1, <1>3, <1>4, <1>6, <1>7, GiveBackStep, Zenon

\* The invariant holds with the root job alone.
LEMMA QuotaInitInv == QuotaInit => QuotaInv
<1> HAVE QuotaInit
<1>1. QuotaType
  BY QuotaAssumption DEF QuotaInit, QuotaType, Unlimited, NoVmo, VmoRecords, VmoStates
<1>2. TreeLinked
  BY QuotaAssumption, Zenon DEF QuotaInit, TreeLinked, ParentClosed
<1>3. VmosOwned
  BY Zenon DEF QuotaInit, VmosOwned
<1>5. LimitsKept
  BY QuotaAssumption, Zenon DEF QuotaInit, LimitsKept, Within
<1>6. ASSUME NEW j \in JobIds
      PROVE  jobUsed[j] = QuotaTotal({v \in Vmos : vmo[v].job = j}, [v \in Vmos |-> vmo[v].want])
  <2> DEFINE T == {v \in Vmos : vmo[v].job = j}
             f == [v \in Vmos |-> vmo[v].want]
  <2>1. \A x \in T : f[x] = 0
    BY Zenon DEF QuotaInit, NoVmo
  <2> HIDE DEF T, f
  <2>2. Cardinality(Units(T, f)) = 0
    BY <2>1, UnitsNone, Zenon
  <2>3. jobUsed[j] = 0
    BY Zenon DEF QuotaInit
  <2> QED
    BY <2>2, <2>3, Zenon DEF QuotaTotal, Units, T, f
<1>7. freeFrames + QuotaTotal(Vmos, [v \in Vmos |-> vmo[v].frames]) = FreeFramesAtBoot
  <2> DEFINE f == [v \in Vmos |-> vmo[v].frames]
  <2>1. \A x \in Vmos : f[x] = 0
    BY Zenon DEF QuotaInit, NoVmo
  <2> HIDE DEF f
  <2>2. Cardinality(Units(Vmos, f)) = 0
    BY <2>1, UnitsNone, Zenon
  <2>3. QuotaTotal(Vmos, f) = 0
    BY <2>2, Zenon DEF QuotaTotal, Units
  <2> QED
    BY <2>3, QuotaAssumption DEF QuotaInit, f
<1> QED
  BY <1>1, <1>2, <1>3, <1>5, <1>6, <1>7, Zenon DEF QuotaInv, ChargesExact

\* Every step keeps charges exact and within the limits.
LEMMA QuotaStep == QuotaInv /\ [QuotaNext]_jqVars => QuotaInv'
<1> SUFFICES ASSUME QuotaInv, [QuotaNext]_jqVars PROVE QuotaInv'
  BY Zenon
<1>1. CASE UNCHANGED jqVars
  BY <1>1, QuotaSame, Zenon DEF jqVars
<1>2. ASSUME NEW j \in JobIds, BindQuotaPort(j) PROVE QuotaInv'
  BY <1>2, QuotaSame, Zenon DEF BindQuotaPort
<1>3. CASE FlushNotifications
  BY <1>3, QuotaSame, Zenon DEF FlushNotifications
<1> QED
  BY <1>1, <1>2, <1>3, CreateJobStep, PublishJobStep, RollbackJobStep, SetLimitsStep,
     RequestPagesStep, TakeFrameStep, OutOfFramesStep, DropVmoStep, Zenon DEF QuotaNext

\* However charges, failed allocations, new limits and new jobs interleave, no
\* job tree exceeds a limit and every page is charged, and every frame counted,
\* exactly once (QuotaTree::try_acquire, Vmo::new_in_job, set_size and drop).
THEOREM QuotasSound == QuotaSpec => []QuotaSound
<1>1. QuotaInv => QuotaSound
  BY Zenon DEF QuotaInv, QuotaSound
<1> QED
  BY <1>1, QuotaInitInv, QuotaStep, PTL DEF QuotaSpec
=============================================================================
