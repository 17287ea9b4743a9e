------------------------------ MODULE TaskInbox ------------------------------
(***************************************************************************)
(* The wake inbox of one CPU (huesos-sched TaskInbox) with its reschedule  *)
(* interrupt: producers set a task bit, then the summary bit of its word,  *)
(* then arm the inbox and interrupt the owner if they were first; the      *)
(* owner drains in its scheduler interrupt and disarms.                    *)
(*                                                                         *)
(* Every atomic operation is a step.  What the owner does with a slot it   *)
(* takes (process_inbox_task) is in TaskWake.                              *)
(***************************************************************************)
EXTENDS Integers

CONSTANTS Slots,
          WordOf,      \* the task word of a slot's bit
          SummaryOf,   \* the summary word of a task word's bit
          Summaries,   \* number of summary words
          Producers

Words == {WordOf[s] : s \in Slots}
SummaryIndex == 0 .. Summaries - 1

ASSUME LayoutAssumption ==
    /\ Slots \subseteq Nat /\ Summaries \in Nat \ {0}
    /\ WordOf \in [Slots -> Nat] /\ SummaryOf \in [Words -> SummaryIndex]

VARIABLES words,    \* task bits set
          summary,  \* summary bits set (as the words they stand for)
          armed,
          ipi,      \* a reschedule interrupt is pending at the owner
          phase, slot, \* producers: program point, slot being published
          at,       \* the owner's program point
          next,     \* the summary word a drain looks at next
          dirty,    \* words of the summary word it has taken
          todo      \* slots of the task word it has taken

bits == <<words, summary, armed, ipi>>
drain == <<at, next, dirty, todo>>
inboxVars == <<bits, phase, slot, drain>>

InboxTypeOK ==
    /\ words \in SUBSET Slots /\ summary \in SUBSET Words
    /\ armed \in BOOLEAN /\ ipi \in BOOLEAN
    /\ phase \in [Producers -> {"idle", "word", "summary", "arm", "ipi"}]
    /\ slot \in [Producers -> Slots]
    /\ at \in {"run", "summary", "word", "consume", "disarm", "recheck", "rearm"}
    /\ next \in 0 .. Summaries
    /\ dirty \in SUBSET Words /\ todo \in SUBSET Slots

InboxInit ==
    /\ words = {} /\ summary = {} /\ armed = FALSE /\ ipi = FALSE
    /\ phase = [p \in Producers |-> "idle"]
    /\ slot \in [Producers -> Slots]
    /\ at = "run" /\ next = 0 /\ dirty = {} /\ todo = {}

-----------------------------------------------------------------------------
(* TaskInbox::publish, and the interrupt its caller sends *)

Goto(p, l) == phase' = [phase EXCEPT ![p] = l]

Begin(p) ==
    /\ phase[p] = "idle"
    /\ \E s \in Slots : slot' = [slot EXCEPT ![p] = s]
    /\ Goto(p, "word")
    /\ UNCHANGED <<bits, drain>>
\* Mutant: the summary bit is forgotten.
SetWordOnly(p) ==
    /\ phase[p] = "word"
    /\ words' = words \cup {slot[p]}
    /\ Goto(p, "arm")
    /\ UNCHANGED <<summary, armed, ipi, slot, drain>>
SetWord(p) ==
    /\ phase[p] = "word"
    /\ words' = words \cup {slot[p]}
    /\ Goto(p, "summary")
    /\ UNCHANGED <<summary, armed, ipi, slot, drain>>
SetSummary(p) ==
    /\ phase[p] = "summary"
    /\ summary' = summary \cup {WordOf[slot[p]]}
    /\ Goto(p, "arm")
    /\ UNCHANGED <<words, armed, ipi, slot, drain>>
Arm(p) ==
    /\ phase[p] = "arm"
    /\ armed' = TRUE
    /\ Goto(p, IF armed THEN "idle" ELSE "ipi")
    /\ UNCHANGED <<words, summary, ipi, slot, drain>>
SendIpi(p) ==
    /\ phase[p] = "ipi"
    /\ ipi' = TRUE
    /\ Goto(p, "idle")
    /\ UNCHANGED <<words, summary, armed, slot, drain>>

-----------------------------------------------------------------------------
(* The scheduler interrupt of the owner: TaskInbox::drain *)

Reschedule ==
    /\ at = "run" /\ ipi
    /\ ipi' = FALSE /\ at' = "summary" /\ next' = 0
    /\ UNCHANGED <<words, summary, armed, phase, slot, dirty, todo>>
\* The hardware tick and yield_now drain as well.
TimerTick ==
    /\ at = "run"
    /\ at' = "summary" /\ next' = 0
    /\ UNCHANGED <<bits, phase, slot, dirty, todo>>

TakeSummary ==
    /\ at = "summary"
    /\ IF next < Summaries
       THEN /\ dirty' = {w \in summary : SummaryOf[w] = next}
            /\ summary' = {w \in summary : SummaryOf[w] # next}
            /\ next' = next + 1 /\ at' = "word"
       ELSE at' = "disarm" /\ UNCHANGED <<dirty, summary, next>>
    /\ UNCHANGED <<words, armed, ipi, phase, slot, todo>>
TakeWord ==
    /\ at = "word"
    /\ \/ \E w \in dirty :
            /\ \A v \in dirty : w <= v
            /\ todo' = {s \in words : WordOf[s] = w}
            /\ words' = {s \in words : WordOf[s] # w}
            /\ dirty' = dirty \ {w}
            /\ at' = "consume"
       \/ dirty = {} /\ at' = "summary" /\ UNCHANGED <<words, dirty, todo>>
    /\ UNCHANGED <<summary, armed, ipi, phase, slot, next>>
Consume ==
    /\ at = "consume"
    /\ \/ \E s \in todo : (\A r \in todo : s <= r) /\ todo' = todo \ {s} /\ UNCHANGED at
       \/ todo = {} /\ at' = "word" /\ UNCHANGED todo
    /\ UNCHANGED <<bits, phase, slot, next, dirty>>

Disarm ==
    /\ at = "disarm"
    /\ armed' = FALSE /\ at' = "recheck" /\ next' = 0
    /\ UNCHANGED <<words, summary, ipi, phase, slot, dirty, todo>>
\* Mutant: has_pending is not asked after the disarm.
RecheckSkipped ==
    /\ at = "recheck"
    /\ at' = "run"
    /\ UNCHANGED <<bits, phase, slot, next, dirty, todo>>
\* has_pending loads one summary word after the other.
Recheck ==
    /\ at = "recheck"
    /\ \/ next = Summaries /\ at' = "run" /\ UNCHANGED next
       \/ next < Summaries /\ (\E w \in summary : SummaryOf[w] = next) /\ at' = "rearm" /\ UNCHANGED next
       \/ next < Summaries /\ (\A w \in summary : SummaryOf[w] # next) /\ next' = next + 1 /\ UNCHANGED at
    /\ UNCHANGED <<bits, phase, slot, dirty, todo>>

\* A producer that armed first sends an interrupt; else this drain goes on.
Rearm ==
    /\ at = "rearm"
    /\ armed' = TRUE
    /\ IF armed THEN at' = "run" /\ UNCHANGED next ELSE at' = "summary" /\ next' = 0
    /\ UNCHANGED <<words, summary, ipi, phase, slot, dirty, todo>>

-----------------------------------------------------------------------------
Produce(p) == SetWord(p) \/ SetSummary(p) \/ Arm(p) \/ SendIpi(p)
Handler == TakeSummary \/ TakeWord \/ Consume \/ Disarm \/ Recheck \/ Rearm
InboxNext == (\E p \in Producers : Begin(p) \/ Produce(p)) \/ Reschedule \/ TimerTick \/ Handler
InboxSpec == InboxInit /\ [][InboxNext]_inboxVars

\* A producer finishes its publication, the interrupt handler runs to its end
\* and a pending reschedule interrupt is delivered; ticks are not needed.
InboxFairness == (\A p \in Producers : WF_inboxVars(Produce(p))) /\ WF_inboxVars(Handler) /\ WF_inboxVars(Reschedule)
InboxFairSpec == InboxSpec /\ InboxFairness

-----------------------------------------------------------------------------
(* Properties *)

Draining == at # "run"

\* A summary bit is never stranded: while one is set the owner is draining, or
\* is interrupted, or a producer has yet to arm or to interrupt.
SummaryNotStranded ==
    summary # {} => \/ Draining \/ ipi
                    \/ \E p \in Producers : phase[p] \in {"arm", "ipi"}

\* A task bit is never stranded: its summary bit is set, or its producer is
\* about to set it, or the drain has taken the summary bit and not yet the word.
BitNotStranded ==
    \A s \in words : \/ WordOf[s] \in summary \cup dirty
                     \/ \E p \in Producers : phase[p] = "summary" /\ WordOf[slot[p]] = WordOf[s]

\* An armed inbox is owed an interrupt: a producer that finds it armed, and so
\* sends none itself, relies on the one of whoever armed it.
ArmedWhenOwed ==
    (armed /\ ~Draining) => ipi \/ \E p \in Producers : phase[p] = "ipi"

\* The inbox is a mailbox: every published slot is consumed, and nothing is
\* consumed that was not published.
M == INSTANCE Mailbox WITH Items <- Slots, posted <- words, hand <- todo
IsMailbox == M!Spec
=============================================================================
