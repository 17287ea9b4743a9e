----------------------------- MODULE MCCpuMail -----------------------------
(* The two ways a CPU is reached from another one, its runqueue-token mailbox *)
(* and its wake inbox, each on its own small instance: `part` is the one that *)
(* runs.  At rest neither has a step that its fairness asks for.              *)
(*                                                                            *)
(* Mailbox: two threads share CPU c1 and one runs on c2, so that requests of  *)
(* the same CPU and of two CPUs overlap.  Inbox: slots 1 and 2 share a word,  *)
(* slot 3 is in a word of the second summary word.                            *)
EXTENDS RunqueueToken, TaskInbox, TLC

CONSTANTS t1, t2, t3, c1, c2, p1, p2
VARIABLE part

MCThreads == {t1, t2, t3}
MCCpuOf == [t \in MCThreads |-> IF t = t2 THEN c2 ELSE c1]
Layout == (1 :> 0) @@ (2 :> 0) @@ (3 :> 1)
TwoSummaries == (0 :> 0) @@ (1 :> 1)

CpuMailInit ==
    /\ Init /\ InboxInit
    /\ \/ part = "token" /\ slot = [p \in Producers |-> 1]
       \/ part = "inbox" /\ requester = c1
CpuMailNext ==
    \/ part = "token" /\ Next
       /\ UNCHANGED <<part, inboxVars>>
    \/ part = "inbox" /\ InboxNext
       /\ UNCHANGED <<part, vars>>
CpuMailSpec ==
    /\ CpuMailInit /\ [][CpuMailNext]_<<part, vars, inboxVars>>
    /\ Fairness /\ InboxFairness
=============================================================================
