------------------------------- MODULE Mailbox -------------------------------
(***************************************************************************)
(* What a wake inbox promises: items are posted by anyone, posting one     *)
(* that is still there adds nothing, the owner takes batches of them and   *)
(* handles each item of a batch, and no posted item is left behind.        *)
(***************************************************************************)
CONSTANT Items
VARIABLES posted, hand

Init == posted = {} /\ hand = {}
Post(s) == posted' = posted \cup {s} /\ UNCHANGED hand
Take(batch) == hand = {} /\ hand' = batch /\ posted' = posted \ batch
Handle(s) == s \in hand /\ hand' = hand \ {s} /\ UNCHANGED posted

TakeWith(s) == \E batch \in SUBSET posted : s \in batch /\ Take(batch)
Next == \E s \in Items : Post(s) \/ TakeWith(s) \/ Handle(s)
Spec == /\ Init /\ [][Next]_<<posted, hand>>
        /\ \A s \in Items : SF_<<posted, hand>>(TakeWith(s)) /\ WF_<<posted, hand>>(Handle(s))
=============================================================================
