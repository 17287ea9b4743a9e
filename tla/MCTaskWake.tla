------------------------------ MODULE MCTaskWake ------------------------------
(* Small instances of TaskWake. *)
EXTENDS TaskWake

MCCpus == {0, 1}
MCOneSlot == {1}
MCOneIndex == {1}
MCWorkers == {"wa", "wb"}
MCOneWorker == {"wa"}
MCCpuOf == [w \in MCWorkers |-> IF w = "wa" THEN 0 ELSE 1]
MCOneCpuOf == [w \in MCOneWorker |-> 0]
MCNone == <<>>
=============================================================================
