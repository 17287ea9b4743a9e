-------------------------- MODULE MCHandleTransfer --------------------------
(* Instances of HandleTransfer for TLC.                                      *)
EXTENDS HandleTransfer, TLC

CONSTANTS p1

\* All threads belong to one process and share its handle table.
SameProc == [t \in Threads |-> p1]

Symmetry == Permutations(Koids) \cup Permutations(Messages) \cup Permutations(Mappings)
=============================================================================
