--------------------------- MODULE MCTaskDirectory ---------------------------
(* Instances of TaskDirectory for TLC. *)
EXTENDS TaskDirectory, TLC
CONSTANTS o1, o2, t1, t2
Symmetry == Permutations({o1, o2}) \cup Permutations({t1, t2})
NoIdentity == <<0, 0>>
=============================================================================
