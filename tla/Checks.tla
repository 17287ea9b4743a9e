------------------------------- MODULE Checks -------------------------------
(***************************************************************************)
(* Validation written as the code writes it: checks made in order, the     *)
(* first one that fails being the answer.                                  *)
(***************************************************************************)
EXTENDS Integers, Sequences, FiniteSets, SequencesExt, FiniteSetsExt, TLC

Fault(wrong, error) == IF wrong THEN error ELSE "ok"

\* The first complaint of checks made in order.
FirstFault(faults) ==
    LET bad == SelectSeq(faults, LAMBDA f : f # "ok") IN IF bad = <<>> THEN "ok" ELSE bad[1]

\* The sequence of what Op makes of 1, 2, ..., n.
Each(indices, Op(_)) == FoldLeft(LAMBDA acc, i : Append(acc, Op(i)), <<>>, [i \in indices |-> i])

\* A set in the order of its keys.
Sorted(set, Key(_)) ==
    SortSeq(FoldSet(LAMBDA x, acc : Append(acc, x), <<>>, set), LAMBDA x, y : Key(x) < Key(y))
=============================================================================
