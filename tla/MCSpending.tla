----------------------------- MODULE MCSpending -----------------------------
(* Instances of Spending for TLC. *)
EXTENDS Spending, TLC

MCLimit == [t \in Types |-> IF t = "WITHDRAWAL" THEN 4 ELSE 2]

\* A transfer of one cedi the wrong way, and the balance it can lead to.
MCAmounts == {2, 3, -1}
MCLowest == -1

Symmetry == Permutations(Requests) \cup Permutations(Ids)
=============================================================================
