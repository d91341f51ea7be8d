---------------------------- MODULE MCUsageTracker ----------------------------
(* Instances of UsageTracker for TLC. *)
EXTENDS UsageTracker, TLC

\* Above the first threshold (1 here), below it, and below both with the budget at its end.
Answers == {[remaining |-> n, exhausted |-> n = 0] : n \in 0..2}

Symmetry == Permutations(Session)
=============================================================================
