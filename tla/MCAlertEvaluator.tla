--------------------------- MODULE MCAlertEvaluator ---------------------------
(* Instances of AlertEvaluator for TLC: an hour is cut to four ticks. *)
EXTENDS AlertEvaluator, TLC

CONSTANTS s1, s2, i1

once  == [condition |-> "new_issue", threshold |-> 1, window |-> 4, cooldown |-> 0]
often == [condition |-> "count", threshold |-> 1, window |-> 4, cooldown |-> 2]
again == [condition |-> "regression", threshold |-> 1, window |-> 2, cooldown |-> 2]

MCEach == {<<once>>, <<often>>, <<again>>}

Symmetry == Permutations(Servers)
=============================================================================
