-------------------------- MODULE MCIssueAggregation --------------------------
(* Instances of IssueAggregation for TLC: two Events of one error and of two    *)
(* users, two that only version 2 groups together, and two with a fingerprint,   *)
(* whose hash no version changes.                                                *)
EXTENDS IssueAggregation, TLC

CONSTANTS e1, e2, x, y, a, f, u1, u2, w1, w2

Pair(c, d) == [e \in Events |-> IF e = e1 THEN c ELSE d]
Of(v1, v2, u) == [hash |-> <<v1, v2>>, user |-> u]

OneError    == Pair(Of(x, a, u1), Of(x, a, u2))
TwoBuilds   == Pair(Of(x, a, u1), Of(y, a, u1))
Fingerprint == Pair(Of(f, f, u1), Of(f, f, None))

MCContents == {OneError, TwoBuilds, Fingerprint}
MCFingerprint == {Fingerprint}

Symmetry == Permutations(Workers)
=============================================================================
