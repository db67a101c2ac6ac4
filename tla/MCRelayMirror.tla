----------------------------- MODULE MCRelayMirror -----------------------------
(* Instances of RelayMirror for TLC: two of the requests are the same Envelope *)
(* sent twice, so that two Saves and the replay meet on one name.              *)
EXTENDS RelayMirror, TLC

CONSTANTS r1, r2, r3, same, other

MCDigest == [r \in Requests |-> IF r = r3 THEN other ELSE same]

Symmetry == Permutations(Requests \ {r3})
=============================================================================
