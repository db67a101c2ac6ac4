---------------------------- MODULE MCProjectKeys ----------------------------
(* Instances of ProjectKeys for TLC: one id from a DSN, one given by the API    *)
(* whose slug may be that id, a key brought along and two generated ones.       *)
EXTENDS ProjectKeys, TLC

Symmetry == Permutations(Handlers) \cup Permutations(Admins) \cup Permutations(ApiKeys)
=============================================================================
