---------------------------- MODULE MCArtifacts -----------------------------
(* Instances of Artifacts for TLC: a file in a directory and its base name,    *)
(* with and without a dist.                                                    *)
EXTENDS Artifacts

CONSTANTS p1, p2, a1, w1, w2, d, noDist, path, base, g, noId

MCHome == [t \in Threads |-> IF t = w2 THEN p2 ELSE p1]
MCBase == [n \in Names |-> base]
\* The first upload and the third are builds of one file, the second covers nothing.
MCDebugIdOf == [m \in Maps |-> IF m \in {1, 2} THEN g ELSE noId]
MCCovers == Maps \ {2}
AtBase == {[dist |-> noDist, name |-> base]}
WithoutDist == {[dist |-> noDist, name |-> path]}
AtPath == {[dist |-> d, name |-> path]}
MCWanted == {[dist |-> x, name |-> path] : x \in Dists}
MCPlaces == AtPath \cup AtBase
=============================================================================
