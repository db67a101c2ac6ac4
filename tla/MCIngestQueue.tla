---------------------------- MODULE MCIngestQueue ----------------------------
(* Instances of IngestQueue for TLC: Envelopes that between them hold every  *)
(* kind of item, three of them carrying the same event.                      *)
EXTENDS IngestQueue, TLC

CONSTANTS e1, e2, e3, a, b, r, x, i1, i2, w1, w2

It(kind, key, issue) == [kind |-> kind, key |-> key, issue |-> issue]

Mixed     == <<It("event", a, i1), It("skip", x, i1), It("row", r, i1)>>
Duplicate == <<It("event", a, i1), It("anonymous", b, i1)>>
Broken    == <<It("event", a, i2), It("poison", x, i2)>>

MCContent == [e \in Envelopes |->
  CASE e = e1 -> Mixed [] e = e2 -> Duplicate [] OTHER -> Broken]

Symmetry == Permutations(Workers)
=============================================================================
