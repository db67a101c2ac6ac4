------------------------------ MODULE IssueLedger ------------------------------
(***************************************************************************)
(* What is promised of Events and Issues, with no worker, lookup,           *)
(* transaction or lock: an Event is stored, charged to one Issue and its    *)
(* hash mapped in one step, unless it is stored already; it goes to an      *)
(* Issue its hash is mapped to, for good, or to the one of its hash, which  *)
(* belongs to the grouping version that created it (processPayload).        *)
(***************************************************************************)
EXTENDS Naturals

CONSTANTS Events, Hashes, Versions, Statuses,
          None  \* no Issue

VARIABLES
  hash,     \* the hash of each Event by grouping version
  stored,   \* the Issue of each retained Event
  mapping,  \* the Issue each hash was first charged to, by version
  issue

vars == <<hash, stored, mapping, issue>>

NoIssue == [version |-> 0, count |-> 0, status |-> "unresolved", regression |-> FALSE]

Present(i) == issue[i].version # 0

Init ==
  /\ hash \in [Events -> [Versions -> Hashes]]
  /\ stored = [e \in Events |-> None]
  /\ mapping = [k \in Versions \X Hashes |-> None]
  /\ issue = [i \in Hashes |-> NoIssue]

\* A resolved Issue comes back as a regression.
Charged(row, v) ==
  IF row.version = 0 THEN [NoIssue EXCEPT !.version = v, !.count = 1]
  ELSE [row EXCEPT !.count = row.count + 1,
                   !.status = IF row.status = "resolved" THEN "unresolved" ELSE row.status,
                   !.regression = row.regression \/ row.status = "resolved"]

Own(e, v, i) == i = hash[e][v] /\ issue[i].version \in {0, v}

\* Version 2 falls back on what version 1 has mapped.
Mapped(e, v, i) == Present(i) /\ i \in {mapping[<<v, hash[e][v]>>], mapping[<<1, hash[e][1]>>]}

Record(e, v, i) ==
  LET key == <<v, hash[e][v]>> IN
  /\ stored[e] = None /\ stored' = [stored EXCEPT ![e] = i]
  /\ Own(e, v, i) \/ Mapped(e, v, i)
  /\ mapping' = [mapping EXCEPT ![key] = IF mapping[key] = None THEN i ELSE mapping[key]]
  /\ issue' = [issue EXCEPT ![i] = Charged(issue[i], v)]
  /\ UNCHANGED hash

Triage(i, status) ==
  /\ Present(i) /\ UNCHANGED <<hash, stored, mapping>>
  /\ issue' = [issue EXCEPT ![i] = [issue[i] EXCEPT !.status = status, !.regression = FALSE]]

Expire(S) ==
  /\ stored' = [e \in Events |-> IF e \in S THEN None ELSE stored[e]]
  /\ UNCHANGED <<hash, mapping, issue>>

Next ==
  \/ \E S \in SUBSET Events : Expire(S)
  \/ \E e \in Events, v \in Versions, i \in Hashes : Record(e, v, i)
  \/ \E i \in Hashes, s \in Statuses : Triage(i, s)

Spec == Init /\ [][Next]_vars
=============================================================================
