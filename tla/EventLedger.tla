----------------------------- MODULE EventLedger -----------------------------
(***************************************************************************)
(* What ingestion promises, with no queue, lease, worker or payload: a     *)
(* delivery is accepted with the items it offers; an event enters the      *)
(* ledger and is charged to its issue in one step, at most once if it has  *)
(* an event_id; a delivery is done when every event with an event_id it    *)
(* offered is in the ledger, and done for good (technical-design.md        *)
(* sections 2 and 12).                                                     *)
(***************************************************************************)
EXTENDS Naturals

CONSTANTS Deliveries, Keys, Issues,
          Bodies    \* the sets of items a delivery may offer

VARIABLES
  accepted,   \* deliveries the API has answered 200 for
  offers,     \* the items each delivery offers
  done,       \* deliveries that hold no payload any more
  ledger,     \* the recorded events
  count,      \* how many events each issue has been charged with
  extra       \* how often each item without an event_id was stored

vars == <<accepted, offers, done, ledger, count, extra>>

Init ==
  /\ accepted = {} /\ done = {} /\ ledger = {}
  /\ offers = [d \in Deliveries |-> {}]
  /\ count = [i \in Issues |-> 0]
  /\ extra = [k \in Keys |-> 0]

Accept(d, body) ==
  /\ d \notin accepted
  /\ accepted' = accepted \cup {d}
  /\ offers' = [offers EXCEPT ![d] = body]
  /\ UNCHANGED <<done, ledger, count, extra>>

\* Serial 0 stands for the event_id the client chose.
Recorded(key) == \E ev \in ledger : ev.key = key /\ ev.serial = 0

Record(o, serial) ==
  /\ ledger' = ledger \cup {[key |-> o.key, serial |-> serial, issue |-> o.issue]}
  /\ count' = [count EXCEPT ![o.issue] = @ + 1]

RecordNamed(o) ==
  /\ o.kind = "event" /\ ~Recorded(o.key)
  /\ Record(o, 0)
  /\ UNCHANGED <<accepted, offers, done, extra>>

\* An event without event_id is another event each time it is stored.
RecordUnnamed(o) ==
  /\ o.kind = "anonymous"
  /\ Record(o, extra[o.key] + 1)
  /\ extra' = [extra EXCEPT ![o.key] = @ + 1]
  /\ UNCHANGED <<accepted, offers, done>>

StoreRow(o) ==
  /\ o.kind = "row"
  /\ extra' = [extra EXCEPT ![o.key] = @ + 1]
  /\ UNCHANGED <<accepted, offers, done, ledger, count>>

Finish(d) ==
  /\ d \in accepted \ done
  /\ \A o \in offers[d] : o.kind = "event" => Recorded(o.key)
  /\ done' = done \cup {d}
  /\ UNCHANGED <<accepted, offers, ledger, count, extra>>

Next ==
  \E d \in Deliveries :
    \/ \E body \in Bodies : Accept(d, body)
    \/ \E o \in offers[d] : RecordNamed(o) \/ RecordUnnamed(o) \/ StoreRow(o)
    \/ Finish(d)

Spec == Init /\ [][Next]_vars
=============================================================================
