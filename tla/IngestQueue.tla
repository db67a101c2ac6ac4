----------------------------- MODULE IngestQueue -----------------------------
(***************************************************************************)
(* The durable ingest queue: the table sentryx_ingest_jobs, the API that   *)
(* inserts an accepted Envelope into it, the workers that lease, process   *)
(* and settle its rows, and the Event, Issue and side rows that processing *)
(* leaves in PostgreSQL (postgres.go, worker.go, cmd/sentryx-server).      *)
(*                                                                         *)
(* One action is one database statement or transaction: between two of     *)
(* them another worker may run, a lease may run out or the process may     *)
(* die.  The claim a worker holds is the copy of the row that LeaseJobs    *)
(* scanned; nothing but its id is compared when the row is settled.        *)
(***************************************************************************)
EXTENDS Naturals, Sequences, FiniteSets, FiniteSetsExt

CONSTANTS
  Workers,      \* goroutines running RunWorker
  Embedded,     \* those of a -role=all process, which nothing restarts alone
  Envelopes,    \* the distinct bodies clients send
  Keys,         \* event ids, and labels of the items that carry none
  Issues,       \* grouping targets (resolution is modelled apart)
  Content,      \* the parsed items of each Envelope
  MaxJobs,      \* bound on accepted deliveries
  MaxFaults,    \* bound on crashes and failed settling statements
  BatchLimit,   \* rows one LeaseJobs call may claim (20)
  MaxAttempts   \* attempts after which a failing job is dead (5)

Kinds == {"event", "anonymous", "row", "skip", "poison"}
Item  == [kind : Kinds, key : Keys, issue : Issues]

ASSUME ContentAssumption  == Content \in [Envelopes -> Seq(Item)]
ASSUME EmbeddedAssumption == Embedded \subseteq Workers
ASSUME BoundsAssumption   ==
  /\ MaxJobs \in Nat /\ MaxFaults \in Nat
  /\ BatchLimit \in Nat \ {0} /\ MaxAttempts \in Nat \ {0}

VARIABLES
  jobs,      \* sentryx_ingest_jobs
  events,    \* sentryx_events: key, serial (0: supplied event_id) and issue
  count,     \* sentryx_issues.count
  copies,    \* rows stored for each item that has no idempotency key
  phase,     \* where each worker's loop stands
  batch,     \* claims scanned by LeaseJobs and not yet begun
  claim,     \* the claim being processed or settled
  pos,       \* index of the next item of that claim
  faults     \* crashes and failed settling statements so far

vars == <<jobs, events, count, copies, phase, batch, claim, pos, faults>>
worker == <<phase, batch, claim, pos>>
stored == <<events, count, copies>>

JobIds == 1 .. MaxJobs

\* "none" is a NULL lease_until; a timer that elapsed is a lease_until or an
\* available_at that now() has passed.
Row == [state    : {"absent", "ready", "processing", "completed", "dead"},
        env      : Envelopes \cup {"none"},
        attempts : Nat,
        body     : BOOLEAN,
        timer    : {"none", "running", "elapsed"}]

Claim   == [id : JobIds, env : Envelopes, attempts : Nat, body : BOOLEAN]
NoClaim == [id |-> 0, env |-> "none", attempts |-> 0, body |-> FALSE]

Present(j) == jobs[j].state # "absent"
Length(c)  == Len(Content[c.env])

TypeOK ==
  /\ jobs \in [JobIds -> Row]
  /\ events \subseteq [key : Keys, serial : Nat, issue : Issues]
  /\ count \in [Issues -> Nat]
  /\ copies \in [Keys -> Nat]
  /\ phase \in [Workers -> {"idle", "items", "failed", "exited", "stopped"}]
  /\ batch \in [Workers -> SUBSET Claim]
  /\ claim \in [Workers -> Claim \cup {NoClaim}]
  /\ \A w \in Workers : phase[w] \in {"items", "failed"} => claim[w] \in Claim
  /\ pos \in [Workers -> Nat \ {0}]
  /\ \A w \in Workers : phase[w] = "items" => pos[w] <= Length(claim[w]) + 1
  /\ faults \in 0 .. MaxFaults

Init ==
  /\ jobs = [j \in JobIds |-> [state |-> "absent", env |-> "none",
                               attempts |-> 0, body |-> FALSE, timer |-> "none"]]
  /\ events = {}
  /\ count = [i \in Issues |-> 0]
  /\ copies = [k \in Keys |-> 0]
  /\ phase = [w \in Workers |-> "idle"]
  /\ batch = [w \in Workers |-> {}]
  /\ claim = [w \in Workers |-> NoClaim]
  /\ pos = [w \in Workers |-> 1]
  /\ faults = 0

-----------------------------------------------------------------------------
(* The API role.                                                           *)

\* The row EnqueueEnvelope inserts: ready, due at once (available_at defaults
\* to now()).  A body that does not parse is refused and inserts nothing.
Enqueued(e) == [state |-> "ready", env |-> e, attempts |-> 0,
                body |-> TRUE, timer |-> "elapsed"]

\* A client delivers an Envelope, for the first time or again.
Ingest(e, j) ==
  /\ ~Present(j) /\ \A k \in 1 .. j - 1 : Present(k)
  /\ jobs' = [jobs EXCEPT ![j] = Enqueued(e)]
  /\ UNCHANGED <<stored, worker, faults>>

\* now() passes the row's available_at or lease_until.
Elapse(j) ==
  /\ jobs[j].timer = "running"
  /\ jobs' = [jobs EXCEPT ![j].timer = "elapsed"]
  /\ UNCHANGED <<stored, worker, faults>>

-----------------------------------------------------------------------------
(* LeaseJobs.                                                              *)

\* Broken on purpose, as ..Uncounted, ..Anyway, ..Regardless and ..Early
\* below: the variants the checks must refute.
ReadyOnly(row)  == row.state = "ready" /\ row.timer = "elapsed"

Leasable(row) == /\ row.state \in {"ready", "processing"}
                 /\ row.timer = "elapsed"

LeasedUncounted(row) == [row EXCEPT !.state = "processing", !.timer = "running"]

Leased(row) == [row EXCEPT !.state = "processing", !.timer = "running",
                           !.attempts = @ + 1]

\* ORDER BY id LIMIT: the BatchLimit smallest leasable ids.
LeaseBatch == {j \in JobIds :
  /\ Leasable(jobs[j])
  /\ Cardinality({k \in 1 .. j - 1 : Leasable(jobs[k])}) < BatchLimit}

ClaimOf(j, row) == [id |-> j, env |-> row.env,
                    attempts |-> row.attempts, body |-> row.body]

Lease(w) ==
  /\ phase[w] = "idle" /\ batch[w] = {}
  /\ LeaseBatch # {}
  /\ jobs' = [j \in JobIds |-> IF j \in LeaseBatch THEN Leased(jobs[j]) ELSE jobs[j]]
  /\ batch' = [batch EXCEPT ![w] = {ClaimOf(j, jobs'[j]) : j \in LeaseBatch}]
  /\ UNCHANGED <<stored, phase, claim, pos, faults>>

-----------------------------------------------------------------------------
(* processPayload, one item of one claim at a time.                        *)

\* UPDATE ... RETURNING promises no order, so any claim of the batch is next.
\* A payload that a settled job has lost does not parse: "empty envelope".
Begin(w, c) ==
  /\ phase[w] = "idle" /\ c \in batch[w]
  /\ batch' = [batch EXCEPT ![w] = @ \ {c}]
  /\ claim' = [claim EXCEPT ![w] = c]
  /\ pos' = [pos EXCEPT ![w] = 1]
  /\ phase' = [phase EXCEPT ![w] = IF c.body THEN "items" ELSE "failed"]
  /\ UNCHANGED <<jobs, stored, faults>>

AtItem(w, kinds) == /\ phase[w] = "items"
                    /\ pos[w] <= Length(claim[w])
                    /\ Content[claim[w].env][pos[w]].kind \in kinds

Current(w) == Content[claim[w].env][pos[w]]

NextItem(p) == p + 1

Advance(w) == /\ pos' = [pos EXCEPT ![w] = NextItem(@)]
              /\ UNCHANGED <<jobs, phase, batch, claim, faults>>

EventStored(key) == \E ev \in events : ev.key = key /\ ev.serial = 0

\* The transaction of an event that supplies its event_id: the Issue upsert
\* counts it, then the insert of the Event hits the unique constraint and
\* everything rolls back, or both commit.
CountedAnyway(item) ==
  /\ events' = IF EventStored(item.key) THEN events
               ELSE events \cup {[key |-> item.key, serial |-> 0, issue |-> item.issue]}
  /\ count' = [count EXCEPT ![item.issue] = @ + 1]

RecordOnce(item) ==
  IF EventStored(item.key)
  THEN UNCHANGED <<events, count>>
  ELSE /\ events' = events \cup {[key |-> item.key, serial |-> 0, issue |-> item.issue]}
       /\ count' = [count EXCEPT ![item.issue] = @ + 1]

StoreEvent(w) ==
  /\ AtItem(w, {"event"})
  /\ RecordOnce(Current(w))
  /\ Advance(w)
  /\ UNCHANGED copies

\* decodeEvent gives an event without event_id a random one, anew each time the
\* payload is processed; the serial stands for it.
StoreAnonymous(w) ==
  LET item == Current(w) IN
  /\ AtItem(w, {"anonymous"})
  /\ copies' = [copies EXCEPT ![item.key] = @ + 1]
  /\ events' = events \cup {[key |-> item.key, serial |-> copies[item.key] + 1,
                             issue |-> item.issue]}
  /\ count' = [count EXCEPT ![item.issue] = @ + 1]
  /\ Advance(w)

\* A client report, attachment or signal: one insert under a fresh id.
StoreRow(w) ==
  /\ AtItem(w, {"row"})
  /\ copies' = [copies EXCEPT ![Current(w).key] = @ + 1]
  /\ Advance(w)
  /\ UNCHANGED <<events, count>>

\* Items of other types, and events or reports that do not decode.
SkipItem(w) ==
  /\ AtItem(w, {"skip"})
  /\ Advance(w)
  /\ UNCHANGED stored

\* The insert or commit of the item before took effect and still reports an error.
InDoubt(w) == /\ phase[w] = "items" /\ pos[w] > 1
              /\ Content[claim[w].env][pos[w] - 1].kind \in {"event", "anonymous", "row"}

\* A statement or a blob write fails, or the item can never be stored (an empty
\* attachment): processing stops there, what earlier items stored remains.
FailItem(w) ==
  /\ AtItem(w, Kinds \ {"skip"}) \/ InDoubt(w)
  /\ phase' = [phase EXCEPT ![w] = "failed"]
  /\ UNCHANGED <<jobs, stored, batch, claim, pos, faults>>

-----------------------------------------------------------------------------
(* Settling a processed claim.                                             *)

Acked(row)  == [row EXCEPT !.state = "completed", !.body = FALSE, !.timer = "none"]
Nacked(row) == [row EXCEPT !.state = "ready", !.timer = "running"]
Buried(row) == [row EXCEPT !.state = "dead", !.timer = "none"]

Processed(w) == phase[w] = "items" /\ pos[w] = Length(claim[w]) + 1
Exhausted(w) == phase[w] = "failed" /\ claim[w].attempts >= MaxAttempts
Retryable(w) == phase[w] = "failed" /\ claim[w].attempts < MaxAttempts

\* What the settling statement makes of the row with the claim's id, whatever
\* has become of that row since it was leased.
AckedRegardless(w, row) == IF Exhausted(w) THEN Buried(row) ELSE Acked(row)

BuriedEarly(w, row) ==
  IF Processed(w) THEN Acked(row)
  ELSE IF claim[w].attempts + 1 >= MaxAttempts THEN Buried(row) ELSE Nacked(row)

Settled(w, row) ==
  IF Processed(w) THEN Acked(row)
  ELSE IF Exhausted(w) THEN Buried(row) ELSE Nacked(row)

ApplySettle(w) == jobs' = [jobs EXCEPT ![claim[w].id] = Settled(w, @)]

Finishable(w) == Processed(w) \/ phase[w] = "failed"

Settle(w) ==
  /\ Finishable(w)
  /\ ApplySettle(w)
  /\ phase' = [phase EXCEPT ![w] = "idle"]
  /\ claim' = [claim EXCEPT ![w] = NoClaim]
  /\ UNCHANGED <<stored, batch, pos, faults>>

Fault == faults < MaxFaults /\ faults' = faults + 1

\* The loop ends holding nothing: a -role=worker process exits, the goroutine
\* of a -role=all process is simply gone while the API keeps serving.
Halt(w, how) ==
  /\ phase' = [phase EXCEPT ![w] = how]
  /\ batch' = [batch EXCEPT ![w] = {}]
  /\ claim' = [claim EXCEPT ![w] = NoClaim]
  /\ UNCHANGED <<stored, pos>>

\* The ack or nack returns an error, having taken effect or not: RunWorker
\* returns it.
SettleError(w) ==
  /\ Processed(w) \/ Retryable(w)
  /\ Fault
  /\ ApplySettle(w) \/ UNCHANGED jobs
  /\ Halt(w, IF w \in Embedded THEN "stopped" ELSE "exited")

\* The error of the statement that marks a job dead is ignored.
BuryError(w) ==
  /\ Exhausted(w)
  /\ Fault
  /\ phase' = [phase EXCEPT ![w] = "idle"]
  /\ claim' = [claim EXCEPT ![w] = NoClaim]
  /\ UNCHANGED <<jobs, stored, batch, pos>>

\* The process dies, or is told to stop, anywhere.
Crash(w) ==
  /\ phase[w] # "exited"
  /\ Fault
  /\ Halt(w, "exited")
  /\ UNCHANGED jobs

\* A supervisor starts an exited process again.
Restart(w) ==
  /\ phase[w] = "exited"
  /\ phase' = [phase EXCEPT ![w] = "idle"]
  /\ UNCHANGED <<jobs, stored, batch, claim, pos, faults>>

-----------------------------------------------------------------------------
ProcessItem(w) ==
  StoreEvent(w) \/ StoreAnonymous(w) \/ StoreRow(w) \/ SkipItem(w) \/ FailItem(w)

Step(w) ==
  \/ Lease(w)
  \/ \E c \in batch[w] : Begin(w, c)
  \/ ProcessItem(w)
  \/ Settle(w)
  \/ Restart(w)

Next ==
  \/ \E e \in Envelopes, j \in JobIds : Ingest(e, j)
  \/ \E j \in JobIds : Elapse(j)
  \/ \E w \in Workers : Step(w) \/ SettleError(w) \/ BuryError(w) \/ Crash(w)

Spec == Init /\ [][Next]_vars

\* Time passes and a running loop keeps going; nothing makes a client send, a
\* statement succeed or a stopped goroutine come back.
Fairness ==
  /\ \A j \in JobIds : WF_vars(Elapse(j))
  /\ \A w \in Workers : WF_vars(Step(w))

FairSpec == Spec /\ Fairness

-----------------------------------------------------------------------------
(* Safety.                                                                 *)

Identified(e) == {n \in 1 .. Len(Content[e]) : Content[e][n].kind = "event"}

\* An Issue's count is the number of its Events: retries, redeliveries and
\* concurrent processing of one payload never count an Event twice
\* (technical-design.md section 2 and 12, the transaction of processPayload).
CountsExact ==
  \A i \in Issues : count[i] = Cardinality({ev \in events : ev.issue = i})

\* A job gives up its payload only when every identified Event it carried is
\* stored, so an accepted Envelope is never lost to a crash, a lost lease or a
\* stale settling statement (AckJob clears the payload).
NothingLost ==
  \A j \in JobIds : Present(j) /\ ~jobs[j].body =>
    \A n \in Identified(jobs[j].env) : EventStored(Content[jobs[j].env][n].key)

Claims(w) == batch[w] \cup (IF phase[w] \in {"items", "failed"} THEN {claim[w]} ELSE {})

\* A claim names a row that exists and holds the Envelope the claim was scanned
\* with, whatever other workers have made of that row since.
ClaimsFaithful ==
  /\ \A j \in JobIds : Present(j) => jobs[j].env \in Envelopes
  /\ \A w \in Workers : \A c \in Claims(w) : Present(c.id) /\ c.env = jobs[c.id].env

\* Two workers may hold one job, because nothing stops a worker whose lease ran
\* out, but never under one attempt number: attempts identifies the lease
\* (LeaseJobs increments it, nothing resets it).
AttemptsIdentifyLease ==
  \A w \in Workers : \A c \in Claims(w) :
    /\ c.attempts \in 1 .. jobs[c.id].attempts
    /\ \A v \in Workers : \A d \in Claims(v) :
         d.id = c.id /\ d.attempts = c.attempts => v = w /\ d = c

\* A dead job was leased MaxAttempts times: no interleaving of stale workers
\* makes it dead sooner (the guard of RunWorker).
DeadOnlyWhenExhausted ==
  \A j \in JobIds : jobs[j].state = "dead" => jobs[j].attempts >= MaxAttempts

-----------------------------------------------------------------------------
(* Liveness.                                                               *)

Terminal(j) == jobs[j].state \in {"completed", "dead"}

\* Every accepted job ends completed or dead and stays so, although stale
\* workers may reopen a settled job several times on the way.
EventuallySettled == \A j \in JobIds : Present(j) ~> []Terminal(j)

-----------------------------------------------------------------------------
(* Refinement.                                                             *)

Offers(e) == {Content[e][n] : n \in 1 .. Len(Content[e])}

Ledger == INSTANCE EventLedger WITH
  Deliveries <- JobIds,
  Bodies     <- {Offers(e) : e \in Envelopes},
  accepted   <- {j \in JobIds : Present(j)},
  offers     <- [j \in JobIds |-> IF Present(j) THEN Offers(jobs[j].env) ELSE {}],
  done       <- {j \in JobIds : Present(j) /\ ~jobs[j].body},
  ledger     <- events,
  extra      <- copies

\* The queue with all its workers implements the ledger: every statement of
\* every worker is one step of it or none.
ImplementsLedger == Ledger!Spec
=============================================================================
