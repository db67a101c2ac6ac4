----------------------------- MODULE BlobRetention -----------------------------
(***************************************************************************)
(* Attachments and signals, rows of PostgreSQL whose content may be a blob  *)
(* beside it: the items of a job that store them (postgres.go), the         *)
(* download that reads the row first and the blob afterwards, and           *)
(* CleanupExpired (worker.go), which deletes expired rows in batches and    *)
(* their blobs one by one.                                                  *)
(*                                                                          *)
(* A blob store has no transaction with the database, so each action is one *)
(* call of either; a call fails, or is done and its answer lost, and a      *)
(* process dies between two of them.  Random identifiers are drawn in order.*)
(***************************************************************************)
EXTENDS Integers, Sequences, FiniteSets, FiniteSetsExt

CONSTANTS
  Jobs,
  Items,       \* the items of each job, in their order
  MaxAttempts, \* SENTRYX_INGEST_MAX_ATTEMPTS
  BatchSize,   \* rows one statement of CleanupExpired deletes, 5000 in the code
  Servers,     \* processes with a retention loop
  MaxFaults    \* bound on failing calls and dying processes

None == 0
Tables == {"signals", "attachments"}
Sizes  == {"empty", "fits", "huge"}

\* A signal that is valid JSON is stored in its row, a binary one is a blob.
Item == [table : Tables, binary : BOOLEAN, size : Sizes]

ASSUME ItemsAssumption == Items \in [Jobs -> Seq(Item)]
ASSUME BoundAssumption == /\ MaxAttempts \in Nat \ {0} /\ BatchSize \in Nat \ {0}
                          /\ MaxFaults \in Nat

VARIABLES
  configured, \* is there a blob store?
  job,        \* each job, the item it is at and the blob put for that item
  drawn,      \* identifiers drawn so far
  rows,       \* sentryx_signals and sentryx_attachments
  expired,    \* identifiers of rows older than the retention of their project
  blobs,      \* keys of the blob store
  cleanup,    \* where CleanupExpired stands on each server
  reader,     \* a client that downloads an attachment
  faults

vars == <<configured, job, drawn, rows, expired, blobs, cleanup, reader, faults>>

Row  == [id : Nat \ {0}, table : Tables, blob : BOOLEAN]
Done == [phase |-> "done", table |-> "signals", keys |-> {}]
Idle == [phase |-> "idle", id |-> None, answer |-> "none", failed |-> FALSE]

TypeOK ==
  /\ configured \in BOOLEAN
  /\ job \in [Jobs -> [state : {"queued", "running", "completed", "dead"},
                       attempts : 0 .. MaxAttempts, at : Nat \ {0}, put : Nat]]
  /\ drawn \in Nat
  /\ rows \subseteq Row
  /\ expired \subseteq {r.id : r \in rows}
  /\ blobs \subseteq Nat \ {0}
  /\ cleanup \in [Servers -> [phase : {"done", "rows", "blobs"}, table : Tables,
                              keys : SUBSET Nat]]
  /\ reader \in [phase : {"idle", "blob"}, id : Nat, answer : {"none", "content", "empty"},
                 failed : BOOLEAN]
  /\ faults \in 0 .. MaxFaults

Init ==
  /\ configured \in BOOLEAN
  /\ job = [j \in Jobs |-> [state |-> "queued", attempts |-> 0, at |-> 1, put |-> None]]
  /\ drawn = 0
  /\ rows = {} /\ expired = {} /\ blobs = {}
  /\ cleanup = [s \in Servers |-> Done]
  /\ reader = Idle
  /\ faults = 0

Fault == faults < MaxFaults /\ faults' = faults + 1

ids == {r.id : r \in rows}
RowOf(i) == CHOOSE r \in rows : r.id = i

-----------------------------------------------------------------------------
(* processPayload: the items of a job in turn; an error ends the attempt.  *)

ItemAt(j) == Items[j][job[j].at]
Running(j) == job[j].state = "running"
AtItem(j) == Running(j) /\ job[j].at <= Len(Items[j])

Lease(j) ==
  /\ job[j].state = "queued"
  /\ job' = [job EXCEPT ![j].state = "running", ![j].attempts = @ + 1, ![j].at = 1,
                        ![j].put = None]
  /\ UNCHANGED <<configured, drawn, rows, expired, blobs, cleanup, reader, faults>>

\* The next attempt starts again with the first item.
Failed(j) ==
  job' = [job EXCEPT ![j].state = IF job[j].attempts >= MaxAttempts THEN "dead" ELSE "queued"]

InBlob(item) == IF item.table = "attachments" THEN configured ELSE item.binary

\* An empty or huge attachment and a binary signal with nowhere to go are refused.
Refused(item) ==
  \/ item.table = "attachments" /\ item.size # "fits"
  \/ item.table = "signals" /\ item.binary /\ (~configured \/ item.size = "huge")

Refuse(j) ==
  /\ AtItem(j) /\ Refused(ItemAt(j))
  /\ Failed(j)
  /\ UNCHANGED <<configured, drawn, rows, expired, blobs, cleanup, reader, faults>>

PutBlob(j) ==
  LET key == drawn + 1 IN
  /\ AtItem(j) /\ ~Refused(ItemAt(j)) /\ InBlob(ItemAt(j)) /\ job[j].put = None
  /\ drawn' = drawn + 1
  /\ \/ /\ blobs' = blobs \cup {key}
        /\ job' = [job EXCEPT ![j].put = key]
        /\ UNCHANGED faults
     \/ /\ blobs' \in {blobs, blobs \cup {key}}
        /\ Failed(j) /\ Fault
  /\ UNCHANGED <<configured, rows, expired, cleanup, reader>>

\* Broken on purpose, as BlobsFirst, SignalKeys and SignalsOnly below: the variants
\* the checks must refute.
RowBeforeBlob(j) == TRUE
ReadyToInsert(j) == InBlob(ItemAt(j)) => job[j].put # None

InsertRow(j) ==
  LET blob == job[j].put # None
      id == IF blob THEN job[j].put ELSE drawn + 1
      row == [id |-> id, table |-> ItemAt(j).table, blob |-> InBlob(ItemAt(j))] IN
  /\ AtItem(j) /\ ~Refused(ItemAt(j)) /\ ReadyToInsert(j)
  /\ drawn' = IF blob THEN drawn ELSE drawn + 1
  /\ \/ /\ rows' = rows \cup {row}
        /\ job' = [job EXCEPT ![j].at = @ + 1, ![j].put = None]
        /\ UNCHANGED faults
     \/ /\ rows' \in {rows, rows \cup {row}}
        /\ Failed(j) /\ Fault
  /\ UNCHANGED <<configured, expired, blobs, cleanup, reader>>

\* The job is acknowledged, or it is not and comes again.
Finish(j) ==
  /\ Running(j) /\ job[j].at > Len(Items[j])
  /\ \/ job' = [job EXCEPT ![j].state = "completed"] /\ UNCHANGED faults
     \/ Failed(j) /\ Fault
  /\ UNCHANGED <<configured, drawn, rows, expired, blobs, cleanup, reader>>

\* The process dies; its lease runs out.
WorkerDies(j) ==
  /\ Running(j) /\ Fault
  /\ Failed(j)
  /\ UNCHANGED <<configured, drawn, rows, expired, blobs, cleanup, reader>>

Expire(i) ==
  /\ i \in ids \ expired
  /\ expired' = expired \cup {i}
  /\ UNCHANGED <<configured, job, drawn, rows, blobs, cleanup, reader, faults>>

-----------------------------------------------------------------------------
(* CleanupExpired.                                                         *)

\* A session that finds the advisory lock taken leaves at once.
TakeLock(s) ==
  /\ \A t \in Servers : cleanup[t].phase = "done"
  /\ cleanup' = [cleanup EXCEPT ![s] = [phase |-> "rows", table |-> "signals", keys |-> {}]]
  /\ UNCHANGED <<configured, job, drawn, rows, expired, blobs, reader, faults>>

\* Rows that are expired and in the table, as many as one statement takes.
Batches(table) ==
  LET due == {i \in expired : RowOf(i).table = table} IN
  {B \in SUBSET due : Cardinality(B) = IF Cardinality(due) < BatchSize THEN Cardinality(due)
                                       ELSE BatchSize}

\* The keys the statement returns, for which a deleter is then called.
SignalKeys(B) == {i \in B : RowOf(i).table = "signals" /\ RowOf(i).blob}
Returned(B) == {i \in B : RowOf(i).blob /\ configured}

BlobsFirst(B) == {r \in rows : r.id \notin B \/ r.blob}
Remaining(B) == {r \in rows : r.id \notin B}

\* The rows of the batch go and the keys of their blobs are returned; where the
\* answer is lost the keys are, and the run ends.
DeleteRows(s) ==
  /\ cleanup[s].phase = "rows"
  /\ \E B \in Batches(cleanup[s].table) :
       \/ /\ rows' = Remaining(B) /\ expired' = expired \ B
          /\ cleanup' = [cleanup EXCEPT ![s].phase = "blobs", ![s].keys = Returned(B)]
          /\ UNCHANGED faults
       \/ /\ rows' = Remaining(B) /\ expired' = expired \ B
          /\ cleanup' = [cleanup EXCEPT ![s] = Done]
          /\ Fault
  /\ UNCHANGED <<configured, job, drawn, blobs, reader>>

\* A blob that cannot be deleted is counted, and nobody comes back for it.
DeleteBlob(s) ==
  /\ cleanup[s].phase = "blobs"
  /\ \E k \in cleanup[s].keys :
       /\ cleanup' = [cleanup EXCEPT ![s].keys = @ \ {k}]
       /\ \/ blobs' = blobs \ {k} /\ UNCHANGED faults
          \/ blobs' = blobs /\ Fault
  /\ UNCHANGED <<configured, job, drawn, rows, expired, reader>>

\* One batch of each table, and the lock is given back.
SignalsOnly(table) == Done
NextTable(table) ==
  IF table = "signals" THEN [phase |-> "rows", table |-> "attachments", keys |-> {}] ELSE Done

MoveOn(s) ==
  /\ cleanup[s].phase = "blobs" /\ cleanup[s].keys = {}
  /\ cleanup' = [cleanup EXCEPT ![s] = NextTable(cleanup[s].table)]
  /\ UNCHANGED <<configured, job, drawn, rows, expired, blobs, reader, faults>>

\* The process dies, or a statement fails that deletes nothing: its session ends and
\* with it the lock.
CleanupDies(s) ==
  /\ cleanup[s].phase # "done" /\ Fault
  /\ cleanup' = [cleanup EXCEPT ![s] = Done]
  /\ UNCHANGED <<configured, job, drawn, rows, expired, blobs, reader>>

-----------------------------------------------------------------------------
(* GetAttachment.  A row that is not found is a 404 and changes nothing.   *)

ReadRow(i) ==
  /\ reader.phase = "idle"
  /\ i \in ids /\ RowOf(i).table = "attachments"
  /\ reader' = IF RowOf(i).blob THEN [Idle EXCEPT !.phase = "blob", !.id = i]
               ELSE [Idle EXCEPT !.id = i, !.answer = "content"]
  /\ UNCHANGED <<configured, job, drawn, rows, expired, blobs, cleanup, faults>>

\* The error of Get is dropped: without content the answer is 200 and empty.
ReadBlob ==
  /\ reader.phase = "blob"
  /\ \/ /\ reader' = [reader EXCEPT !.phase = "idle",
                                    !.answer = IF reader.id \in blobs THEN "content" ELSE "empty"]
        /\ UNCHANGED faults
     \/ /\ reader' = [reader EXCEPT !.phase = "idle", !.answer = "empty", !.failed = TRUE]
        /\ Fault
  /\ UNCHANGED <<configured, job, drawn, rows, expired, blobs, cleanup>>

-----------------------------------------------------------------------------
Persist(j) ==
  Lease(j) \/ Refuse(j) \/ PutBlob(j) \/ InsertRow(j) \/ Finish(j) \/ WorkerDies(j)

Cleanup(s) == TakeLock(s) \/ DeleteRows(s) \/ DeleteBlob(s) \/ MoveOn(s)

Next ==
  \/ \E j \in Jobs : Persist(j)
  \/ \E i \in ids : Expire(i) \/ ReadRow(i)
  \/ ReadBlob
  \/ \E s \in Servers : Cleanup(s) \/ CleanupDies(s)

Spec == Init /\ [][Next]_vars

\* The loop of each server goes on: a tick every hour, and calls that return.
FairSpec == Spec /\ \A s \in Servers : WF_vars(Cleanup(s))

-----------------------------------------------------------------------------
(* Safety and liveness.                                                    *)

\* A row that names a blob has it: from the moment the row can be read to the moment
\* it cannot, whatever fails (Put before INSERT, DELETE of the row before the blob).
RowsHaveContent == \A r \in rows : r.blob => r.id \in blobs

InFlight(k) == \/ \E j \in Jobs : Running(j) /\ job[j].put = k
               \/ \E s \in Servers : k \in cleanup[s].keys
Orphans == {k \in blobs : k \notin ids /\ ~InFlight(k)}

\* Only a fault leaves a blob that no row names, and one fault no more than the blobs
\* of one batch; nobody ever looks for them (persistAttachment, CleanupExpired).
OrphansBounded == Cardinality(Orphans) <= BatchSize * faults

\* A download comes back empty only when its read of the blob failed or retention has
\* deleted the attachment meanwhile (GetAttachment drops the error).
EmptyOnlyWhenGone ==
  reader.answer = "empty" => reader.failed \/ reader.id \notin ids

\* What has expired is deleted, the row and its blob, unless a fault orphans the blob:
\* batches of any size, a busy lock and dying servers only delay it.
ExpiredReclaimed ==
  \A i \in 1 .. MaxAttempts * MapThenSumSet(LAMBDA j : Len(Items[j]), Jobs) :
    i \in expired ~> i \notin ids /\ (i \in blobs => i \in Orphans)
=============================================================================
