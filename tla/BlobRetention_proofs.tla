-------------------------- MODULE BlobRetention_proofs --------------------------
(* Theorems about BlobRetention for every set of jobs, items and servers, every *)
(* batch size, number of attempts and of faults.                                *)
EXTENDS BlobRetention, FiniteSetTheorems, TLAPS

\* A job that is due again has an attempt left.
QueuedEarly == \A j \in Jobs : job[j].state = "queued" => job[j].attempts < MaxAttempts

\* The job has put a blob and not yet inserted its row.
Carries(j) == Running(j) /\ job[j].put # None

Apart == \A r1, r2 \in rows : r1.id = r2.id => r1 = r2
Drawn == /\ \A r \in rows : r.id <= drawn
         /\ reader.id <= drawn

\* What a job carries is there and is nobody else's.
Carried ==
  \A j \in Jobs : Carries(j) =>
    /\ job[j].put \in blobs /\ job[j].put <= drawn
    /\ job[j].put \notin ids /\ job[j].put # reader.id
    /\ \A i \in Jobs \ {j} : Carries(i) => job[i].put # job[j].put

\* What retention is about to delete has no row, and will have none.
Doomed ==
  \A s \in Servers : \A k \in cleanup[s].keys :
    /\ k <= drawn /\ k \notin ids
    /\ \A j \in Jobs : Carries(j) => job[j].put # k

\* The download goes on to a blob only where the row says so.
Reading == reader.phase = "blob" => \A r \in rows : r.id = reader.id => r.blob

Inv ==
  /\ TypeOK /\ QueuedEarly
  /\ Apart /\ Drawn /\ Carried /\ Doomed /\ Reading
  /\ RowsHaveContent /\ EmptyOnlyWhenGone

Attempt == [state : {"queued", "running", "completed", "dead"},
            attempts : 0 .. MaxAttempts, at : Nat \ {0}, put : Nat]

-----------------------------------------------------------------------------
LEMMA RowOfId ==
  ASSUME Apart, NEW r \in rows
  PROVE  r.id \in ids /\ RowOf(r.id) = r
BY DEF Apart, ids, RowOf

LEMMA InitInv == Init => Inv
<1>. SUFFICES ASSUME Init PROVE Inv
  OBVIOUS
<1>. USE DEF Init
<1>1. TypeOK
  BY BoundAssumption DEF TypeOK, Done, Idle, None, Tables, Row
<1>2. QueuedEarly
  BY BoundAssumption DEF QueuedEarly
<1>3. Carried
  BY DEF Carried, Carries, Running
<1>4. Apart /\ Drawn /\ Doomed /\ Reading /\ RowsHaveContent /\ EmptyOnlyWhenGone
  BY DEF Apart, Drawn, Doomed, Done, Idle, None, Reading, RowsHaveContent, EmptyOnlyWhenGone
<1>. QED
  BY <1>1, <1>2, <1>3, <1>4 DEF Inv

-----------------------------------------------------------------------------
(* What an attempt may do to the jobs.                                     *)

\* The jobs are well typed, and carry nothing new.
JobsKept ==
  /\ job' \in [Jobs -> Attempt]
  /\ QueuedEarly'
  /\ \A i \in Jobs : Carries(i)' => Carries(i) /\ job'[i].put = job[i].put

LEMMA FailedKeeps ==
  ASSUME TypeOK, QueuedEarly, NEW j \in Jobs, Running(j), Failed(j)
  PROVE  JobsKept
<1>. DEFINE next == IF job[j].attempts >= MaxAttempts THEN "dead" ELSE "queued"
<1>1. job \in [Jobs -> Attempt] /\ job' = [job EXCEPT ![j].state = next]
  BY DEF TypeOK, Attempt, Failed
<1>2. job' \in [Jobs -> Attempt]
  BY <1>1 DEF Attempt
<1>3. QueuedEarly'
  BY <1>1, BoundAssumption DEF QueuedEarly, Attempt
<1>4. ASSUME NEW i \in Jobs, Carries(i)'
      PROVE  Carries(i) /\ job'[i].put = job[i].put
  BY <1>1, <1>4 DEF Carries, Running, Attempt
<1>. QED
  BY <1>2, <1>3, <1>4 DEF JobsKept

\* Where only the jobs change and carry nothing new, everything holds on.
LEMMA JobsOnly ==
  ASSUME Inv, JobsKept, faults' \in 0 .. MaxFaults,
         UNCHANGED <<configured, drawn, rows, expired, blobs, cleanup, reader>>
  PROVE  Inv'
<1>1. TypeOK'
  BY DEF Inv, TypeOK, JobsKept, Attempt
<1>2. QueuedEarly'
  BY DEF JobsKept
<1>3. Carried'
  BY DEF Inv, Carried, JobsKept, ids
<1>4. Doomed'
  BY DEF Inv, Doomed, JobsKept, ids
<1>5. Apart' /\ Drawn' /\ Reading' /\ RowsHaveContent' /\ EmptyOnlyWhenGone'
  BY DEF Inv, Apart, Drawn, Reading, RowsHaveContent, EmptyOnlyWhenGone, ids
<1>. QED
  BY <1>1, <1>2, <1>3, <1>4, <1>5 DEF Inv

LEMMA FaultType == TypeOK /\ (Fault \/ UNCHANGED faults) => faults' \in 0 .. MaxFaults
BY BoundAssumption DEF TypeOK, Fault

LEMMA LeaseInv == ASSUME Inv, NEW j \in Jobs, Lease(j) PROVE Inv'
<1>1. /\ job \in [Jobs -> Attempt] /\ job[j].state = "queued"
      /\ job' = [job EXCEPT ![j].state = "running", ![j].attempts = @ + 1, ![j].at = 1,
                            ![j].put = None]
  BY DEF Inv, TypeOK, Attempt, Lease
<1>2. job[j].attempts + 1 \in 0 .. MaxAttempts
  BY <1>1, BoundAssumption DEF Inv, QueuedEarly, Attempt
<1>3. JobsKept
  <2>1. job' \in [Jobs -> Attempt]
    BY <1>1, <1>2 DEF Attempt, None
  <2>2. QueuedEarly'
    BY <1>1 DEF Inv, QueuedEarly, Attempt
  <2>3. ASSUME NEW i \in Jobs, Carries(i)'
        PROVE  Carries(i) /\ job'[i].put = job[i].put
    BY <1>1, <2>3 DEF Carries, Running, Attempt
  <2>. QED
    BY <2>1, <2>2, <2>3 DEF JobsKept
<1>. QED
  BY <1>3, JobsOnly DEF Lease, Inv, TypeOK

LEMMA FinishKeeps ==
  ASSUME TypeOK, QueuedEarly, NEW j \in Jobs, Running(j),
         job' = [job EXCEPT ![j].state = "completed"]
  PROVE  JobsKept
<1>1. job \in [Jobs -> Attempt]
  BY DEF TypeOK, Attempt
<1>2. job' \in [Jobs -> Attempt]
  BY <1>1 DEF Attempt
<1>3. QueuedEarly'
  BY <1>1 DEF QueuedEarly, Attempt
<1>4. ASSUME NEW i \in Jobs, Carries(i)'
      PROVE  Carries(i) /\ job'[i].put = job[i].put
  BY <1>1, <1>4 DEF Carries, Running, Attempt
<1>. QED
  BY <1>2, <1>3, <1>4 DEF JobsKept

LEMMA SettleInv ==
  ASSUME Inv, NEW j \in Jobs, Refuse(j) \/ Finish(j) \/ WorkerDies(j)
  PROVE  Inv'
<1>1. JobsKept
  BY FailedKeeps, FinishKeeps DEF Inv, Refuse, Finish, WorkerDies, AtItem
<1>2. faults' \in 0 .. MaxFaults
  BY FaultType DEF Inv, Refuse, Finish, WorkerDies
<1>. QED
  BY <1>1, <1>2, JobsOnly DEF Refuse, Finish, WorkerDies

-----------------------------------------------------------------------------
(* A blob is put.                                                          *)

\* Blobs that are added, under whatever key, disturb nothing.
LEMMA MoreBlobs ==
  ASSUME Inv, JobsKept, faults' \in 0 .. MaxFaults, drawn' = drawn + 1,
         blobs' \in {blobs, blobs \cup {drawn + 1}},
         UNCHANGED <<configured, rows, expired, cleanup, reader>>
  PROVE  Inv'
<1>0. drawn \in Nat /\ rows \subseteq Row /\ reader.id \in Nat
  BY DEF Inv, TypeOK
<1>1. TypeOK'
  BY <1>0 DEF Inv, TypeOK, JobsKept, Attempt
<1>2. QueuedEarly'
  BY DEF JobsKept
<1>3. Carried'
  <2>. SUFFICES ASSUME NEW j \in Jobs, Carries(j)'
                PROVE  /\ job'[j].put \in blobs' /\ job'[j].put <= drawn'
                       /\ job'[j].put \notin ids' /\ job'[j].put # reader'.id
                       /\ \A i \in Jobs \ {j} : Carries(i)' => job'[i].put # job'[j].put
    BY DEF Carried
  <2>1. Carries(j) /\ job'[j].put = job[j].put /\ job[j].put \in Nat
    BY DEF JobsKept, Inv, TypeOK
  <2>2. ids' = ids
    BY DEF ids
  <2>. QED
    BY <1>0, <2>1, <2>2 DEF Inv, Carried, JobsKept
<1>4. Doomed'
  <2>1. ids' = ids
    BY DEF ids
  <2>2. \A s \in Servers : \A k \in cleanup[s].keys : k \in Nat
    BY DEF Inv, TypeOK
  <2>. QED
    BY <1>0, <2>1, <2>2 DEF Inv, Doomed, JobsKept
<1>5. Drawn'
  BY <1>0 DEF Inv, Drawn, Row
<1>6. Apart' /\ Reading' /\ RowsHaveContent' /\ EmptyOnlyWhenGone'
  BY DEF Inv, Apart, Reading, RowsHaveContent, EmptyOnlyWhenGone, ids
<1>. QED
  BY <1>1, <1>2, <1>3, <1>4, <1>5, <1>6 DEF Inv

LEMMA PutBlobInv == ASSUME Inv, NEW j \in Jobs, PutBlob(j) PROVE Inv'
<1>. DEFINE key == drawn + 1
<1>0. /\ job \in [Jobs -> Attempt] /\ Running(j)
      /\ drawn \in Nat /\ key \in Nat \ {0} /\ rows \subseteq Row /\ reader.id \in Nat
      /\ blobs \subseteq Nat \ {0}
  BY DEF Inv, TypeOK, Attempt, PutBlob, AtItem
<1>1. CASE Failed(j) /\ Fault /\ blobs' \in {blobs, blobs \cup {key}}
  <2>1. JobsKept
    BY <1>0, <1>1, FailedKeeps DEF Inv
  <2>. QED
    BY <1>1, <2>1, FaultType, MoreBlobs DEF PutBlob, Inv
<1>2. CASE /\ blobs' = blobs \cup {key}
           /\ job' = [job EXCEPT ![j].put = key]
           /\ UNCHANGED faults
  <2>1. /\ drawn' = key
        /\ UNCHANGED <<configured, rows, expired, cleanup, reader>> /\ ids' = ids
    BY DEF PutBlob, ids
  <2>2. job' \in [Jobs -> Attempt]
    BY <1>0, <1>2 DEF Attempt
  <2>3. TypeOK'
    BY <1>0, <1>2, <2>1, <2>2 DEF Inv, TypeOK, Attempt
  <2>4. QueuedEarly'
    BY <1>0, <1>2 DEF Inv, QueuedEarly, Attempt
  <2>5. /\ job'[j].put = key
        /\ \A i \in Jobs \ {j} : job'[i] = job[i] /\ (Carries(i)' <=> Carries(i))
        /\ \A i \in Jobs \ {j} : Carries(i) => job[i].put \in Nat /\ job[i].put <= drawn
    BY <1>0, <1>2 DEF Attempt, Carries, Running, Inv, Carried
  <2>6. /\ \A r \in rows : r.id \in Nat /\ r.id <= drawn
        /\ reader.id <= drawn
    BY <1>0 DEF Inv, Drawn, Row
  <2>7. key \notin ids /\ key # reader.id
    BY <1>0, <2>6 DEF ids
  <2>8. Carried'
    <3>. SUFFICES ASSUME NEW i \in Jobs, Carries(i)'
                  PROVE  /\ job'[i].put \in blobs' /\ job'[i].put <= drawn'
                         /\ job'[i].put \notin ids' /\ job'[i].put # reader'.id
                         /\ \A h \in Jobs \ {i} : Carries(h)' => job'[h].put # job'[i].put
      BY DEF Carried
    <3>1. CASE i = j
      BY <1>0, <1>2, <2>1, <2>5, <2>7, <3>1
    <3>2. CASE i # j
      <4>1. Carries(i) /\ job'[i] = job[i] /\ job[i].put \in Nat /\ job[i].put <= drawn
        BY <2>5, <3>2
      <4>2. job[i].put \in blobs /\ job[i].put \notin ids /\ job[i].put # reader.id
        BY <4>1 DEF Inv, Carried
      <4>3. ASSUME NEW h \in Jobs \ {i}, Carries(h)' PROVE job'[h].put # job'[i].put
        <5>1. CASE h = j
          BY <1>0, <2>5, <4>1, <5>1
        <5>2. CASE h # j
          BY <2>5, <4>1, <4>3, <5>2 DEF Inv, Carried
        <5>. QED
          BY <5>1, <5>2
      <4>4. job[i].put \in blobs' /\ job[i].put <= drawn'
        BY <1>0, <1>2, <2>1, <4>1, <4>2
      <4>. QED
        BY <2>1, <4>1, <4>2, <4>3, <4>4
    <3>. QED
      BY <3>1, <3>2
  <2>9. Doomed'
    <3>. SUFFICES ASSUME NEW s \in Servers, NEW k \in cleanup[s].keys
                  PROVE  /\ k <= drawn' /\ k \notin ids
                         /\ \A i \in Jobs : Carries(i)' => job'[i].put # k
      BY <2>1 DEF Doomed
    <3>1. k \in Nat /\ k <= drawn /\ k \notin ids
      BY DEF Inv, TypeOK, Doomed
    <3>2. ASSUME NEW i \in Jobs, Carries(i)' PROVE job'[i].put # k
      BY <1>0, <2>5, <3>1, <3>2 DEF Inv, Doomed
    <3>. QED
      BY <1>0, <2>1, <3>1, <3>2
  <2>10. Drawn'
    BY <1>0, <2>1, <2>6 DEF Drawn
  <2>11. Apart' /\ Reading' /\ RowsHaveContent' /\ EmptyOnlyWhenGone'
    BY <1>2, <2>1 DEF Inv, Apart, Reading, RowsHaveContent, EmptyOnlyWhenGone
  <2>. QED
    BY <2>3, <2>4, <2>8, <2>9, <2>10, <2>11 DEF Inv
<1>. QED
  BY <1>1, <1>2 DEF PutBlob

-----------------------------------------------------------------------------
(* A row is inserted.                                                      *)

\* A row that is new, with a blob only where there is one, disturbs nothing.
LEMMA MoreRows ==
  ASSUME Inv, NEW row \in Row, JobsKept, faults' \in 0 .. MaxFaults,
         rows' \in {rows, rows \cup {row}},
         row.id \notin ids, row.id # reader.id,
         row.blob => row.id \in blobs,
         drawn' \in Nat, drawn <= drawn', row.id <= drawn',
         \A s \in Servers : row.id \notin cleanup[s].keys,
         \A i \in Jobs : Carries(i)' => job[i].put # row.id,
         UNCHANGED <<configured, expired, blobs, cleanup, reader>>
  PROVE  Inv'
<1>0. /\ drawn \in Nat /\ rows \subseteq Row /\ reader.id \in Nat
      /\ \A i \in Jobs : job[i].put \in Nat
      /\ \A s \in Servers : \A k \in cleanup[s].keys : k \in Nat
  BY DEF Inv, TypeOK
<1>1. ids' \in {ids, ids \cup {row.id}} /\ rows' \subseteq Row
  BY <1>0 DEF ids
<1>2. TypeOK'
  <2>1. expired \subseteq ids'
    BY <1>1 DEF Inv, TypeOK, ids
  <2>. QED
    BY <1>1, <2>1 DEF Inv, TypeOK, JobsKept, Attempt, ids
<1>3. Apart'
  BY DEF Inv, Apart, ids
<1>4. Drawn'
  BY <1>0 DEF Inv, Drawn, Row
<1>5. Carried'
  <2>. SUFFICES ASSUME NEW i \in Jobs, Carries(i)'
                PROVE  /\ job'[i].put \in blobs' /\ job'[i].put <= drawn'
                       /\ job'[i].put \notin ids' /\ job'[i].put # reader'.id
                       /\ \A h \in Jobs \ {i} : Carries(h)' => job'[h].put # job'[i].put
    BY DEF Carried
  <2>1. Carries(i) /\ job'[i].put = job[i].put /\ job[i].put # row.id
    BY DEF JobsKept
  <2>. QED
    BY <1>0, <1>1, <2>1 DEF Inv, Carried, JobsKept
<1>6. Doomed'
  BY <1>0, <1>1 DEF Inv, Doomed, JobsKept
<1>7. Reading' /\ RowsHaveContent'
  BY DEF Inv, Reading, RowsHaveContent
<1>8. EmptyOnlyWhenGone'
  BY <1>1 DEF Inv, EmptyOnlyWhenGone
<1>. QED
  BY <1>2, <1>3, <1>4, <1>5, <1>6, <1>7, <1>8 DEF Inv, JobsKept

LEMMA InsertKeeps ==
  ASSUME TypeOK, QueuedEarly, NEW j \in Jobs,
         job' = [job EXCEPT ![j].at = @ + 1, ![j].put = None]
  PROVE  JobsKept /\ ~Carries(j)'
<1>1. job \in [Jobs -> Attempt] /\ job[j].at + 1 \in Nat \ {0}
  BY DEF TypeOK, Attempt
<1>2. job' \in [Jobs -> Attempt]
  BY <1>1 DEF Attempt, None
<1>3. QueuedEarly'
  BY <1>1 DEF QueuedEarly, Attempt
<1>4. ASSUME NEW i \in Jobs, Carries(i)'
      PROVE  Carries(i) /\ job'[i].put = job[i].put
  BY <1>1, <1>4 DEF Carries, Running, Attempt
<1>5. ~Carries(j)'
  BY <1>1 DEF Carries, Attempt
<1>. QED
  BY <1>2, <1>3, <1>4, <1>5 DEF JobsKept

LEMMA FailedDrops ==
  ASSUME TypeOK, NEW j \in Jobs, Failed(j)
  PROVE  ~Carries(j)'
BY DEF TypeOK, Failed, Carries, Running

LEMMA InsertRowInv == ASSUME Inv, NEW j \in Jobs, InsertRow(j) PROVE Inv'
<1>. DEFINE blob == job[j].put # None
            id   == IF blob THEN job[j].put ELSE drawn + 1
            row  == [id |-> id, table |-> ItemAt(j).table, blob |-> InBlob(ItemAt(j))]
<1>0. /\ Running(j) /\ AtItem(j) /\ job[j].put \in Nat
      /\ drawn \in Nat /\ rows \subseteq Row /\ reader.id \in Nat /\ configured \in BOOLEAN
      /\ \A s \in Servers : \A k \in cleanup[s].keys : k \in Nat
  BY DEF Inv, TypeOK, InsertRow, AtItem
<1>1. ItemAt(j).table \in Tables /\ InBlob(ItemAt(j)) \in BOOLEAN
  <2>1. Items[j] \in Seq(Item) /\ job[j].at \in Nat \ {0} /\ job[j].at <= Len(Items[j])
    BY <1>0, ItemsAssumption DEF Inv, TypeOK, AtItem
  <2>2. ItemAt(j) \in Item
    BY <2>1 DEF ItemAt
  <2>. QED
    BY <1>0, <2>2 DEF Item, InBlob
<1>2. /\ InBlob(ItemAt(j)) => blob
      /\ drawn' = IF blob THEN drawn ELSE drawn + 1
      /\ rows' \in {rows, rows \cup {row}}
      /\ UNCHANGED <<configured, expired, blobs, cleanup, reader>>
  BY DEF InsertRow, ReadyToInsert
<1>3. JobsKept /\ ~Carries(j)' /\ faults' \in 0 .. MaxFaults
  BY <1>0, InsertKeeps, FailedKeeps, FailedDrops, FaultType DEF Inv, InsertRow
<1>4. CASE blob
  <2>1. Carries(j) /\ id = job[j].put /\ id \in Nat \ {0} /\ drawn' = drawn
    BY <1>0, <1>2, <1>4 DEF Carries, None
  <2>2. /\ id \in blobs /\ id <= drawn /\ id \notin ids /\ id # reader.id
        /\ \A i \in Jobs \ {j} : Carries(i) => job[i].put # id
    BY <2>1 DEF Inv, Carried
  <2>3. \A s \in Servers : id \notin cleanup[s].keys
    BY <2>1 DEF Inv, Doomed
  <2>4. row \in Row
    BY <1>1, <2>1 DEF Row
  <2>5. \A i \in Jobs : Carries(i)' => job[i].put # id
    BY <1>3, <2>2 DEF JobsKept
  <2>. HIDE DEF id, blob
  <2>. QED
    BY <1>0, <1>2, <1>3, <2>1, <2>2, <2>3, <2>4, <2>5, MoreRows
<1>5. CASE ~blob
  <2>1. id = drawn + 1 /\ id \in Nat \ {0} /\ drawn' = drawn + 1 /\ ~InBlob(ItemAt(j))
    BY <1>0, <1>2, <1>5
  <2>2. id \notin ids /\ id # reader.id
    BY <1>0, <2>1 DEF Inv, Drawn, ids, Row
  <2>3. \A s \in Servers : id \notin cleanup[s].keys
    BY <1>0, <2>1 DEF Inv, Doomed
  <2>4. row \in Row
    BY <1>1, <2>1 DEF Row
  <2>5. \A i \in Jobs : Carries(i)' => job[i].put # id
    BY <1>0, <1>3, <2>1 DEF JobsKept, Inv, TypeOK, Carried
  <2>. HIDE DEF id, blob
  <2>. QED
    BY <1>0, <1>2, <1>3, <2>1, <2>2, <2>3, <2>4, <2>5, MoreRows
<1>. QED
  BY <1>4, <1>5

-----------------------------------------------------------------------------
(* Retention and downloads.                                                *)

CleanupType == [Servers -> [phase : {"done", "rows", "blobs"}, table : Tables, keys : SUBSET Nat]]

\* Where retention loses keys, and at most a blob that had been doomed, everything holds on.
LEMMA CleanupLess ==
  ASSUME Inv, faults' \in 0 .. MaxFaults,
         cleanup' \in CleanupType,
         \A s \in Servers : cleanup'[s].keys \subseteq cleanup[s].keys,
         \/ UNCHANGED blobs
         \/ \E s \in Servers : \E k \in cleanup[s].keys : blobs' = blobs \ {k},
         UNCHANGED <<configured, job, drawn, rows, expired, reader>>
  PROVE  Inv'
<1>1. TypeOK'
  BY DEF Inv, TypeOK, CleanupType
<1>2. ids' = ids /\ \A j \in Jobs : Carries(j)' <=> Carries(j)
  BY DEF ids, Carries, Running
<1>3. Doomed'
  BY <1>2 DEF Inv, Doomed
<1>4. Carried'
  BY <1>2 DEF Inv, Carried, Doomed
<1>5. RowsHaveContent'
  BY DEF Inv, RowsHaveContent, Doomed, ids
<1>6. QueuedEarly' /\ Apart' /\ Drawn' /\ Reading' /\ EmptyOnlyWhenGone'
  BY <1>2 DEF Inv, QueuedEarly, Apart, Drawn, Reading, EmptyOnlyWhenGone
<1>. QED
  BY <1>1, <1>3, <1>4, <1>5, <1>6 DEF Inv

LEMMA CleanupInv ==
  ASSUME Inv, NEW s \in Servers,
         TakeLock(s) \/ DeleteBlob(s) \/ MoveOn(s) \/ CleanupDies(s)
  PROVE  Inv'
<1>1. cleanup \in CleanupType /\ \A t \in Servers : cleanup[t].keys \subseteq Nat
  BY DEF Inv, TypeOK, CleanupType
<1>2. faults' \in 0 .. MaxFaults
  BY FaultType DEF Inv, TakeLock, DeleteBlob, MoveOn, CleanupDies
<1>3. CASE TakeLock(s) \/ MoveOn(s) \/ CleanupDies(s)
  <2>1. PICK c : c \in [phase : {"done", "rows", "blobs"}, table : Tables, keys : {{}}]
                 /\ cleanup' = [cleanup EXCEPT ![s] = c]
    BY <1>3 DEF TakeLock, MoveOn, CleanupDies, NextTable, Done, Tables
  <2>2. cleanup' \in CleanupType /\ \A t \in Servers : cleanup'[t].keys \subseteq cleanup[t].keys
    BY <1>1, <2>1 DEF CleanupType
  <2>. QED
    BY <1>2, <1>3, <2>2, CleanupLess DEF TakeLock, MoveOn, CleanupDies
<1>4. CASE DeleteBlob(s)
  <2>1. PICK k \in cleanup[s].keys :
          /\ cleanup' = [cleanup EXCEPT ![s].keys = @ \ {k}]
          /\ blobs' = blobs \ {k} \/ blobs' = blobs
    BY <1>4 DEF DeleteBlob
  <2>2. cleanup' \in CleanupType /\ \A t \in Servers : cleanup'[t].keys \subseteq cleanup[t].keys
    BY <1>1, <2>1 DEF CleanupType
  <2>. QED
    BY <1>2, <1>4, <2>1, <2>2, CleanupLess DEF DeleteBlob
<1>. QED
  BY <1>3, <1>4

LEMMA DeleteRowsInv == ASSUME Inv, NEW s \in Servers, DeleteRows(s) PROVE Inv'
<1>1. PICK B \in Batches(cleanup[s].table) :
        /\ rows' = Remaining(B) /\ expired' = expired \ B
        /\ \/ cleanup' = [cleanup EXCEPT ![s].phase = "blobs", ![s].keys = Returned(B)]
           \/ cleanup' = [cleanup EXCEPT ![s] = Done]
  BY DEF DeleteRows
<1>2. /\ B \subseteq ids /\ B \subseteq Nat /\ drawn \in Nat
      /\ \A k \in B : k <= drawn
  <2>1. B \subseteq expired /\ expired \subseteq ids /\ rows \subseteq Row
    BY DEF Batches, Inv, TypeOK, ids
  <2>2. \A r \in rows : r.id \in Nat /\ r.id <= drawn
    BY <2>1 DEF Inv, Drawn, Row
  <2>. QED
    BY <2>1, <2>2 DEF ids, Inv, TypeOK
<1>3. /\ rows' \subseteq rows /\ ids' = ids \ B
      /\ faults' \in 0 .. MaxFaults
      /\ UNCHANGED <<configured, job, drawn, blobs, reader>>
  <2>1. rows' = {r \in rows : r.id \notin B}
    BY <1>1 DEF Remaining
  <2>. QED
    BY <2>1, FaultType DEF ids, Inv, DeleteRows
<1>4. cleanup \in CleanupType /\ Returned(B) \subseteq B
  BY DEF Inv, TypeOK, CleanupType, Returned
<1>5. /\ cleanup' \in CleanupType
      /\ \A t \in Servers : cleanup'[t].keys \subseteq cleanup[t].keys \cup B
  BY <1>1, <1>2, <1>4 DEF CleanupType, Done, Tables
<1>6. TypeOK'
  <2>1. expired' \subseteq ids'
    BY <1>1, <1>3 DEF Inv, TypeOK, ids
  <2>. QED
    BY <1>3, <1>5, <2>1 DEF Inv, TypeOK, CleanupType, ids
<1>7. \A j \in Jobs : Carries(j)' <=> Carries(j)
  BY <1>3 DEF Carries, Running
<1>8. Carried'
  BY <1>3, <1>7 DEF Inv, Carried
<1>9. Doomed'
  <2>. SUFFICES ASSUME NEW t \in Servers, NEW k \in cleanup'[t].keys
                PROVE  /\ k <= drawn /\ k \notin ids'
                       /\ \A j \in Jobs : Carries(j) => job[j].put # k
    BY <1>3, <1>7 DEF Doomed
  <2>1. CASE k \in cleanup[t].keys
    BY <1>3, <2>1 DEF Inv, Doomed
  <2>2. CASE k \in B
    BY <1>2, <1>3, <2>2 DEF Inv, Carried
  <2>. QED
    BY <1>5, <2>1, <2>2
<1>10. /\ QueuedEarly' /\ Apart' /\ Drawn' /\ Reading' /\ RowsHaveContent'
       /\ EmptyOnlyWhenGone'
  BY <1>3 DEF Inv, QueuedEarly, Apart, Drawn, Reading, RowsHaveContent, EmptyOnlyWhenGone
<1>. QED
  BY <1>6, <1>8, <1>9, <1>10 DEF Inv

LEMMA ExpireInv == ASSUME Inv, NEW i \in ids, Expire(i) PROVE Inv'
<1>1. /\ expired' = expired \cup {i} /\ ids' = ids
      /\ UNCHANGED <<configured, job, drawn, rows, blobs, cleanup, reader, faults>>
  BY DEF Expire, ids
<1>2. TypeOK'
  BY <1>1 DEF Inv, TypeOK, ids
<1>3. Carried' /\ Doomed'
  BY <1>1 DEF Inv, Carried, Doomed, Carries, Running
<1>4. /\ QueuedEarly' /\ Apart' /\ Drawn' /\ Reading' /\ RowsHaveContent'
      /\ EmptyOnlyWhenGone'
  BY <1>1 DEF Inv, QueuedEarly, Apart, Drawn, Reading, RowsHaveContent, EmptyOnlyWhenGone
<1>. QED
  BY <1>2, <1>3, <1>4 DEF Inv

-----------------------------------------------------------------------------
\* A reader that looks at a row that is there, or at the same one as before.
LEMMA ReaderInv ==
  ASSUME Inv, faults' \in 0 .. MaxFaults,
         reader' \in [phase : {"idle", "blob"}, id : Nat,
                      answer : {"none", "content", "empty"}, failed : BOOLEAN],
         reader'.id = reader.id \/ reader'.id \in ids,
         Reading', EmptyOnlyWhenGone',
         UNCHANGED <<configured, job, drawn, rows, expired, blobs, cleanup>>
  PROVE  Inv'
<1>1. ids' = ids /\ rows \subseteq Row
  BY DEF ids, Inv, TypeOK
<1>2. TypeOK'
  BY DEF Inv, TypeOK
<1>3. Drawn'
  BY <1>1 DEF Inv, Drawn, ids
<1>4. Carried'
  BY <1>1 DEF Inv, Carried, Carries, Running
<1>5. QueuedEarly' /\ Apart' /\ Doomed' /\ RowsHaveContent'
  BY <1>1 DEF Inv, QueuedEarly, Apart, Doomed, Carries, Running, RowsHaveContent
<1>. QED
  BY <1>2, <1>3, <1>4, <1>5 DEF Inv

LEMMA ReadRowInv == ASSUME Inv, NEW i \in ids, ReadRow(i) PROVE Inv'
<1>1. /\ reader' = IF RowOf(i).blob THEN [Idle EXCEPT !.phase = "blob", !.id = i]
                   ELSE [Idle EXCEPT !.id = i, !.answer = "content"]
      /\ UNCHANGED <<configured, job, drawn, rows, expired, blobs, cleanup, faults>>
  BY DEF ReadRow
<1>2. i \in Nat
  BY DEF ids, Inv, TypeOK, Row
<1>3. \A r \in rows : r.id = i => RowOf(i) = r
  BY RowOfId DEF Inv
<1>4. /\ reader' \in [phase : {"idle", "blob"}, id : Nat,
                      answer : {"none", "content", "empty"}, failed : BOOLEAN]
      /\ reader'.id = i /\ reader'.answer # "empty"
      /\ reader'.phase = "blob" => RowOf(i).blob
  BY <1>1, <1>2 DEF Idle
<1>5. Reading' /\ EmptyOnlyWhenGone'
  BY <1>1, <1>3, <1>4 DEF Reading, EmptyOnlyWhenGone
<1>. QED
  BY <1>1, <1>4, <1>5, ReaderInv DEF Inv, TypeOK

LEMMA ReadBlobInv == ASSUME Inv, ReadBlob PROVE Inv'
<1>1. /\ reader.phase = "blob"
      /\ UNCHANGED <<configured, job, drawn, rows, expired, blobs, cleanup>>
      /\ faults' \in 0 .. MaxFaults
  BY FaultType DEF ReadBlob, Inv
<1>2. /\ reader' \in [phase : {"idle", "blob"}, id : Nat,
                      answer : {"none", "content", "empty"}, failed : BOOLEAN]
      /\ reader'.id = reader.id /\ reader'.phase = "idle"
      /\ reader'.answer = "empty" => reader.id \notin blobs \/ reader'.failed
  BY DEF ReadBlob, Inv, TypeOK
<1>3. reader.id \in ids => reader.id \in blobs
  BY <1>1 DEF Inv, Reading, RowsHaveContent, ids
<1>4. Reading' /\ EmptyOnlyWhenGone'
  BY <1>1, <1>2, <1>3 DEF Reading, EmptyOnlyWhenGone, ids
<1>. QED
  BY <1>1, <1>2, <1>4, ReaderInv

-----------------------------------------------------------------------------
LEMMA StepInv == Inv /\ [Next]_vars => Inv'
<1>. SUFFICES ASSUME Inv, [Next]_vars PROVE Inv'
  OBVIOUS
<1>1. CASE \E j \in Jobs : Persist(j)
  BY <1>1, LeaseInv, SettleInv, PutBlobInv, InsertRowInv DEF Persist
<1>2. CASE \E i \in ids : Expire(i) \/ ReadRow(i)
  BY <1>2, ExpireInv, ReadRowInv
<1>3. CASE ReadBlob
  BY <1>3, ReadBlobInv
<1>4. CASE \E s \in Servers : Cleanup(s) \/ CleanupDies(s)
  BY <1>4, CleanupInv, DeleteRowsInv DEF Cleanup
<1>5. CASE UNCHANGED vars
  <2>1. UNCHANGED <<configured, job, drawn, rows, expired, blobs, cleanup, reader, faults>>
    BY <1>5 DEF vars
  <2>. QED
    BY <2>1 DEF Inv, TypeOK, QueuedEarly, Apart, Drawn, Carried, Carries, Running, Doomed, Reading,
                RowsHaveContent, EmptyOnlyWhenGone, ids
<1>. QED
  BY <1>1, <1>2, <1>3, <1>4, <1>5 DEF Next

\* Every reachable state is well typed, rows have identifiers of their own, and what a
\* job carries or retention has doomed is nobody else's.
THEOREM RetentionInvariant == Spec => []Inv
<1>. QED
  BY InitInv, StepInv, PTL DEF Spec

\* A row that names a blob has it, at every moment, whatever calls fail and whichever
\* processes die: the blob is put before the row is inserted, under an identifier no
\* other attempt has, and deleted after the row (persistAttachment, CleanupExpired).
THEOREM RowsAlwaysHaveContent == Spec => []RowsHaveContent
<1>1. Inv => RowsHaveContent
  BY DEF Inv
<1>. QED
  BY <1>1, RetentionInvariant, PTL

\* A download is empty only if its read of the blob failed or the attachment is gone
\* (GetAttachment).
THEOREM DownloadsAreWhole == Spec => []EmptyOnlyWhenGone
<1>1. Inv => EmptyOnlyWhenGone
  BY DEF Inv
<1>. QED
  BY <1>1, RetentionInvariant, PTL

-----------------------------------------------------------------------------
(* Orphans: a second invariant, of what is in flight, on top of the first.  *)

\* A job carries only what its item stores in a blob; keys are drawn before they are used,
\* and retention has in hand at most the keys of one batch.
Accounted ==
  /\ \A j \in Jobs : Carries(j) =>
       job[j].at <= Len(Items[j]) /\ ~Refused(ItemAt(j)) /\ InBlob(ItemAt(j))
  /\ \A k \in blobs : k <= drawn
  /\ blobs # {} => configured
  /\ \A r \in rows : ~r.blob => r.id \notin blobs
  /\ \A s \in Servers : /\ cleanup[s].phase # "blobs" => cleanup[s].keys = {}
                        /\ IsFiniteSet(cleanup[s].keys)
                        /\ Cardinality(cleanup[s].keys) <= BatchSize
  /\ IsFiniteSet(blobs) /\ IsFiniteSet(expired)

OrphanInv == Inv /\ Accounted /\ OrphansBounded

LEMMA InitOrphans == Init => OrphanInv
<1>. SUFFICES ASSUME Init PROVE OrphanInv
  OBVIOUS
<1>1. Orphans = {}
  BY DEF Init, Orphans
<1>2. Accounted
  <2>1. IsFiniteSet({}) /\ Cardinality({}) = 0 /\ 0 <= BatchSize
    BY FS_EmptySet, BoundAssumption
  <2>2. \A j \in Jobs : ~Carries(j)
    BY DEF Init, Carries, Running
  <2>3. \A s \in Servers : cleanup[s].keys = {}
    BY DEF Init, Done
  <2>. QED
    BY <2>1, <2>2, <2>3 DEF Init, Accounted
<1>3. OrphansBounded
  <2>1. faults = 0 /\ BatchSize * 0 = 0
    BY BoundAssumption DEF Init
  <2>. QED
    BY <1>1, <2>1, FS_EmptySet DEF OrphansBounded
<1>. QED
  BY <1>2, <1>3, InitInv DEF OrphanInv

\* A step that adds no orphan, and one that adds at most a batch of them by a fault.
LEMMA OrphansKept ==
  ASSUME OrphanInv, Orphans' \subseteq Orphans, faults' \in {faults, faults + 1}
  PROVE  OrphansBounded'
<1>1. IsFiniteSet(Orphans)
  BY FS_Subset DEF OrphanInv, Accounted, Orphans
<1>2. /\ Cardinality(Orphans') <= Cardinality(Orphans)
      /\ Cardinality(Orphans) \in Nat /\ Cardinality(Orphans') \in Nat
  BY <1>1, FS_Subset, FS_CardinalityType
<1>3. faults \in Nat /\ BatchSize \in Nat
  BY BoundAssumption DEF OrphanInv, Inv, TypeOK
<1>4. BatchSize * faults <= BatchSize * faults' /\ BatchSize * faults \in Nat /\ BatchSize * faults' \in Nat
  <2>1. BatchSize * (faults + 1) = BatchSize * faults + BatchSize /\ BatchSize * faults \in Nat
    BY <1>3
  <2>2. CASE faults' = faults
    BY <1>3, <2>1, <2>2
  <2>3. CASE faults' = faults + 1
    BY <1>3, <2>1, <2>3
  <2>. QED
    BY <2>2, <2>3
<1>5. Cardinality(Orphans) <= BatchSize * faults
  BY DEF OrphanInv, OrphansBounded
<1>6. Cardinality(Orphans') <= BatchSize * faults'
  BY <1>2, <1>4, <1>5
<1>. QED
  BY <1>6 DEF OrphansBounded

LEMMA OrphansGrow ==
  ASSUME OrphanInv, NEW X, IsFiniteSet(X), Cardinality(X) <= BatchSize,
         Orphans' \subseteq Orphans \cup X, faults' = faults + 1
  PROVE  OrphansBounded'
<1>1. IsFiniteSet(Orphans)
  BY FS_Subset DEF OrphanInv, Accounted, Orphans
<1>2. /\ IsFiniteSet(Orphans \cup X)
      /\ Cardinality(Orphans \cup X) = Cardinality(Orphans) + Cardinality(X) - Cardinality(Orphans \cap X)
      /\ IsFiniteSet(Orphans \cap X)
  BY <1>1, FS_Union, FS_Intersection
<1>3. /\ Cardinality(Orphans') <= Cardinality(Orphans \cup X)
      /\ IsFiniteSet(Orphans')
  BY <1>2, FS_Subset
<1>4. /\ Cardinality(Orphans) \in Nat /\ Cardinality(X) \in Nat
      /\ Cardinality(Orphans \cap X) \in Nat /\ Cardinality(Orphans') \in Nat
  BY <1>1, <1>2, <1>3, FS_CardinalityType
<1>5. faults \in Nat /\ BatchSize \in Nat
  BY BoundAssumption DEF OrphanInv, Inv, TypeOK
<1>6. BatchSize * faults' = BatchSize * faults + BatchSize /\ BatchSize * faults \in Nat
  BY <1>5
<1>7. Cardinality(Orphans) <= BatchSize * faults
  BY DEF OrphanInv, OrphansBounded
<1>. QED
  BY <1>2, <1>3, <1>4, <1>5, <1>6, <1>7 DEF OrphansBounded

LEMMA OneOrphan ==
  ASSUME OrphanInv, NEW x, Orphans' \subseteq Orphans \cup {x}, faults' = faults + 1
  PROVE  OrphansBounded'
<1>1. IsFiniteSet({x}) /\ Cardinality({x}) <= BatchSize
  <2>1. IsFiniteSet({x}) /\ Cardinality({x}) = 1
    BY FS_Singleton
  <2>. QED
    BY <2>1, BoundAssumption
<1>. QED
  BY <1>1, OrphansGrow

\* Where only job j changes among the jobs, only what it carried may become an orphan.
LEMMA JobOrphans ==
  ASSUME OrphanInv, NEW j \in Jobs, ids \subseteq ids',
         \A i \in Jobs \ {j} : job'[i] = job[i],
         UNCHANGED <<blobs, cleanup>>
  PROVE  \A k \in Orphans' \ Orphans : Carries(j) /\ k = job[j].put
BY DEF Orphans, InFlight, Carries, Running, OrphanInv, Inv, TypeOK, None

\* Where blobs, rows, keys and expired rows stay as they are, and jobs carry nothing new.
LEMMA AccountedKept ==
  ASSUME OrphanInv, drawn <= drawn', drawn' \in Nat,
         \A i \in Jobs : Carries(i)' => Carries(i) /\ job'[i].at = job[i].at,
         UNCHANGED <<configured, rows, expired, blobs, cleanup>>
  PROVE  Accounted'
<1>1. drawn \in Nat /\ blobs \subseteq Nat
  BY DEF OrphanInv, Inv, TypeOK
<1>2. \A i \in Jobs : Carries(i)' =>
        job'[i].at <= Len(Items[i]) /\ ~Refused(ItemAt(i))' /\ InBlob(ItemAt(i))'
  BY DEF OrphanInv, Accounted, ItemAt, Refused, InBlob
<1>. QED
  BY <1>1, <1>2 DEF OrphanInv, Accounted

LEMMA FailedJobs ==
  ASSUME TypeOK, NEW j \in Jobs, Failed(j)
  PROVE  /\ \A i \in Jobs \ {j} : job'[i] = job[i]
         /\ ~Carries(j)'
         /\ \A i \in Jobs : Carries(i)' => Carries(i) /\ job'[i].at = job[i].at
         /\ \A i \in Jobs : Carries(i)' => job'[i].put = job[i].put
BY FailedDrops DEF TypeOK, Failed, Carries, Running

LEMMA LeaseOrphans ==
  ASSUME OrphanInv, NEW j \in Jobs, Lease(j)
  PROVE  Accounted' /\ OrphansBounded'
<1>1. /\ \A i \in Jobs \ {j} : job'[i] = job[i]
      /\ ~Carries(j) /\ ~Carries(j)'
  BY DEF OrphanInv, Inv, TypeOK, Lease, Carries, Running
<1>2. Accounted'
  BY <1>1, AccountedKept DEF OrphanInv, Inv, TypeOK, Lease, Carries, Running
<1>3. Orphans' \subseteq Orphans /\ UNCHANGED faults
  BY <1>1, JobOrphans DEF Lease, ids
<1>. QED
  BY <1>2, <1>3, OrphansKept

LEMMA SettleOrphans ==
  ASSUME OrphanInv, NEW j \in Jobs, Refuse(j) \/ Finish(j) \/ WorkerDies(j)
  PROVE  Accounted' /\ OrphansBounded'
<1>. job \in [Jobs -> Attempt] /\ Items[j] \in Seq(Item) /\ faults \in Nat
  BY ItemsAssumption DEF OrphanInv, Inv, TypeOK, Attempt
<1>1. /\ \A i \in Jobs \ {j} : job'[i] = job[i]
      /\ \A i \in Jobs : Carries(i)' => Carries(i) /\ job'[i].at = job[i].at
  <2>1. CASE Failed(j)
    BY <2>1, FailedJobs DEF OrphanInv, Inv
  <2>2. CASE job' = [job EXCEPT ![j].state = "completed"]
    BY <2>2 DEF Attempt, Carries, Running
  <2>. QED
    BY <2>1, <2>2 DEF Refuse, Finish, WorkerDies
<1>2. UNCHANGED <<configured, drawn, rows, expired, blobs, cleanup>> /\ ids' = ids
  BY DEF Refuse, Finish, WorkerDies, ids
<1>3. Accounted'
  BY <1>1, <1>2, AccountedKept DEF OrphanInv, Inv, TypeOK
<1>4. \A k \in Orphans' \ Orphans : Carries(j) /\ k = job[j].put
  BY <1>1, <1>2, JobOrphans
<1>5. CASE Refuse(j) \/ Finish(j)
  <2>1. ~Carries(j)
    BY <1>5 DEF OrphanInv, Accounted, Refuse, Finish, AtItem, Attempt
  <2>2. faults' \in {faults, faults + 1}
    BY <1>5 DEF Refuse, Finish, Fault
  <2>. QED
    BY <1>3, <1>4, <2>1, <2>2, OrphansKept
<1>6. CASE WorkerDies(j)
  <2>1. Orphans' \subseteq Orphans \cup {job[j].put} /\ faults' = faults + 1
    BY <1>4, <1>6 DEF WorkerDies, Fault
  <2>. QED
    BY <1>3, <2>1, OneOrphan
<1>. QED
  BY <1>5, <1>6

LEMMA PutBlobOrphans ==
  ASSUME OrphanInv, NEW j \in Jobs, PutBlob(j)
  PROVE  Accounted' /\ OrphansBounded'
<1>. DEFINE key == drawn + 1
<1>0. /\ job \in [Jobs -> Attempt] /\ drawn \in Nat /\ key \in Nat \ {0} /\ key # None
      /\ rows \subseteq Row /\ blobs \subseteq Nat \ {0} /\ faults \in Nat
      /\ configured \in BOOLEAN
  BY DEF OrphanInv, Inv, TypeOK, Attempt, None
<1>1. /\ AtItem(j) /\ ~Refused(ItemAt(j)) /\ InBlob(ItemAt(j)) /\ job[j].put = None
      /\ drawn' = key /\ blobs' \subseteq blobs \cup {key}
      /\ UNCHANGED <<configured, rows, expired, cleanup>> /\ ids' = ids
  BY DEF PutBlob, ids
<1>2. configured
  <2>1. Items[j] \in Seq(Item) /\ job[j].at \in Nat \ {0} /\ job[j].at <= Len(Items[j])
    BY <1>0, <1>1, ItemsAssumption DEF AtItem, Attempt
  <2>2. ItemAt(j) \in Item
    BY <2>1 DEF ItemAt
  <2>. QED
    BY <1>0, <1>1, <2>2 DEF Item, Tables, Refused, InBlob
<1>3. \A r \in rows : r.id # key
  BY <1>0 DEF OrphanInv, Inv, Drawn, Row
<1>4. /\ \A k \in blobs' : k <= drawn'
      /\ \A r \in rows' : ~r.blob => r.id \notin blobs'
      /\ IsFiniteSet(blobs')
  <2>1. IsFiniteSet(blobs \cup {key})
    BY FS_AddElement DEF OrphanInv, Accounted
  <2>2. \A k \in blobs : k \in Nat /\ k <= drawn
    BY <1>0 DEF OrphanInv, Accounted
  <2>3. \A r \in rows : ~r.blob => r.id \notin blobs
    BY DEF OrphanInv, Accounted
  <2>4. \A k \in blobs' : k <= drawn'
    BY <1>0, <1>1, <2>2
  <2>. QED
    BY <1>1, <1>3, <2>1, <2>3, <2>4, FS_Subset
<1>5. ASSUME \A i \in Jobs : Carries(i)' =>
               job'[i].at <= Len(Items[i]) /\ ~Refused(ItemAt(i))' /\ InBlob(ItemAt(i))'
      PROVE  Accounted'
  BY <1>1, <1>2, <1>4, <1>5 DEF OrphanInv, Accounted
<1>. HIDE DEF key
<1>6. CASE job' = [job EXCEPT ![j].put = key] /\ UNCHANGED faults
  <2>1. /\ job'[j] = [job[j] EXCEPT !.put = key]
        /\ \A i \in Jobs \ {j} : job'[i] = job[i] /\ (Carries(i)' <=> Carries(i))
    BY <1>0, <1>6 DEF Attempt, Carries, Running
  <2>2. ASSUME NEW i \in Jobs, Carries(i)'
        PROVE  job'[i].at <= Len(Items[i]) /\ ~Refused(ItemAt(i))' /\ InBlob(ItemAt(i))'
    <3>1. CASE i = j
      <4>1. ItemAt(j)' = ItemAt(j) /\ job'[j].at = job[j].at
        BY <2>1 DEF ItemAt
      <4>2. (Refused(ItemAt(j))' <=> Refused(ItemAt(j))) /\ InBlob(ItemAt(j))' = InBlob(ItemAt(j))
        BY <1>1, <4>1 DEF Refused, InBlob
      <4>. QED
        BY <1>1, <3>1, <4>1, <4>2 DEF AtItem
    <3>2. CASE i # j
      BY <1>1, <2>1, <2>2, <3>2 DEF OrphanInv, Accounted, ItemAt, Refused, InBlob
    <3>. QED
      BY <3>1, <3>2
  <2>3. Orphans' \subseteq Orphans
    <3>1. Running(j)' /\ job'[j].put = key
      BY <1>0, <1>1, <2>1 DEF Running, AtItem, Attempt
    <3>2. ASSUME NEW k \in blobs, InFlight(k) PROVE InFlight(k)'
      BY <1>0, <1>1, <2>1, <3>2 DEF InFlight, Running, Attempt, None
    <3>3. ASSUME NEW k \in Orphans' PROVE k \in Orphans
      <4>1. k \in blobs
        BY <1>1, <3>1, <3>3 DEF Orphans, InFlight
      <4>. QED
        BY <1>1, <3>2, <3>3, <4>1 DEF Orphans
    <3>. QED
      BY <3>3
  <2>. QED
    BY <1>5, <1>6, <2>2, <2>3, OrphansKept
<1>7. CASE Failed(j) /\ Fault
  <2>1. /\ \A i \in Jobs \ {j} : job'[i] = job[i]
        /\ \A i \in Jobs : Carries(i)' => Carries(i) /\ job'[i].at = job[i].at
    BY <1>7, FailedJobs DEF OrphanInv, Inv
  <2>2. ASSUME NEW i \in Jobs, Carries(i)'
        PROVE  job'[i].at <= Len(Items[i]) /\ ~Refused(ItemAt(i))' /\ InBlob(ItemAt(i))'
    BY <1>1, <2>1, <2>2 DEF OrphanInv, Accounted, ItemAt, Refused, InBlob
  <2>3. ASSUME NEW k \in blobs, InFlight(k) PROVE InFlight(k)'
    BY <1>0, <1>1, <2>1, <2>3 DEF InFlight, Running, None
  <2>4. Orphans' \subseteq Orphans \cup {key}
    BY <1>1, <2>3 DEF Orphans
  <2>. QED
    BY <1>5, <1>7, <2>2, <2>4, OneOrphan DEF Fault
<1>. QED
  BY <1>6, <1>7 DEF PutBlob, key

LEMMA InsertRowOrphans ==
  ASSUME OrphanInv, NEW j \in Jobs, InsertRow(j)
  PROVE  Accounted' /\ OrphansBounded'
<1>0. /\ job \in [Jobs -> Attempt] /\ drawn \in Nat /\ rows \subseteq Row
      /\ blobs \subseteq Nat \ {0} /\ faults \in Nat
  BY DEF OrphanInv, Inv, TypeOK, Attempt
<1>1. PICK id, row :
        /\ id = (IF job[j].put # None THEN job[j].put ELSE drawn + 1)
        /\ row.id = id /\ row.blob = InBlob(ItemAt(j))
        /\ \/ /\ rows' = rows \cup {row}
              /\ job' = [job EXCEPT ![j].at = @ + 1, ![j].put = None]
              /\ UNCHANGED faults
           \/ /\ rows' \in {rows, rows \cup {row}}
              /\ Failed(j) /\ Fault
  BY DEF InsertRow
<1>2. /\ Running(j) /\ (InBlob(ItemAt(j)) => job[j].put # None)
      /\ drawn' = IF job[j].put # None THEN drawn ELSE drawn + 1
      /\ UNCHANGED <<configured, expired, blobs, cleanup>>
  BY DEF InsertRow, ReadyToInsert, AtItem
<1>3. /\ \A i \in Jobs \ {j} : job'[i] = job[i]
      /\ \A i \in Jobs : Carries(i)' => Carries(i) /\ job'[i].at = job[i].at
  <2>1. CASE Failed(j)
    BY <2>1, FailedJobs DEF OrphanInv, Inv
  <2>2. CASE job' = [job EXCEPT ![j].at = @ + 1, ![j].put = None]
    BY <1>0, <2>2 DEF Attempt, Carries, Running
  <2>. QED
    BY <1>1, <2>1, <2>2
<1>4. rows \subseteq rows' /\ rows' \subseteq rows \cup {row}
  BY <1>1
<1>5. ~row.blob => row.id \notin blobs
  <2>. SUFFICES ASSUME ~row.blob PROVE id \notin blobs
    BY <1>1
  <2>1. job[j].put = None
    BY <1>1, <1>2 DEF OrphanInv, Accounted, Carries
  <2>2. id = drawn + 1 /\ \A k \in blobs : k \in Nat /\ k <= drawn
    BY <1>0, <1>1, <2>1 DEF OrphanInv, Accounted
  <2>. QED
    BY <1>0, <2>2
<1>6. Accounted'
  <2>1. \A i \in Jobs : Carries(i)' =>
          job'[i].at <= Len(Items[i]) /\ ~Refused(ItemAt(i))' /\ InBlob(ItemAt(i))'
    BY <1>2, <1>3 DEF OrphanInv, Accounted, ItemAt, Refused, InBlob
  <2>2. \A r \in rows' : ~r.blob => r.id \notin blobs
    BY <1>4, <1>5 DEF OrphanInv, Accounted
  <2>3. \A k \in blobs : k <= drawn'
    <3>1. drawn' \in Nat /\ drawn <= drawn'
      BY <1>0, <1>2
    <3>2. \A k \in blobs : k \in Nat /\ k <= drawn
      BY <1>0 DEF OrphanInv, Accounted
    <3>. QED
      BY <1>0, <3>1, <3>2
  <2>. QED
    BY <1>2, <2>1, <2>2, <2>3 DEF OrphanInv, Accounted
<1>7. ids \subseteq ids'
  BY <1>4 DEF ids
<1>8. \A k \in Orphans' \ Orphans : Carries(j) /\ k = job[j].put
  BY <1>2, <1>3, <1>7, JobOrphans
<1>9. CASE Fault
  <2>1. Orphans' \subseteq Orphans \cup {job[j].put}
    BY <1>8
  <2>. QED
    BY <1>6, <1>9, <2>1, OneOrphan DEF Fault
<1>10. CASE rows' = rows \cup {row} /\ UNCHANGED faults
  <2>1. Carries(j) => job[j].put \in ids'
    BY <1>1, <1>10 DEF Carries, ids
  <2>2. Orphans' \subseteq Orphans
    BY <1>8, <2>1 DEF Orphans
  <2>. QED
    BY <1>6, <1>10, <2>2, OrphansKept
<1>. QED
  BY <1>1, <1>9, <1>10

-----------------------------------------------------------------------------
\* Steps of retention that leave rows alone: keys go, and their blobs with them or by a fault.
LEMMA CleanupOrphans ==
  ASSUME OrphanInv, NEW s \in Servers,
         TakeLock(s) \/ DeleteBlob(s) \/ MoveOn(s) \/ CleanupDies(s)
  PROVE  Accounted' /\ OrphansBounded'
<1>0. cleanup \in CleanupType /\ faults \in Nat /\ BatchSize \in Nat
  BY BoundAssumption DEF OrphanInv, Inv, TypeOK, CleanupType
<1>1. /\ UNCHANGED <<configured, job, drawn, rows, expired>> /\ ids' = ids
      /\ blobs' \subseteq blobs
      /\ \A t \in Servers \ {s} : cleanup'[t] = cleanup[t]
      /\ \A i \in Jobs : (Carries(i)' <=> Carries(i)) /\ (Running(i)' <=> Running(i))
  <2>1. UNCHANGED <<configured, job, drawn, rows, expired>>
    BY DEF TakeLock, DeleteBlob, MoveOn, CleanupDies
  <2>2. blobs' \subseteq blobs
    BY DEF TakeLock, DeleteBlob, MoveOn, CleanupDies
  <2>3. \A t \in Servers \ {s} : cleanup'[t] = cleanup[t]
    BY <1>0 DEF TakeLock, DeleteBlob, MoveOn, CleanupDies, CleanupType
  <2>. QED
    BY <2>1, <2>2, <2>3 DEF ids, Carries, Running
<1>2. /\ cleanup'[s].keys \subseteq cleanup[s].keys
      /\ cleanup'[s].phase # "blobs" => cleanup'[s].keys = {}
  <2>0. cleanup[s].phase # "blobs" => cleanup[s].keys = {}
    BY DEF OrphanInv, Accounted
  <2>1. CASE DeleteBlob(s)
    BY <1>0, <2>0, <2>1 DEF DeleteBlob, CleanupType
  <2>2. CASE TakeLock(s)
    BY <1>0, <2>0, <2>2 DEF TakeLock, CleanupType
  <2>3. CASE MoveOn(s)
    BY <1>0, <2>0, <2>3 DEF MoveOn, NextTable, Done, CleanupType
  <2>4. CASE CleanupDies(s)
    BY <1>0, <2>0, <2>4 DEF CleanupDies, Done, CleanupType
  <2>. QED
    BY <2>1, <2>2, <2>3, <2>4
<1>3. /\ IsFiniteSet(cleanup[s].keys) /\ Cardinality(cleanup[s].keys) <= BatchSize
      /\ IsFiniteSet(blobs)
  BY DEF OrphanInv, Accounted
<1>4. IsFiniteSet(cleanup'[s].keys) /\ Cardinality(cleanup'[s].keys) <= BatchSize
  BY <1>0, <1>2, <1>3, FS_Subset, FS_CardinalityType
<1>5. Accounted'
  <2>1. \A i \in Jobs : Carries(i)' =>
          job'[i].at <= Len(Items[i]) /\ ~Refused(ItemAt(i))' /\ InBlob(ItemAt(i))'
    BY <1>1 DEF OrphanInv, Accounted, ItemAt, Refused, InBlob
  <2>2. \A t \in Servers : /\ cleanup'[t].phase # "blobs" => cleanup'[t].keys = {}
                           /\ IsFiniteSet(cleanup'[t].keys)
                           /\ Cardinality(cleanup'[t].keys) <= BatchSize
    BY <1>1, <1>2, <1>4 DEF OrphanInv, Accounted
  <2>3. IsFiniteSet(blobs')
    BY <1>1, <1>3, FS_Subset
  <2>. QED
    BY <1>1, <2>1, <2>2, <2>3 DEF OrphanInv, Accounted
<1>6. \A k \in Orphans' \ Orphans : k \in cleanup[s].keys /\ k \in blobs' /\ k \notin cleanup'[s].keys
  BY <1>1 DEF Orphans, InFlight
<1>7. CASE TakeLock(s) \/ MoveOn(s)
  <2>1. cleanup[s].keys = {} /\ UNCHANGED faults
    BY <1>7 DEF TakeLock, MoveOn, OrphanInv, Accounted
  <2>2. Orphans' \subseteq Orphans
    BY <1>6, <2>1
  <2>. QED
    BY <1>5, <2>1, <2>2, OrphansKept
<1>8. CASE DeleteBlob(s)
  <2>1. PICK k \in cleanup[s].keys :
          /\ cleanup' = [cleanup EXCEPT ![s].keys = @ \ {k}]
          /\ \/ blobs' = blobs \ {k} /\ UNCHANGED faults
             \/ Fault
    BY <1>8 DEF DeleteBlob
  <2>2. \A q \in Orphans' \ Orphans : q = k /\ k \in blobs'
    BY <1>0, <1>6, <2>1 DEF CleanupType
  <2>3. CASE blobs' = blobs \ {k} /\ UNCHANGED faults
    BY <1>5, <2>2, <2>3, OrphansKept
  <2>4. CASE Fault
    BY <1>5, <2>2, <2>4, OneOrphan DEF Fault
  <2>. QED
    BY <2>1, <2>3, <2>4
<1>9. CASE CleanupDies(s)
  <2>1. Orphans' \subseteq Orphans \cup cleanup[s].keys /\ faults' = faults + 1
    BY <1>6, <1>9 DEF CleanupDies, Fault
  <2>. QED
    BY <1>3, <1>5, <2>1, OrphansGrow
<1>. QED
  BY <1>7, <1>8, <1>9

LEMMA BatchIsBounded ==
  ASSUME OrphanInv, NEW table, NEW B \in Batches(table)
  PROVE  IsFiniteSet(B) /\ Cardinality(B) <= BatchSize /\ B \subseteq expired
<1>. DEFINE due == {i \in expired : RowOf(i).table = table}
<1>1. /\ B \subseteq due
      /\ Cardinality(B) = IF Cardinality(due) < BatchSize THEN Cardinality(due) ELSE BatchSize
  BY DEF Batches
<1>2. IsFiniteSet(due) /\ Cardinality(due) \in Nat
  BY FS_Subset, FS_CardinalityType DEF OrphanInv, Accounted
<1>. HIDE DEF due
<1>3. IsFiniteSet(B)
  BY <1>1, <1>2, FS_Subset
<1>4. Cardinality(B) <= BatchSize
  BY <1>1, <1>2, BoundAssumption
<1>. QED
  BY <1>1, <1>3, <1>4 DEF due

LEMMA DeleteRowsOrphans ==
  ASSUME OrphanInv, NEW s \in Servers, DeleteRows(s)
  PROVE  Accounted' /\ OrphansBounded'
<1>0. /\ cleanup \in CleanupType /\ rows \subseteq Row /\ expired \subseteq ids
      /\ BatchSize \in Nat /\ Apart
  BY BoundAssumption DEF OrphanInv, Inv, TypeOK, CleanupType, ids
<1>1. PICK B \in Batches(cleanup[s].table) :
        /\ rows' = Remaining(B) /\ expired' = expired \ B
        /\ \/ /\ cleanup' = [cleanup EXCEPT ![s].phase = "blobs", ![s].keys = Returned(B)]
              /\ UNCHANGED faults
           \/ /\ cleanup' = [cleanup EXCEPT ![s] = Done]
              /\ Fault
  BY DEF DeleteRows
<1>2. IsFiniteSet(B) /\ Cardinality(B) <= BatchSize /\ B \subseteq ids
  BY <1>0, BatchIsBounded
<1>3. /\ rows' \subseteq rows /\ ids' = ids \ B
      /\ UNCHANGED <<configured, job, drawn, blobs>>
      /\ cleanup[s].keys = {}
      /\ \A i \in Jobs : (Carries(i)' <=> Carries(i)) /\ (Running(i)' <=> Running(i))
  BY <1>1 DEF DeleteRows, Remaining, ids, OrphanInv, Accounted, Carries, Running
<1>4. /\ \A t \in Servers \ {s} : cleanup'[t] = cleanup[t]
      /\ cleanup'[s].phase # "blobs" => cleanup'[s].keys = {}
      /\ cleanup'[s].keys \subseteq B
  BY <1>0, <1>1 DEF CleanupType, Done, Returned
<1>5. IsFiniteSet(cleanup'[s].keys) /\ Cardinality(cleanup'[s].keys) <= BatchSize
  <2>1. /\ IsFiniteSet(cleanup'[s].keys)
        /\ Cardinality(cleanup'[s].keys) <= Cardinality(B)
        /\ Cardinality(B) \in Nat /\ Cardinality(cleanup'[s].keys) \in Nat
    BY <1>2, <1>4, FS_Subset, FS_CardinalityType
  <2>. QED
    BY <1>0, <1>2, <2>1
<1>6. Accounted'
  <2>1. \A i \in Jobs : Carries(i)' =>
          job'[i].at <= Len(Items[i]) /\ ~Refused(ItemAt(i))' /\ InBlob(ItemAt(i))'
    BY <1>3 DEF OrphanInv, Accounted, ItemAt, Refused, InBlob
  <2>2. \A t \in Servers : /\ cleanup'[t].phase # "blobs" => cleanup'[t].keys = {}
                           /\ IsFiniteSet(cleanup'[t].keys)
                           /\ Cardinality(cleanup'[t].keys) <= BatchSize
    BY <1>4, <1>5 DEF OrphanInv, Accounted
  <2>3. IsFiniteSet(expired')
    BY <1>1, FS_Subset DEF OrphanInv, Accounted
  <2>. QED
    BY <1>3, <2>1, <2>2, <2>3 DEF OrphanInv, Accounted
<1>7. \A k \in Orphans' \ Orphans : k \in B /\ k \in blobs /\ k \notin cleanup'[s].keys
  BY <1>3, <1>4 DEF Orphans, InFlight
<1>8. CASE Fault
  <2>1. Orphans' \subseteq Orphans \cup B
    BY <1>7
  <2>. QED
    BY <1>2, <1>6, <1>8, <2>1, OrphansGrow DEF Fault
<1>9. CASE /\ cleanup' = [cleanup EXCEPT ![s].phase = "blobs", ![s].keys = Returned(B)]
           /\ UNCHANGED faults
  <2>1. cleanup'[s].keys = Returned(B)
    BY <1>0, <1>9 DEF CleanupType
  <2>2. \A k \in B : k \in blobs => k \in Returned(B)
    <3>. SUFFICES ASSUME NEW k \in B, k \in blobs PROVE RowOf(k).blob /\ configured
      BY DEF Returned
    <3>1. PICK r \in rows : r.id = k
      BY <1>2 DEF ids
    <3>2. RowOf(k) = r
      BY <1>0, <3>1, RowOfId
    <3>. QED
      BY <1>0, <3>1, <3>2 DEF OrphanInv, Accounted, Row
  <2>3. Orphans' \subseteq Orphans
    BY <1>7, <2>1, <2>2
  <2>. QED
    BY <1>6, <1>9, <2>3, OrphansKept
<1>. QED
  BY <1>1, <1>8, <1>9

LEMMA OtherOrphans ==
  ASSUME OrphanInv, (\E i \in ids : Expire(i) \/ ReadRow(i)) \/ ReadBlob \/ UNCHANGED vars
  PROVE  Accounted' /\ OrphansBounded'
<1>1. /\ UNCHANGED <<configured, job, drawn, rows, blobs, cleanup>> /\ ids' = ids
      /\ \A i \in Jobs : (Carries(i)' <=> Carries(i)) /\ (Running(i)' <=> Running(i))
  BY DEF Expire, ReadRow, ReadBlob, vars, ids, Carries, Running
<1>2. faults' \in {faults, faults + 1}
  BY DEF Expire, ReadRow, ReadBlob, vars, Fault
<1>3. IsFiniteSet(expired')
  <2>1. IsFiniteSet(expired)
    BY DEF OrphanInv, Accounted
  <2>2. UNCHANGED expired \/ \E i : expired' = expired \cup {i}
    BY DEF Expire, ReadRow, ReadBlob, vars
  <2>. QED
    BY <2>1, <2>2, FS_AddElement
<1>4. Accounted'
  <2>1. \A i \in Jobs : Carries(i)' =>
          job'[i].at <= Len(Items[i]) /\ ~Refused(ItemAt(i))' /\ InBlob(ItemAt(i))'
    BY <1>1 DEF OrphanInv, Accounted, ItemAt, Refused, InBlob
  <2>. QED
    BY <1>1, <1>3, <2>1 DEF OrphanInv, Accounted
<1>5. Orphans' = Orphans
  BY <1>1 DEF Orphans, InFlight
<1>. QED
  BY <1>2, <1>4, <1>5, OrphansKept

LEMMA StepOrphans == OrphanInv /\ [Next]_vars => OrphanInv'
<1>. SUFFICES ASSUME OrphanInv, [Next]_vars PROVE OrphanInv'
  OBVIOUS
<1>1. Inv'
  BY StepInv DEF OrphanInv
<1>2. ASSUME NEW j \in Jobs, Persist(j) PROVE Accounted' /\ OrphansBounded'
  BY <1>2, LeaseOrphans, SettleOrphans, PutBlobOrphans, InsertRowOrphans DEF Persist
<1>3. ASSUME NEW s \in Servers, Cleanup(s) \/ CleanupDies(s) PROVE Accounted' /\ OrphansBounded'
  BY <1>3, CleanupOrphans, DeleteRowsOrphans DEF Cleanup
<1>4. Accounted' /\ OrphansBounded'
  BY <1>2, <1>3, OtherOrphans DEF Next
<1>. QED
  BY <1>1, <1>4 DEF OrphanInv

\* Without a fault no blob is left without a row, and each fault, of a worker or of retention,
\* leaves at most the blobs of one batch (persistAttachment, CleanupExpired).
THEOREM OrphansAreFew == Spec => []OrphansBounded
<1>1. OrphanInv => OrphansBounded
  BY DEF OrphanInv
<1>. QED
  BY <1>1, InitOrphans, StepOrphans, PTL DEF Spec
=============================================================================
