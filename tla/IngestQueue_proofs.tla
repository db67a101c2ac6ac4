-------------------------- MODULE IngestQueue_proofs --------------------------
(* Theorems about IngestQueue for every set of workers, Envelopes, keys and   *)
(* issues, every bound, batch size and number of attempts.                    *)
EXTENDS IngestQueue, FiniteSetTheorems, TLAPS

LEMMA ContentType ==
  ASSUME NEW e \in Envelopes
  PROVE  /\ Content[e] \in Seq(Item)
         /\ Len(Content[e]) \in Nat
         /\ \A n \in 1 .. Len(Content[e]) : Content[e][n] \in Item
BY ContentAssumption

LEMMA CurrentType ==
  ASSUME TypeOK, NEW w \in Workers, NEW kinds, AtItem(w, kinds)
  PROVE  /\ claim[w] \in Claim
         /\ Current(w) \in Item
         /\ NextItem(pos[w]) \in Nat \ {0}
         /\ NextItem(pos[w]) <= Length(claim[w]) + 1
<1>1. claim[w] \in Claim /\ claim[w].env \in Envelopes
  BY DEF TypeOK, AtItem, Claim
<1>2. pos[w] \in 1 .. Length(claim[w]) /\ Length(claim[w]) \in Nat
  BY <1>1, ContentType DEF TypeOK, AtItem, Length
<1>. QED
  BY <1>1, <1>2, ContentType DEF Current, Length, NextItem

\* What each statement makes of a job row is a job row of the same Envelope.
LEMMA LeasedRow ==
  ASSUME NEW row \in Row
  PROVE  /\ Leased(row) \in Row /\ Leased(row).env = row.env
         /\ Leased(row).state = "processing" /\ Leased(row).body = row.body
         /\ Leased(row).attempts = row.attempts + 1
<1>1. row.attempts + 1 \in Nat
  BY DEF Row
<1>2. ASSUME NEW n \in Nat
      PROVE  LET next == [row EXCEPT !.state = "processing", !.timer = "running",
                                     !.attempts = n]
             IN  /\ next \in Row /\ next.env = row.env /\ next.state = "processing"
                 /\ next.body = row.body /\ next.attempts = n
  BY Zenon DEF Row
<1>. QED
  BY <1>1, <1>2, Zenon DEF Leased

LEMMA AckedRow ==
  ASSUME NEW row \in Row
  PROVE  /\ Acked(row) \in Row /\ Acked(row).env = row.env
         /\ Acked(row).state = "completed" /\ Acked(row).body = FALSE
         /\ Acked(row).attempts = row.attempts
BY DEF Acked, Row

LEMMA NackedRow ==
  ASSUME NEW row \in Row
  PROVE  /\ Nacked(row) \in Row /\ Nacked(row).env = row.env
         /\ Nacked(row).state = "ready" /\ Nacked(row).body = row.body
         /\ Nacked(row).attempts = row.attempts
BY DEF Nacked, Row

LEMMA BuriedRow ==
  ASSUME NEW row \in Row
  PROVE  /\ Buried(row) \in Row /\ Buried(row).env = row.env
         /\ Buried(row).state = "dead" /\ Buried(row).body = row.body
         /\ Buried(row).attempts = row.attempts
BY DEF Buried, Row

(* Every variable keeps its type, under every interleaving of API, clock,     *)
(* workers and faults.                                                        *)
LEMMA InitType == Init => TypeOK
BY BoundsAssumption DEF Init, TypeOK, Row, Present, JobIds

LEMMA ClaimsType ==
  ASSUME TypeOK, NEW w \in Workers
  PROVE  /\ Claims(w) \subseteq Claim
         /\ phase[w] \in {"items", "failed"} => claim[w] \in Claims(w)
BY DEF TypeOK, Claims

\* Settling rewrites the state of one row that exists; its Envelope, its number
\* of attempts and the loss of its payload stay.
LEMMA SettleRows ==
  ASSUME TypeOK, ClaimsFaithful, NEW w \in Workers, Finishable(w), ApplySettle(w)
  PROVE  /\ claim[w].id \in JobIds /\ Present(claim[w].id)
         /\ jobs' \in [JobIds -> Row]
         /\ \A j \in JobIds : /\ Present(j)' <=> Present(j)
                              /\ jobs'[j].env = jobs[j].env
                              /\ jobs'[j].attempts = jobs[j].attempts
                              /\ ~jobs[j].body => ~jobs'[j].body
                              /\ jobs[j].body /\ ~jobs'[j].body =>
                                   Processed(w) /\ j = claim[w].id
<1>1. claim[w] \in Claim /\ claim[w] \in Claims(w)
  BY ClaimsType DEF Finishable, Processed, TypeOK
<1>2. claim[w].id \in JobIds /\ Present(claim[w].id)
  BY <1>1 DEF Claim, ClaimsFaithful
<1>3. jobs[claim[w].id] \in Row
  BY <1>2 DEF TypeOK
<1>4. /\ Settled(w, jobs[claim[w].id]) \in Row
      /\ Settled(w, jobs[claim[w].id]).env = jobs[claim[w].id].env
      /\ Settled(w, jobs[claim[w].id]).attempts = jobs[claim[w].id].attempts
      /\ Settled(w, jobs[claim[w].id]).state # "absent"
      /\ Settled(w, jobs[claim[w].id]).body =
           (IF Processed(w) THEN FALSE ELSE jobs[claim[w].id].body)
  BY <1>3, AckedRow, NackedRow, BuriedRow DEF Settled
<1>. QED
  BY <1>2, <1>3, <1>4 DEF ApplySettle, TypeOK, Present

LEMMA LeaseRows ==
  ASSUME TypeOK, ClaimsFaithful, NEW w \in Workers, Lease(w)
  PROVE  /\ LeaseBatch \subseteq JobIds
         /\ jobs' \in [JobIds -> Row]
         /\ \A j \in JobIds : /\ Present(j)' <=> Present(j)
                              /\ jobs'[j].env = jobs[j].env
                              /\ jobs'[j].body = jobs[j].body
                              /\ jobs'[j].attempts =
                                   (IF j \in LeaseBatch THEN jobs[j].attempts + 1
                                    ELSE jobs[j].attempts)
         /\ \A j \in LeaseBatch : /\ Present(j) /\ ClaimOf(j, jobs'[j]) \in Claim
<1>1. \A j \in LeaseBatch : j \in JobIds /\ Present(j) /\ jobs[j].env \in Envelopes
  BY DEF LeaseBatch, Leasable, Present, ClaimsFaithful
<1>2. \A j \in JobIds : jobs[j] \in Row
  BY DEF TypeOK
<1>3. \A j \in JobIds : jobs'[j] = IF j \in LeaseBatch THEN Leased(jobs[j]) ELSE jobs[j]
  BY DEF Lease
<1>4. jobs' \in [JobIds -> Row]
  BY <1>2, LeasedRow DEF Lease
<1>5. \A j \in JobIds : /\ Present(j)' <=> Present(j)
                        /\ jobs'[j].env = jobs[j].env
                        /\ jobs'[j].body = jobs[j].body
                        /\ jobs'[j].attempts =
                             (IF j \in LeaseBatch THEN jobs[j].attempts + 1
                              ELSE jobs[j].attempts)
  BY <1>1, <1>2, <1>3, LeasedRow DEF Present
<1>6. \A j \in LeaseBatch : ClaimOf(j, jobs'[j]) \in Claim
  BY <1>1, <1>4, <1>5 DEF ClaimOf, Claim, Row
<1>. QED
  BY <1>1, <1>4, <1>5, <1>6

LEMMA StepType == TypeOK /\ ClaimsFaithful /\ [Next]_vars => TypeOK'
<1>. SUFFICES ASSUME TypeOK, ClaimsFaithful, [Next]_vars PROVE TypeOK'
  OBVIOUS
<1>. USE DEF TypeOK, stored, worker
<1>1. ASSUME NEW e \in Envelopes, NEW j \in JobIds, Ingest(e, j) PROVE TypeOK'
  BY <1>1 DEF Ingest, Enqueued, Row, Length
<1>2. ASSUME NEW j \in JobIds, Elapse(j) PROVE TypeOK'
  BY <1>2 DEF Elapse, Row, Length
<1>3. ASSUME NEW w \in Workers, Lease(w) PROVE TypeOK'
  <2>1. jobs' \in [JobIds -> Row] /\ \A j \in LeaseBatch : ClaimOf(j, jobs'[j]) \in Claim
    BY <1>3, LeaseRows
  <2>2. batch' \in [Workers -> SUBSET Claim]
    BY <1>3, <2>1 DEF Lease
  <2>. QED
    BY <1>3, <2>1, <2>2 DEF Lease, Length
<1>4. ASSUME NEW w \in Workers, NEW c \in batch[w], Begin(w, c) PROVE TypeOK'
  <2>1. c \in Claim /\ Length(c) \in Nat
    BY ContentType DEF Claim, Length
  <2>. QED
    BY <1>4, <2>1 DEF Begin, Length
<1>5. ASSUME NEW w \in Workers, ProcessItem(w) PROVE TypeOK'
  <2>1. ASSUME NEW kinds, AtItem(w, kinds), Advance(w)
        PROVE  /\ pos' \in [Workers -> Nat \ {0}]
               /\ \A v \in Workers : phase'[v] = "items" => pos'[v] <= Length(claim'[v]) + 1
    BY <2>1, CurrentType DEF Advance, Length
  <2>2. CASE StoreEvent(w)
    <3>1. Current(w) \in Item /\ AtItem(w, {"event"}) /\ Advance(w)
      BY <2>2, CurrentType DEF StoreEvent
    <3>2. events' \subseteq [key : Keys, serial : Nat, issue : Issues] /\ count' \in [Issues -> Nat]
      BY <2>2, <3>1 DEF StoreEvent, RecordOnce, Item
    <3>. QED
      BY <2>1, <2>2, <3>1, <3>2 DEF StoreEvent, Advance
  <2>3. CASE StoreAnonymous(w)
    <3>1. Current(w) \in Item /\ AtItem(w, {"anonymous"}) /\ Advance(w)
      BY <2>3, CurrentType DEF StoreAnonymous
    <3>2. /\ events' \subseteq [key : Keys, serial : Nat, issue : Issues]
          /\ count' \in [Issues -> Nat] /\ copies' \in [Keys -> Nat]
      BY <2>3, <3>1 DEF StoreAnonymous, Item
    <3>. QED
      BY <2>1, <2>3, <3>1, <3>2 DEF Advance
  <2>4. CASE StoreRow(w)
    <3>1. Current(w) \in Item /\ AtItem(w, {"row"}) /\ Advance(w)
      BY <2>4, CurrentType DEF StoreRow
    <3>2. copies' \in [Keys -> Nat]
      BY <2>4, <3>1 DEF StoreRow, Item
    <3>. QED
      BY <2>1, <2>4, <3>1, <3>2 DEF StoreRow, Advance
  <2>5. CASE SkipItem(w)
    BY <2>1, <2>5 DEF SkipItem, Advance
  <2>6. CASE FailItem(w)
    BY <2>6 DEF FailItem, InDoubt, AtItem, Length
  <2>. QED
    BY <1>5, <2>2, <2>3, <2>4, <2>5, <2>6 DEF ProcessItem
<1>6. ASSUME NEW w \in Workers,
             Settle(w) \/ SettleError(w) \/ BuryError(w) \/ Crash(w) \/ Restart(w)
      PROVE TypeOK'
  <2>1. ASSUME Fault PROVE faults' \in 0 .. MaxFaults
    BY <2>1, BoundsAssumption DEF Fault
  <2>2. CASE Settle(w)
    BY <2>2, SettleRows DEF Settle, Length
  <2>3. CASE SettleError(w)
    <3>1. jobs' \in [JobIds -> Row]
      BY <2>3, SettleRows DEF SettleError, Finishable, Retryable
    <3>. QED
      BY <2>1, <2>3, <3>1 DEF SettleError, Halt, Length
  <2>4. CASE BuryError(w)
    BY <2>1, <2>4 DEF BuryError, Length
  <2>5. CASE Crash(w)
    BY <2>1, <2>5 DEF Crash, Halt, Length
  <2>6. CASE Restart(w)
    BY <2>6 DEF Restart, Length
  <2>. QED
    BY <1>6, <2>2, <2>3, <2>4, <2>5, <2>6
<1>7. CASE UNCHANGED vars
  BY <1>7 DEF vars, Length
<1>. QED
  BY <1>1, <1>2, <1>3, <1>4, <1>5, <1>6, <1>7 DEF Next, Step

-------------------------------------------------------------------------------
(* Claims and rows.                                                            *)

\* Only LeaseJobs gives a worker claims; every other step keeps or drops them.
LEMMA ClaimsStep ==
  ASSUME TypeOK, Next, NEW v \in Workers, ~Lease(v)
  PROVE  Claims(v)' \subseteq Claims(v)
<1>. USE DEF TypeOK, Claims, worker
<1>1. ASSUME UNCHANGED <<phase, batch, claim>> PROVE Claims(v)' \subseteq Claims(v)
  BY <1>1
<1>2. ASSUME NEW w \in Workers, Lease(w) PROVE Claims(v)' \subseteq Claims(v)
  BY <1>2 DEF Lease
<1>3. ASSUME NEW w \in Workers, NEW c \in batch[w], Begin(w, c)
      PROVE  Claims(v)' \subseteq Claims(v)
  BY <1>3 DEF Begin
<1>4. ASSUME NEW w \in Workers, ProcessItem(w) PROVE Claims(v)' \subseteq Claims(v)
  BY <1>4 DEF ProcessItem, StoreEvent, StoreAnonymous, StoreRow, SkipItem, FailItem,
              InDoubt, Advance, AtItem
<1>5. ASSUME NEW w \in Workers,
             Settle(w) \/ SettleError(w) \/ BuryError(w) \/ Crash(w) \/ Restart(w)
      PROVE  Claims(v)' \subseteq Claims(v)
  BY <1>5 DEF Settle, SettleError, BuryError, Crash, Restart, Halt
<1>. QED
  BY <1>1, <1>2, <1>3, <1>4, <1>5 DEF Next, Step, Ingest, Elapse

\* Rows are never deleted, never change Envelope and never regain a payload;
\* attempts never decreases.
LEMMA RowsStep ==
  ASSUME TypeOK, ClaimsFaithful, Next
  PROVE  \A j \in JobIds : Present(j) => /\ Present(j)'
                                         /\ jobs'[j].env = jobs[j].env
                                         /\ jobs'[j].attempts >= jobs[j].attempts
                                         /\ ~jobs[j].body => ~jobs'[j].body
<1>. DEFINE Kept == \A j \in JobIds : Present(j) =>
                      /\ Present(j)'
                      /\ jobs'[j].env = jobs[j].env
                      /\ jobs'[j].attempts >= jobs[j].attempts
                      /\ ~jobs[j].body => ~jobs'[j].body
<1>0. \A j \in JobIds : jobs[j].attempts \in Nat
  BY DEF TypeOK, Row
<1>1. ASSUME UNCHANGED jobs PROVE Kept
  BY <1>0, <1>1 DEF Present
<1>2. ASSUME NEW e \in Envelopes, NEW j \in JobIds, Ingest(e, j) PROVE Kept
  BY <1>0, <1>2 DEF Ingest, Present, TypeOK
<1>3. ASSUME NEW j \in JobIds, Elapse(j) PROVE Kept
  BY <1>0, <1>3 DEF Elapse, Present, TypeOK, Row
<1>4. ASSUME NEW w \in Workers, Lease(w) PROVE Kept
  BY <1>0, <1>4, LeaseRows
<1>5. ASSUME NEW w \in Workers, Settle(w) \/ SettleError(w) PROVE Kept
  <2>1. UNCHANGED jobs \/ (Finishable(w) /\ ApplySettle(w))
    BY <1>5 DEF Settle, SettleError, Finishable, Retryable
  <2>. QED
    BY <1>0, <1>1, <2>1, SettleRows DEF Present
<1>6. ASSUME NEW w \in Workers,
             \/ \E c \in batch[w] : Begin(w, c)
             \/ ProcessItem(w) \/ BuryError(w) \/ Crash(w) \/ Restart(w)
      PROVE  UNCHANGED jobs
  BY <1>6 DEF Begin, ProcessItem, StoreEvent, StoreAnonymous, StoreRow, SkipItem, FailItem,
              Advance, BuryError, Crash, Restart
<1>. QED
  BY <1>1, <1>2, <1>3, <1>4, <1>5, <1>6 DEF Next, Step

LEMMA FaithfulStep == TypeOK /\ ClaimsFaithful /\ [Next]_vars => ClaimsFaithful'
<1>. SUFFICES ASSUME TypeOK, ClaimsFaithful, [Next]_vars PROVE ClaimsFaithful'
  OBVIOUS
<1>1. CASE UNCHANGED vars
  BY <1>1 DEF vars, ClaimsFaithful, Claims, Present
<1>2. CASE Next
  <2>1. ASSUME NEW j \in JobIds, Present(j)' PROVE jobs'[j].env \in Envelopes
    <3>1. CASE Present(j)
      BY <1>2, <3>1, RowsStep DEF ClaimsFaithful, Present
    <3>2. CASE \E e \in Envelopes : \E k \in JobIds : Ingest(e, k)
      BY <2>1, <3>2 DEF Ingest, Enqueued, Present, ClaimsFaithful, TypeOK
    <3>3. CASE \E k \in JobIds : Elapse(k)
      BY <2>1, <3>3 DEF Elapse, Present, ClaimsFaithful, TypeOK, Row
    <3>4. CASE \E w \in Workers : Step(w) \/ SettleError(w) \/ BuryError(w) \/ Crash(w)
      <4>1. PICK w \in Workers : Step(w) \/ SettleError(w) \/ BuryError(w) \/ Crash(w)
        BY <3>4
      <4>2. \/ UNCHANGED jobs \/ Lease(w) \/ (Finishable(w) /\ ApplySettle(w))
        BY <4>1 DEF Step, Begin, ProcessItem, StoreEvent, StoreAnonymous, StoreRow, SkipItem,
                    FailItem, Advance, Settle, SettleError, Finishable, Retryable, BuryError,
                    Crash, Restart
      <4>3. Present(j)
        BY <2>1, <4>2, LeaseRows, SettleRows DEF Present
      <4>. QED
        BY <3>1, <4>3, <3>4
    <3>. QED
      BY <1>2, <3>2, <3>3, <3>4 DEF Next
  <2>2. ASSUME NEW w \in Workers, NEW c \in Claims(w)'
        PROVE  Present(c.id)' /\ c.env = jobs'[c.id].env
    <3>1. CASE c \in Claims(w)
      <4>1. c.id \in JobIds /\ Present(c.id) /\ c.env = jobs[c.id].env
        BY <3>1, ClaimsType DEF ClaimsFaithful, Claim
      <4>. QED
        BY <1>2, <4>1, RowsStep DEF Present
    <3>2. CASE Lease(w)
      <4>1. c \in batch'[w]
        BY <2>2, <3>2 DEF Lease, Claims
      <4>2. PICK j \in LeaseBatch : c = ClaimOf(j, jobs'[j])
        BY <3>2, <4>1 DEF Lease, TypeOK
      <4>. QED
        BY <3>2, <4>2, LeaseRows DEF ClaimOf
    <3>. QED
      BY <1>2, <2>2, <3>1, <3>2, ClaimsStep
  <2>. QED
    BY <2>1, <2>2 DEF ClaimsFaithful
<1>. QED
  BY <1>1, <1>2

LEMMA InitFaithful == Init => ClaimsFaithful
BY DEF Init, ClaimsFaithful, Claims, Present

\* TypeOK and ClaimsFaithful hold in every reachable state: a claim always names
\* an existing row of its Envelope, although rows are settled by id alone.
THEOREM TypeAndClaims == Spec => [](TypeOK /\ ClaimsFaithful)
<1>1. TypeOK /\ ClaimsFaithful /\ [Next]_vars => (TypeOK /\ ClaimsFaithful)'
  BY StepType, FaithfulStep
<1>. QED
  BY <1>1, InitType, InitFaithful, PTL DEF Spec

-------------------------------------------------------------------------------
(* Attempts as the identity of a lease.                                        *)

LEMMA AttemptsStep ==
  TypeOK /\ ClaimsFaithful /\ AttemptsIdentifyLease /\ [Next]_vars => AttemptsIdentifyLease'
<1>. SUFFICES ASSUME TypeOK, ClaimsFaithful, AttemptsIdentifyLease, [Next]_vars
              PROVE  AttemptsIdentifyLease'
  OBVIOUS
<1>1. CASE UNCHANGED vars
  BY <1>1 DEF vars, AttemptsIdentifyLease, Claims
<1>2. ASSUME Next, \A v \in Workers : Claims(v)' \subseteq Claims(v)
      PROVE  AttemptsIdentifyLease'
  <2>1. ASSUME NEW w \in Workers, NEW c \in Claims(w)'
        PROVE  /\ c \in Claims(w) /\ c \in Claim
               /\ c.attempts \in 1 .. jobs'[c.id].attempts
    <3>1. c \in Claims(w) /\ c \in Claim /\ c.id \in JobIds /\ Present(c.id)
      BY <1>2, <2>1, ClaimsType DEF ClaimsFaithful, Claim
    <3>2. c.attempts \in 1 .. jobs[c.id].attempts
      BY <3>1 DEF AttemptsIdentifyLease
    <3>3. jobs'[c.id].attempts >= jobs[c.id].attempts
      BY <1>2, <3>1, RowsStep
    <3>4. jobs'[c.id].attempts \in Nat /\ jobs[c.id].attempts \in Nat
      BY <3>1, StepType DEF TypeOK, Row
    <3>. QED
      BY <3>1, <3>2, <3>3, <3>4
  <2>. QED
    BY <2>1 DEF AttemptsIdentifyLease
<1>3. ASSUME NEW w \in Workers, Lease(w) PROVE AttemptsIdentifyLease'
  <2>1. ASSUME NEW v \in Workers, NEW c \in Claims(v)'
        PROVE  \/ v # w /\ c \in Claims(v) /\ c.id \in JobIds
                  /\ c.attempts \in 1 .. jobs[c.id].attempts
               \/ v = w /\ c.id \in LeaseBatch /\ c = ClaimOf(c.id, jobs'[c.id])
    <3>1. CASE v # w
      <4>1. c \in Claims(v)
        BY <1>3, <2>1, <3>1 DEF Lease, Claims, TypeOK
      <4>. QED
        BY <3>1, <4>1, ClaimsType DEF AttemptsIdentifyLease, Claim
    <3>2. CASE v = w
      <4>1. c \in batch'[w]
        BY <1>3, <2>1, <3>2 DEF Lease, Claims
      <4>. QED
        BY <1>3, <3>2, <4>1 DEF Lease, TypeOK, ClaimOf
    <3>. QED
      BY <3>1, <3>2
  <2>2. \A j \in JobIds : jobs[j].attempts \in Nat
    BY DEF TypeOK, Row
  <2>3. \A j \in LeaseBatch : /\ j \in JobIds
                              /\ ClaimOf(j, jobs'[j]).attempts = jobs[j].attempts + 1
                              /\ jobs'[j].attempts = jobs[j].attempts + 1
    BY <1>3, LeaseRows DEF ClaimOf
  <2>4. \A j \in JobIds : jobs'[j].attempts \in {jobs[j].attempts, jobs[j].attempts + 1}
    BY <1>3, LeaseRows
  <2>5. ASSUME NEW v \in Workers, NEW c \in Claims(v)'
        PROVE  c.attempts \in 1 .. jobs'[c.id].attempts
    BY <2>1, <2>2, <2>3, <2>4, <2>5
  <2>6. ASSUME NEW v \in Workers, NEW c \in Claims(v)', NEW u \in Workers, NEW d \in Claims(u)',
               d.id = c.id, d.attempts = c.attempts
        PROVE  u = v /\ d = c
    <3>1. CASE u = w /\ v = w
      BY <2>1, <2>6, <3>1
    <3>2. CASE u # w /\ v # w
      BY <2>1, <2>6, <3>2 DEF AttemptsIdentifyLease
    <3>3. CASE u = w /\ v # w
      BY <2>1, <2>2, <2>3, <2>6, <3>3
    <3>4. CASE u # w /\ v = w
      BY <2>1, <2>2, <2>3, <2>6, <3>4
    <3>. QED
      BY <3>1, <3>2, <3>3, <3>4
  <2>. QED
    BY <2>5, <2>6 DEF AttemptsIdentifyLease
<1>. QED
  BY <1>1, <1>2, <1>3, ClaimsStep

\* No two claims on one job, held by the same or by different workers, carry the
\* same attempt number: attempts would serve as a fencing token, if the settling
\* statements compared it.
THEOREM LeasesAreNumbered == Spec => []AttemptsIdentifyLease
<1>1. Init => AttemptsIdentifyLease
  BY DEF Init, AttemptsIdentifyLease, Claims
<1>. QED
  BY <1>1, AttemptsStep, TypeAndClaims, PTL DEF Spec

\* A step buries a row only on behalf of a claim whose attempts are spent, and
\* that claim is no newer than the row.
LEMMA DeadStep ==
  TypeOK /\ ClaimsFaithful /\ AttemptsIdentifyLease /\ DeadOnlyWhenExhausted /\ [Next]_vars
    => DeadOnlyWhenExhausted'
<1>. SUFFICES ASSUME TypeOK, ClaimsFaithful, AttemptsIdentifyLease, DeadOnlyWhenExhausted,
                     [Next]_vars, NEW j \in JobIds, jobs'[j].state = "dead"
              PROVE  jobs'[j].attempts >= MaxAttempts
  BY DEF DeadOnlyWhenExhausted
<1>0. /\ jobs[j] \in Row /\ jobs[j].attempts \in Nat /\ jobs'[j].attempts \in Nat
      /\ MaxAttempts \in Nat
  BY StepType, BoundsAssumption DEF TypeOK, Row
<1>1. CASE jobs[j].state = "dead"
  <2>1. jobs[j].attempts >= MaxAttempts /\ Present(j)
    BY <1>1 DEF DeadOnlyWhenExhausted, Present
  <2>2. CASE Next
    BY <1>0, <2>1, <2>2, RowsStep
  <2>3. CASE UNCHANGED vars
    BY <2>1, <2>3 DEF vars
  <2>. QED
    BY <2>2, <2>3
<1>2. CASE jobs[j].state # "dead"
  <2>1. PICK w \in Workers : Finishable(w) /\ ApplySettle(w)
    <3>1. ~UNCHANGED jobs
      BY <1>2
    <3>2. ~\E e \in Envelopes, k \in JobIds : Ingest(e, k)
      BY <1>2 DEF Ingest, Enqueued, TypeOK
    <3>3. ~\E k \in JobIds : Elapse(k)
      BY <1>2 DEF Elapse, TypeOK, Row
    <3>4. ~\E w \in Workers : Lease(w)
      BY <1>0, <1>2, LeasedRow DEF Lease
    <3>. QED
      BY <3>1, <3>2, <3>3, <3>4
      DEF Next, vars, Step, Begin, ProcessItem, StoreEvent, StoreAnonymous, StoreRow, SkipItem,
          FailItem, Advance, Settle, SettleError, Finishable, Retryable, BuryError, Crash, Restart
  <2>2. claim[w].id \in JobIds /\ claim[w] \in Claims(w) /\ claim[w] \in Claim
    BY <2>1, SettleRows, ClaimsType DEF Finishable, Processed, TypeOK
  <2>3. j = claim[w].id /\ jobs'[j] = Settled(w, jobs[j])
    BY <1>2, <2>1, <2>2 DEF ApplySettle, TypeOK
  <2>4. Exhausted(w)
    BY <1>0, <2>3, AckedRow, NackedRow DEF Settled
  <2>5. claim[w].attempts \in 1 .. jobs[j].attempts
    BY <2>2, <2>3 DEF AttemptsIdentifyLease
  <2>6. jobs'[j].attempts = jobs[j].attempts
    BY <2>1, SettleRows
  <2>. QED
    BY <1>0, <2>4, <2>5, <2>6 DEF Exhausted
<1>. QED
  BY <1>1, <1>2

\* A job is dead only after MaxAttempts leases, whichever stale workers settle it.
THEOREM DeadAreExhausted == Spec => []DeadOnlyWhenExhausted
<1>1. Init => DeadOnlyWhenExhausted
  BY DEF Init, DeadOnlyWhenExhausted
<1>. QED
  BY <1>1, DeadStep, TypeAndClaims, LeasesAreNumbered, PTL DEF Spec

-------------------------------------------------------------------------------
(* Exactly-once counting, and nothing accepted is lost.                        *)

\* What earlier items of a claim in progress have stored is still stored.
Progress ==
  \A w \in Workers : phase[w] = "items" =>
    \A n \in Identified(claim[w].env) :
      n < pos[w] => EventStored(Content[claim[w].env][n].key)

\* Random event ids are fresh: no stored serial exceeds the copies made so far.
SerialsUsed == \A ev \in events : ev.serial <= copies[ev.key]

Recorded == IsFiniteSet(events) /\ SerialsUsed /\ CountsExact

QueueInv == TypeOK /\ ClaimsFaithful /\ Recorded /\ Progress /\ NothingLost

\* Adding one new Event and charging its Issue keeps the counts exact.
LEMMA CountOne ==
  ASSUME TypeOK, IsFiniteSet(events), CountsExact,
         NEW new, new \notin events, new.issue \in Issues,
         events' = events \cup {new},
         count' = [count EXCEPT ![new.issue] = @ + 1]
  PROVE  IsFiniteSet(events') /\ CountsExact'
<1>1. IsFiniteSet(events')
  BY FS_AddElement
<1>2. ASSUME NEW i \in Issues
      PROVE  count'[i] = Cardinality({ev \in events' : ev.issue = i})
  <2>. DEFINE Of == {ev \in events : ev.issue = i}
  <2>1. IsFiniteSet(Of) /\ Cardinality(Of) = count[i] /\ count[i] \in Nat
    BY <1>2, FS_Subset DEF CountsExact, TypeOK
  <2>2. CASE i = new.issue
    <3>1. {ev \in events' : ev.issue = i} = Of \cup {new} /\ new \notin Of
      BY <2>2
    <3>2. Cardinality(Of \cup {new}) = Cardinality(Of) + 1
      BY <2>1, <3>1, FS_AddElement
    <3>. QED
      BY <2>1, <2>2, <3>1, <3>2 DEF TypeOK
  <2>3. CASE i # new.issue
    <3>1. {ev \in events' : ev.issue = i} = Of
      BY <2>3
    <3>. QED
      BY <2>1, <2>3, <3>1 DEF TypeOK
  <2>. QED
    BY <2>2, <2>3
<1>. QED
  BY <1>1, <1>2 DEF CountsExact

LEMMA RecordedStep == TypeOK /\ Recorded /\ [Next]_vars => Recorded'
<1>. SUFFICES ASSUME TypeOK, Recorded, [Next]_vars PROVE Recorded'
  OBVIOUS
<1>1. CASE UNCHANGED stored
  BY <1>1 DEF stored, Recorded, SerialsUsed, CountsExact
<1>2. ASSUME NEW w \in Workers, StoreEvent(w) PROVE Recorded'
  <2>. DEFINE new == [key |-> Current(w).key, serial |-> 0, issue |-> Current(w).issue]
  <2>1. Current(w) \in Item
    BY <1>2, CurrentType DEF StoreEvent
  <2>2. CASE EventStored(Current(w).key)
    BY <1>1, <1>2, <2>2 DEF StoreEvent, RecordOnce, stored
  <2>3. CASE ~EventStored(Current(w).key)
    <3>1. /\ new \notin events /\ new.issue \in Issues /\ new.key \in Keys
          /\ events' = events \cup {new}
          /\ count' = [count EXCEPT ![new.issue] = @ + 1]
          /\ copies' = copies
      BY <1>2, <2>1, <2>3 DEF StoreEvent, RecordOnce, EventStored, Item
    <3>2. IsFiniteSet(events') /\ CountsExact'
      BY <3>1, CountOne DEF Recorded
    <3>3. SerialsUsed'
      BY <3>1 DEF Recorded, SerialsUsed, TypeOK
    <3>. QED
      BY <3>2, <3>3 DEF Recorded
  <2>. QED
    BY <2>2, <2>3
<1>3. ASSUME NEW w \in Workers, StoreAnonymous(w) PROVE Recorded'
  <2>. DEFINE new == [key |-> Current(w).key, serial |-> copies[Current(w).key] + 1,
                      issue |-> Current(w).issue]
  <2>1. Current(w) \in Item /\ Current(w).key \in Keys /\ Current(w).issue \in Issues
    BY <1>3, CurrentType DEF StoreAnonymous, Item
  <2>2. copies[Current(w).key] \in Nat
    BY <2>1 DEF TypeOK
  <2>3. /\ new \notin events /\ new.issue \in Issues
        /\ events' = events \cup {new}
        /\ count' = [count EXCEPT ![new.issue] = @ + 1]
    BY <1>3, <2>1, <2>2 DEF StoreAnonymous, Recorded, SerialsUsed
  <2>4. IsFiniteSet(events') /\ CountsExact'
    BY <2>3, CountOne DEF Recorded
  <2>5. SerialsUsed'
    <3>1. copies' = [copies EXCEPT ![Current(w).key] = @ + 1]
      BY <1>3 DEF StoreAnonymous
    <3>2. \A ev \in events : ev.key \in Keys /\ ev.serial \in Nat /\ ev.serial <= copies[ev.key]
      BY DEF TypeOK, Recorded, SerialsUsed
    <3>3. \A k \in Keys : copies[k] \in Nat /\ copies'[k] \in Nat /\ copies'[k] >= copies[k]
      BY <2>1, <3>1 DEF TypeOK
    <3>4. new.serial <= copies'[new.key]
      BY <2>1, <2>2, <3>1 DEF TypeOK
    <3>. QED
      BY <2>3, <3>2, <3>3, <3>4 DEF SerialsUsed
  <2>. QED
    BY <2>4, <2>5 DEF Recorded
<1>4. ASSUME NEW w \in Workers, StoreRow(w) PROVE Recorded'
  <2>1. Current(w).key \in Keys
    BY <1>4, CurrentType DEF StoreRow, Item
  <2>2. copies' = [copies EXCEPT ![Current(w).key] = @ + 1] /\ UNCHANGED <<events, count>>
    BY <1>4 DEF StoreRow
  <2>3. \A ev \in events : ev.key \in Keys /\ ev.serial \in Nat /\ ev.serial <= copies[ev.key]
    BY DEF TypeOK, Recorded, SerialsUsed
  <2>4. \A k \in Keys : copies[k] \in Nat /\ copies'[k] \in Nat /\ copies'[k] >= copies[k]
    BY <2>1, <2>2 DEF TypeOK
  <2>5. SerialsUsed'
    BY <2>2, <2>3, <2>4 DEF SerialsUsed
  <2>. QED
    BY <2>2, <2>5 DEF Recorded, CountsExact
<1>5. \/ UNCHANGED stored
      \/ \E w \in Workers : StoreEvent(w) \/ StoreAnonymous(w) \/ StoreRow(w)
  BY DEF Next, Step, vars, stored, Ingest, Elapse, Lease, Begin, ProcessItem, SkipItem, FailItem,
         Settle, SettleError, BuryError, Crash, Halt, Restart
<1>. QED
  BY <1>1, <1>2, <1>3, <1>4, <1>5

LEMMA EventsGrow == Next => events \subseteq events'
<1>1. ASSUME NEW w \in Workers, ProcessItem(w) PROVE events \subseteq events'
  BY <1>1 DEF ProcessItem, StoreEvent, RecordOnce, StoreAnonymous, StoreRow, SkipItem, FailItem,
              stored
<1>2. ASSUME Next, ~\E w \in Workers : ProcessItem(w) PROVE UNCHANGED events
  BY <1>2 DEF Next, Step, stored, Ingest, Elapse, Lease, Begin, Settle, SettleError, BuryError,
              Crash, Halt, Restart
<1>. QED
  BY <1>1, <1>2

LEMMA ProgressStep == TypeOK /\ Progress /\ [Next]_vars => Progress'
<1>. SUFFICES ASSUME TypeOK, Progress, [Next]_vars PROVE Progress'
  OBVIOUS
<1>1. CASE UNCHANGED vars
  BY <1>1 DEF vars, Progress, EventStored
<1>2. CASE Next
  <2>. DEFINE StoredNext(k) == \E ev \in events' : ev.key = k /\ ev.serial = 0
  <2>1. events \subseteq events'
    BY <1>2, EventsGrow
  <2>. SUFFICES ASSUME NEW v \in Workers, phase'[v] = "items",
                       NEW n \in Identified(claim'[v].env), n < pos'[v]
                PROVE  StoredNext(Content[claim'[v].env][n].key)
    BY DEF Progress, Identified, EventStored
  <2>2. ASSUME phase'[v] = phase[v], claim'[v] = claim[v], pos'[v] = pos[v]
        PROVE  StoredNext(Content[claim'[v].env][n].key)
    BY <2>1, <2>2 DEF Progress, EventStored
  <2>3. ASSUME NEW c \in batch[v], Begin(v, c) PROVE FALSE
    BY <2>3 DEF Begin, TypeOK, Identified
  <2>4. ASSUME ProcessItem(v) PROVE StoredNext(Content[claim'[v].env][n].key)
    <3>1. ~FailItem(v)
      BY DEF FailItem, TypeOK
    <3>2. PICK kinds : AtItem(v, kinds) /\ Advance(v)
                       /\ (StoreEvent(v) \/ kinds \subseteq Kinds \ {"event"})
      BY <2>4, <3>1 DEF ProcessItem, StoreEvent, StoreAnonymous, StoreRow, SkipItem, Kinds
    <3>3. /\ phase[v] = "items" /\ claim'[v] = claim[v] /\ pos'[v] = pos[v] + 1
          /\ n \in Nat /\ pos[v] \in Nat /\ n \in Identified(claim[v].env)
      BY <3>2 DEF AtItem, Advance, NextItem, TypeOK, Identified
    <3>4. CASE n < pos[v]
      BY <2>1, <3>3, <3>4 DEF Progress, EventStored
    <3>5. CASE n = pos[v]
      <4>1. Content[claim[v].env][n].kind = "event"
        BY <3>3 DEF Identified
      <4>2. StoreEvent(v)
        BY <3>2, <3>5, <4>1 DEF AtItem
      <4>3. StoredNext(Current(v).key)
        <5>1. CASE EventStored(Current(v).key)
          BY <2>1, <5>1 DEF EventStored
        <5>2. CASE ~EventStored(Current(v).key)
          <6>. DEFINE new == [key |-> Current(v).key, serial |-> 0,
                              issue |-> Current(v).issue]
          <6>1. new \in events'
            BY <4>2, <5>2 DEF StoreEvent, RecordOnce
          <6>2. new.key = Current(v).key /\ new.serial = 0
            OBVIOUS
          <6>. QED
            BY <6>1, <6>2
        <5>. QED
          BY <5>1, <5>2
      <4>4. Content[claim'[v].env][n].key = Current(v).key
        BY <3>3, <3>5 DEF Current
      <4>. QED
        BY <4>3, <4>4
    <3>. QED
      BY <3>3, <3>4, <3>5
  <2>5. ASSUME Settle(v) \/ SettleError(v) \/ BuryError(v) \/ Crash(v) \/ Restart(v)
        PROVE  FALSE
    BY <2>5 DEF Settle, SettleError, BuryError, Crash, Restart, Halt, TypeOK
  <2>6. \/ phase'[v] = phase[v] /\ claim'[v] = claim[v] /\ pos'[v] = pos[v]
        \/ \E c \in batch[v] : Begin(v, c)
        \/ ProcessItem(v)
        \/ Settle(v) \/ SettleError(v) \/ BuryError(v) \/ Crash(v) \/ Restart(v)
    <3>1. CASE \/ \E e \in Envelopes, j \in JobIds : Ingest(e, j)
               \/ \E j \in JobIds : Elapse(j)
               \/ \E w \in Workers : Lease(w)
      BY <3>1 DEF Ingest, Elapse, Lease, worker
    <3>2. ASSUME NEW w \in Workers, w # v,
                 \/ \E c \in batch[w] : Begin(w, c)
                 \/ ProcessItem(w)
                 \/ Settle(w) \/ SettleError(w) \/ BuryError(w) \/ Crash(w) \/ Restart(w)
          PROVE  phase'[v] = phase[v] /\ claim'[v] = claim[v] /\ pos'[v] = pos[v]
      BY <3>2 DEF TypeOK, Begin, ProcessItem, StoreEvent, StoreAnonymous, StoreRow, SkipItem,
                  FailItem, Advance, Settle, SettleError, BuryError, Crash, Restart, Halt
    <3>. QED
      BY <1>2, <3>1, <3>2 DEF Next, Step
  <2>. QED
    BY <2>2, <2>3, <2>4, <2>5, <2>6
<1>. QED
  BY <1>1, <1>2

\* A row is without payload because it was before, or because a worker that has
\* processed the whole Envelope acknowledges it in this step.
LEMMA PayloadStep ==
  ASSUME TypeOK, ClaimsFaithful, Next, NEW j \in JobIds, Present(j)', ~jobs'[j].body
  PROVE  /\ Present(j)
         /\ \/ ~jobs[j].body
            \/ \E w \in Workers : Processed(w) /\ j = claim[w].id
<1>1. ASSUME UNCHANGED jobs PROVE Present(j) /\ ~jobs[j].body
  BY <1>1 DEF Present
<1>2. ASSUME NEW e \in Envelopes, NEW k \in JobIds, Ingest(e, k)
      PROVE  Present(j) /\ ~jobs[j].body
  BY <1>2 DEF Ingest, Enqueued, Present, TypeOK
<1>3. ASSUME NEW k \in JobIds, Elapse(k) PROVE Present(j) /\ ~jobs[j].body
  BY <1>3 DEF Elapse, Present, TypeOK, Row
<1>4. ASSUME NEW w \in Workers, Lease(w) PROVE Present(j) /\ ~jobs[j].body
  BY <1>4, LeaseRows DEF Present
<1>5. ASSUME NEW w \in Workers, Settle(w) \/ SettleError(w)
      PROVE  Present(j) /\ (~jobs[j].body \/ (Processed(w) /\ j = claim[w].id))
  <2>1. UNCHANGED jobs \/ (Finishable(w) /\ ApplySettle(w))
    BY <1>5 DEF Settle, SettleError, Finishable, Retryable
  <2>2. CASE Finishable(w) /\ ApplySettle(w)
    <3>1. Present(j)
      BY <2>2, SettleRows DEF Present
    <3>2. jobs[j].body /\ ~jobs'[j].body => Processed(w) /\ j = claim[w].id
      BY <2>2, SettleRows, Zenon
    <3>. QED
      BY <3>1, <3>2
  <2>. QED
    BY <1>1, <2>1, <2>2
<1>6. ASSUME NEW w \in Workers,
             \/ \E c \in batch[w] : Begin(w, c)
             \/ ProcessItem(w) \/ BuryError(w) \/ Crash(w) \/ Restart(w)
      PROVE  UNCHANGED jobs
  BY <1>6 DEF Begin, ProcessItem, StoreEvent, StoreAnonymous, StoreRow, SkipItem, FailItem,
              Advance, BuryError, Crash, Restart
<1>. QED
  BY <1>1, <1>2, <1>3, <1>4, <1>5, <1>6 DEF Next, Step

\* A processed claim stands for an Envelope all of whose identified Events are stored.
LEMMA ProcessedStored ==
  ASSUME TypeOK, ClaimsFaithful, Progress, NEW w \in Workers, Processed(w)
  PROVE  /\ Present(claim[w].id) /\ claim[w].id \in JobIds
         /\ jobs[claim[w].id].env = claim[w].env
         /\ \A n \in Identified(claim[w].env) : EventStored(Content[claim[w].env][n].key)
<1>1. claim[w] \in Claim /\ claim[w] \in Claims(w) /\ phase[w] = "items"
  BY ClaimsType DEF Processed, TypeOK
<1>2. claim[w].env \in Envelopes /\ Length(claim[w]) \in Nat
  BY <1>1, ContentType DEF Claim, Length
<1>3. \A n \in Identified(claim[w].env) : n < pos[w]
  BY <1>1, <1>2 DEF Identified, Processed, Length
<1>. QED
  BY <1>1, <1>3 DEF Claim, ClaimsFaithful, Progress

LEMMA NothingLostStep ==
  TypeOK /\ ClaimsFaithful /\ Progress /\ NothingLost /\ [Next]_vars => NothingLost'
<1>. SUFFICES ASSUME TypeOK, ClaimsFaithful, Progress, NothingLost, [Next]_vars
              PROVE  NothingLost'
  OBVIOUS
<1>1. CASE UNCHANGED vars
  BY <1>1 DEF vars, NothingLost, Present, EventStored
<1>2. CASE Next
  <2>. DEFINE StoredNext(k) == \E ev \in events' : ev.key = k /\ ev.serial = 0
  <2>1. ASSUME NEW j \in JobIds, Present(j)', ~jobs'[j].body
        PROVE  \A n \in Identified(jobs'[j].env) : StoredNext(Content[jobs'[j].env][n].key)
    <3>1. Present(j) /\ (~jobs[j].body \/ \E w \in Workers : Processed(w) /\ j = claim[w].id)
      BY <1>2, <2>1, PayloadStep
    <3>2. jobs'[j].env = jobs[j].env
      BY <1>2, <3>1, RowsStep
    <3>3. \A n \in Identified(jobs[j].env) : EventStored(Content[jobs[j].env][n].key)
      BY <3>1, ProcessedStored DEF NothingLost
    <3>4. \A n \in Identified(jobs[j].env) : StoredNext(Content[jobs[j].env][n].key)
      BY <1>2, <3>3, EventsGrow DEF EventStored
    <3>. QED
      BY <3>2, <3>4
  <2>. QED
    BY <2>1 DEF NothingLost, Identified, EventStored
<1>. QED
  BY <1>1, <1>2

LEMMA InitQueueInv == Init => QueueInv
<1>. SUFFICES ASSUME Init PROVE QueueInv
  OBVIOUS
<1>1. Recorded
  <2>1. \A i \in Issues : {ev \in events : ev.issue = i} = {}
    BY DEF Init
  <2>. QED
    BY <2>1, FS_EmptySet DEF Init, Recorded, SerialsUsed, CountsExact
<1>2. Progress /\ NothingLost
  BY DEF Init, Progress, NothingLost, Present
<1>. QED
  BY <1>1, <1>2, InitType, InitFaithful DEF QueueInv

\* The inductive invariant holds in every reachable state: types, faithful claims,
\* exact counts, progress of each claim in hand and payloads kept while needed.
THEOREM QueueInvariant == Spec => []QueueInv
<1>1. QueueInv /\ [Next]_vars => QueueInv'
  BY StepType, FaithfulStep, RecordedStep, ProgressStep, NothingLostStep DEF QueueInv
<1>. QED
  BY <1>1, InitQueueInv, PTL DEF Spec

\* However many workers process a payload, however often and however late, an
\* Issue's count is the number of its Events.
THEOREM CountingIsExact == Spec => []CountsExact
<1>1. QueueInv => CountsExact
  BY DEF QueueInv, Recorded
<1>. QED
  BY <1>1, QueueInvariant, PTL

\* A payload is given up only when all its identified Events are stored.
THEOREM AcceptedIsNotLost == Spec => []NothingLost
<1>1. QueueInv => NothingLost
  BY DEF QueueInv
<1>. QED
  BY <1>1, QueueInvariant, PTL

-------------------------------------------------------------------------------
(* Refinement: the queue implements EventLedger.                               *)

Accepted == {j \in JobIds : Present(j)}
Offered  == [j \in JobIds |-> IF Present(j) THEN Offers(jobs[j].env) ELSE {}]
Done     == {j \in JobIds : Present(j) /\ ~jobs[j].body}

LEMMA LedgerInit == Init => Ledger!Init
BY DEF Init, Ledger!Init, Present

\* Steps that leave rows present, their Envelopes and their payloads alone are
\* invisible to the ledger as far as deliveries are concerned.
LEMMA RowsInvisible ==
  ASSUME \A j \in JobIds : /\ Present(j)' <=> Present(j)
                           /\ jobs'[j].env = jobs[j].env
                           /\ jobs'[j].body = jobs[j].body
  PROVE  Accepted' = Accepted /\ Offered' = Offered /\ Done' = Done
<1>1. Accepted' = Accepted
  BY DEF Accepted
<1>2. Offered' = Offered
  BY DEF Offered, Offers
<1>3. Done' = Done
  BY DEF Done
<1>. QED
  BY <1>1, <1>2, <1>3

LEMMA LedgerAccept ==
  ASSUME TypeOK, NEW e \in Envelopes, NEW j \in JobIds, Ingest(e, j)
  PROVE  Ledger!Accept(j, Offers(e))
<1>1. \A k \in JobIds : k # j => /\ Present(k)' <=> Present(k)
                                 /\ jobs'[k].env = jobs[k].env
                                 /\ jobs'[k].body = jobs[k].body
  BY DEF Ingest, Present, TypeOK
<1>2. ~Present(j) /\ Present(j)' /\ jobs'[j].env = e /\ jobs'[j].body
  BY DEF Ingest, Enqueued, Present, TypeOK
<1>3. Accepted' = Accepted \cup {j}
  BY <1>1, <1>2 DEF Accepted
<1>4. Offered' = [Offered EXCEPT ![j] = Offers(e)]
  <2>1. Offered' = [k \in JobIds |-> IF Present(k)' THEN Offers(jobs'[k].env) ELSE {}]
    BY DEF Offered, Offers
  <2>2. Offered = [k \in JobIds |-> IF Present(k) THEN Offers(jobs[k].env) ELSE {}]
    BY DEF Offered
  <2>3. \A k \in JobIds : Offered'[k] = IF k = j THEN Offers(e) ELSE Offered[k]
    BY <1>1, <1>2, <2>1, <2>2
  <2>. QED
    BY <2>1, <2>2, <2>3
<1>5. Done' = Done
  BY <1>1, <1>2 DEF Done
<1>. QED
  BY <1>2, <1>3, <1>4, <1>5
  DEF Ledger!Accept, Ingest, stored, Accepted, Offered, Done

\* Each item of a claim in hand is one its delivery offered.
LEMMA CurrentOffered ==
  ASSUME TypeOK, ClaimsFaithful, NEW w \in Workers, NEW kinds, AtItem(w, kinds)
  PROVE  /\ claim[w].id \in JobIds /\ Present(claim[w].id)
         /\ Current(w) \in Offers(jobs[claim[w].id].env)
         /\ Current(w).kind \in kinds
<1>1. claim[w] \in Claim /\ claim[w] \in Claims(w)
  BY ClaimsType DEF AtItem, TypeOK
<1>2. /\ claim[w].id \in JobIds /\ Present(claim[w].id)
      /\ jobs[claim[w].id].env = claim[w].env
  BY <1>1 DEF Claim, ClaimsFaithful
<1>3. pos[w] \in 1 .. Len(Content[claim[w].env])
  BY <1>1, ContentType DEF AtItem, TypeOK, Length, Claim
<1>. QED
  BY <1>2, <1>3 DEF Offers, Current, AtItem

LEMMA LedgerProcess ==
  ASSUME TypeOK, ClaimsFaithful, NEW w \in Workers, ProcessItem(w)
  PROVE  \/ \E d \in JobIds : \E o \in Offered[d] :
              Ledger!RecordNamed(o) \/ Ledger!RecordUnnamed(o) \/ Ledger!StoreRow(o)
         \/ UNCHANGED <<Accepted, Offered, Done, events, count, copies>>
<1>1. UNCHANGED jobs
  BY DEF ProcessItem, StoreEvent, StoreAnonymous, StoreRow, SkipItem, FailItem, Advance
<1>2. Accepted' = Accepted /\ Offered' = Offered /\ Done' = Done
  BY <1>1, RowsInvisible DEF Present
<1>3. CASE SkipItem(w) \/ FailItem(w) \/ (StoreEvent(w) /\ EventStored(Current(w).key))
  BY <1>2, <1>3 DEF SkipItem, FailItem, StoreEvent, RecordOnce, stored
<1>4. ASSUME NEW kinds, AtItem(w, kinds)
      PROVE  /\ claim[w].id \in JobIds
             /\ Current(w) \in Offered[claim[w].id] /\ Current(w).kind \in kinds
  BY <1>4, CurrentOffered DEF Offered
<1>5. CASE StoreEvent(w) /\ ~EventStored(Current(w).key)
  <2>1. AtItem(w, {"event"})
    BY <1>5 DEF StoreEvent
  <2>2. /\ claim[w].id \in JobIds /\ Current(w) \in Offered[claim[w].id]
        /\ Current(w).kind = "event"
    BY <1>4, <2>1
  <2>3. Ledger!RecordNamed(Current(w))
    BY <1>2, <2>2, <1>5 DEF StoreEvent, RecordOnce, EventStored, Ledger!RecordNamed, Ledger!Record,
       Ledger!Recorded, Accepted, Offered, Done
  <2>. QED
    BY <2>2, <2>3
<1>6. CASE StoreAnonymous(w)
  <2>1. AtItem(w, {"anonymous"})
    BY <1>6 DEF StoreAnonymous
  <2>2. /\ claim[w].id \in JobIds /\ Current(w) \in Offered[claim[w].id]
        /\ Current(w).kind = "anonymous"
    BY <1>4, <2>1
  <2>3. Ledger!RecordUnnamed(Current(w))
    BY <1>2, <2>2, <1>6 DEF StoreAnonymous, Ledger!RecordUnnamed, Ledger!Record,
       Accepted, Offered, Done
  <2>. QED
    BY <2>2, <2>3
<1>7. CASE StoreRow(w)
  <2>1. AtItem(w, {"row"})
    BY <1>7 DEF StoreRow
  <2>2. /\ claim[w].id \in JobIds /\ Current(w) \in Offered[claim[w].id]
        /\ Current(w).kind = "row"
    BY <1>4, <2>1
  <2>3. Ledger!StoreRow(Current(w))
    BY <1>2, <2>2, <1>7 DEF StoreRow, Ledger!StoreRow, Accepted, Offered, Done
  <2>. QED
    BY <2>2, <2>3
<1>. QED
  BY <1>3, <1>5, <1>6, <1>7 DEF ProcessItem

LEMMA LedgerSettle ==
  ASSUME TypeOK, ClaimsFaithful, Progress, NEW w \in Workers,
         Finishable(w), ApplySettle(w), UNCHANGED stored
  PROVE  \/ \E d \in JobIds : Ledger!Finish(d)
         \/ UNCHANGED <<Accepted, Offered, Done, events, count, copies>>
<1>1. \A j \in JobIds : /\ Present(j)' <=> Present(j)
                        /\ jobs'[j].env = jobs[j].env
                        /\ jobs[j] \in Row /\ jobs'[j] \in Row
  BY SettleRows DEF TypeOK
<1>2. \A j \in JobIds : /\ ~jobs[j].body => ~jobs'[j].body
                        /\ jobs[j].body /\ ~jobs'[j].body => Processed(w) /\ j = claim[w].id
  BY SettleRows, Zenon
<1>3. CASE \A j \in JobIds : jobs'[j].body = jobs[j].body
  BY <1>1, <1>3, RowsInvisible DEF stored
<1>4. CASE \E j \in JobIds : jobs'[j].body # jobs[j].body
  <2>1. PICK j \in JobIds : jobs'[j].body # jobs[j].body
    BY <1>4
  <2>2. jobs[j].body \in BOOLEAN /\ jobs'[j].body \in BOOLEAN
    BY <1>1 DEF Row
  <2>3. jobs[j].body /\ ~jobs'[j].body /\ Processed(w) /\ j = claim[w].id
    BY <1>2, <2>1, <2>2
  <2>4. \A k \in JobIds : k # j => (jobs[k].body <=> jobs'[k].body)
    BY <1>2, <2>3
  <2>5. Accepted' = Accepted
    BY <1>1 DEF Accepted
  <2>6. Offered' = Offered
    BY <1>1 DEF Offered, Offers
  <2>7. Present(j) /\ \A n \in Identified(jobs[j].env) : EventStored(Content[jobs[j].env][n].key)
    BY <2>3, ProcessedStored
  <2>8. Done' = Done \cup {j} /\ j \in Accepted \ Done
    BY <1>1, <2>3, <2>4, <2>7 DEF Done, Accepted
  <2>9. \A o \in Offered[j] : o.kind = "event" => EventStored(o.key)
    BY <2>7 DEF Offered, Offers, Identified
  <2>10. Ledger!Finish(j)
    BY <2>5, <2>6, <2>8, <2>9 DEF Ledger!Finish, Ledger!Recorded, EventStored, stored,
       Accepted, Offered, Done
  <2>. QED
    BY <2>10
<1>. QED
  BY <1>3, <1>4

LEMMA LedgerStep == QueueInv /\ [Next]_vars => [Ledger!Next]_(Ledger!vars)
<1>. SUFFICES ASSUME QueueInv, [Next]_vars PROVE [Ledger!Next]_(Ledger!vars)
  OBVIOUS
<1>. USE DEF QueueInv
<1>0. ASSUME UNCHANGED <<Accepted, Offered, Done, events, count, copies>>
      PROVE  UNCHANGED Ledger!vars
  BY <1>0 DEF Ledger!vars, Accepted, Offered, Done
<1>1. CASE UNCHANGED vars
  <2>1. UNCHANGED <<Accepted, Offered, Done>>
    BY <1>1, RowsInvisible DEF vars, Present
  <2>. QED
    BY <1>0, <1>1, <2>1 DEF vars
<1>2. ASSUME NEW e \in Envelopes, NEW j \in JobIds, Ingest(e, j) PROVE Ledger!Next
  BY <1>2, LedgerAccept DEF Ledger!Next
<1>3. ASSUME NEW w \in Workers, ProcessItem(w) PROVE [Ledger!Next]_(Ledger!vars)
  <2>1. CASE \E d \in JobIds : \E o \in Offered[d] :
               Ledger!RecordNamed(o) \/ Ledger!RecordUnnamed(o) \/ Ledger!StoreRow(o)
    BY <2>1 DEF Ledger!Next, Offered
  <2>. QED
    BY <1>0, <1>3, <2>1, LedgerProcess
<1>4. ASSUME NEW w \in Workers, Settle(w) \/ SettleError(w) PROVE [Ledger!Next]_(Ledger!vars)
  <2>1. /\ UNCHANGED stored
        /\ UNCHANGED jobs \/ (Finishable(w) /\ ApplySettle(w))
    BY <1>4 DEF Settle, SettleError, Halt, Finishable, Retryable, stored
  <2>2. CASE UNCHANGED jobs
    BY <1>0, <2>1, <2>2, RowsInvisible DEF stored, Present
  <2>3. CASE Finishable(w) /\ ApplySettle(w)
    BY <1>0, <2>1, <2>3, LedgerSettle DEF Ledger!Next
  <2>. QED
    BY <2>1, <2>2, <2>3
<1>5. ASSUME \/ \E j \in JobIds : Elapse(j)
             \/ \E w \in Workers : Lease(w)
             \/ \E w \in Workers : \E c \in batch[w] : Begin(w, c)
             \/ \E w \in Workers : BuryError(w) \/ Crash(w) \/ Restart(w)
      PROVE  UNCHANGED Ledger!vars
  <2>1. UNCHANGED stored
    BY <1>5 DEF Elapse, Lease, Begin, BuryError, Crash, Restart, Halt, stored
  <2>2. \A j \in JobIds : /\ Present(j)' <=> Present(j)
                          /\ jobs'[j].env = jobs[j].env
                          /\ jobs'[j].body = jobs[j].body
    <3>1. CASE \E j \in JobIds : Elapse(j)
      BY <3>1 DEF Elapse, Present, TypeOK, Row
    <3>2. CASE \E w \in Workers : Lease(w)
      BY <3>2, LeaseRows
    <3>. QED
      BY <1>5, <3>1, <3>2 DEF Begin, BuryError, Crash, Restart, Present
  <2>. QED
    BY <1>0, <2>1, <2>2, RowsInvisible DEF stored
<1>. QED
  BY <1>1, <1>2, <1>3, <1>4, <1>5 DEF Next, Step

\* Every behaviour of the queue, with any number of workers, lost leases, crashes,
\* duplicate deliveries and stale settling statements, is a behaviour of the ledger.
THEOREM QueueImplementsLedger == Spec => ImplementsLedger
<1>. QED
  BY LedgerInit, LedgerStep, QueueInvariant, PTL DEF Spec, ImplementsLedger, Ledger!Spec
=============================================================================
