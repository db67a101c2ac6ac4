# Formal models of SentryX (crocuta)

TLA+ models of the Go program in `src/` of the repository: an error-tracking
server that accepts Sentry Envelopes over HTTP, queues them in PostgreSQL,
aggregates their events into Issues, symbolicates, alerts, and mirrors traffic
through a relay. Paths below are relative to the repository's `src/`.

Tools: `tlc -workers 2 -config X.cfg M.tla` checks a run, `tlapm M.tla` the
proofs of a module. `PROJECT.json` lists components, runs, mutants (a plausible bug
per property that the run must refute), the map from definitions to source
lines, findings, hazards and theorems.

## 1. Inventory

| Component (files) | State it keeps | Operations | What is hard | What makes it correct |
|---|---|---|---|---|
| Ingest API (`app.go:306-578`, `cmd/sentryx-server`) | none of its own; tokens, rate limiter | authenticate, limit, scrub, `Store.Ingest` | order of checks, which errors are 4xx | nothing refused is stored; nothing answered 200 is lost |
| Durable queue and workers (`postgres.go`, `worker.go`) | `sentryx_ingest_jobs`; each worker's scanned batch | `EnqueueEnvelope`, `LeaseJobs`, `processPayload`, `AckJob`, `NackJob`, dead | leases that run out, settling by id alone, crashes between statements, retries | counts exact, nothing lost, every job settles |
| Issues and grouping (`postgres.go:178-271`, `app.go:642-718,1386-1527`) | `sentryx_issues`, `sentryx_grouping_hashes`, `sentryx_issue_users` | look up, create or bump, reopen (regression), set status | the lookup runs outside the transaction; two grouping versions | one Issue per group, users and count agree with their rows |
| Retention (`worker.go:173-332`) | all tables and the blob store | batched deletes, blob deletes, recount of users | rows and blobs are deleted apart; a crash between; races with ingest | no row without its blob, users recounted |
| Alerts (`alerts.go`, `features.go:733-766`) | rules, notification attempts | evaluate, deliver, record, retry, cool down | delivery precedes its record; several servers evaluate | at most one delivery per cooldown, retries bounded |
| Control plane (`control.go`, `postgres_control.go`, `control_api.go`) | organizations, teams, projects, keys | create, ensure, revoke, validate | check-then-act without a transaction; "no key at all" admits any key | a last key goes only by a race, verdicts are those of one moment |
| Relay and mirror (`relay.go`, `mirror_spool.go`) | 32 mirror slots, a directory of spooled requests | forward, mirror, spool, replay | two upstreams, partial failure, replay concurrent with save | no accepted request is withheld from the mirror for ever |
| Rate limiter (`security.go`) | a window per project | `Allow`, clean-up at 10000 entries | a full table clears every window | at most `limit` per window |
| Artifacts and source maps (`sourcemap.go`, `blob.go`) | metadata rows, blobs, a parsed-map cache per process | upload, look up, delete, decode | two stores and a cache per process | a deleted artifact is not used; a stored one is found |
| Queries (`features.go:238-372`, `postgres.go:346-511`, `cmd/sentryx-reconcile`) | cursors held by clients | list Issues and Events by page | rows move between pages | every row that stays is listed once; paging ends |
| PII and item policy (`pii.go`, `item_policy.go`) | none | scrub, accept or drop an item, rebuild the Envelope | lengths; an Envelope is read and rebuilt several times on its way | the worker reads the items the client meant |
| Grouping shadow tool (`cmd/sentryx-groupctl`) | none | replay of stored events | pure | - |
| UI (`ui/`), e2e scripts | browser state | - | - | not modelled |

How they interact. A client posts an Envelope to the relay, which sends it to
the primary server and copies it to the mirror, or to the API directly. The API
role inserts it into the queue table and answers 200. Any number of worker
loops, as processes of their own (`-role=worker`) or one goroutine of an
`-role=all` server, lease rows, process their items, each in statements of its
own, and settle the row. Every worker process also runs retention (hourly, under
an advisory lock) and alert evaluation (every 30 s, under another). The API
reads and edits Issues, rules, keys and artifacts concurrently with all of that.
PostgreSQL and the blob store are the only shared state.

## 2. Modules

| Module | Models | State |
|---|---|---|
| `EventLedger` | what ingestion promises, without queue or workers | abstract specification |
| `IngestQueue` | queue table, workers, Events, Issue counts, side rows | written, checked, proved |
| `MCIngestQueue` | its instances for TLC | |
| `IngestQueue_proofs` | its theorems | |
| `AlertEvaluator` | alert evaluations of several servers, webhooks, attempt records | written, checked, proved |
| `AlertEvaluator_proofs` | its theorems | |
| `MCAlertEvaluator` | its instances for TLC | |
| `RelayMirror` | the relay's mirror copies, the spool directory and its replay | written, checked, proved |
| `RelayMirror_proofs` | its theorems | |
| `MCRelayMirror` | its instances for TLC | |
| `IssueLedger` | what is promised of Events, Issues and hashes, without workers, lookups or transactions | abstract specification |
| `IssueAggregation` | from Events to Issues: lookup, transaction, status, retention of events and users | written, checked, proved |
| `IssueAggregation_proofs` | its theorems, and that of `EventPath`: which Events are one Issue | |
| `MCIssueAggregation` | its instances for TLC | |
| `ProjectKeys` | which requests are admitted by their key, while keys and projects come and go | written, checked, proved |
| `MCProjectKeys` | its instances for TLC | |
| `RateLimiter` | the fixed-window limiter of one server | written, checked, proved |
| `MCRateLimiter` | its instances for TLC | |
| `Admission_proofs` | the theorems of `ProjectKeys` and `RateLimiter`, the two gates `handleAPI` puts a request through before its body | |
| `Artifacts` | source maps: two stores, a cache per process, uploads, deletions and lookups | written, checked, proved |
| `Artifacts_proofs` | its theorems | |
| `MCArtifacts` | its instances for TLC | |
| `Pagination` | listings by pages, in both stores, while rows change | written, checked, proved |
| `Pagination_proofs` | its theorems | |
| `BlobRetention` | attachments and signals, their blobs, retention and downloads | written, checked, proved |
| `BlobRetention_proofs` | its theorems | |
| `MCBlobRetention` | its instance for TLC | |
| `Envelope` | parsing, scrubbing and filtering of a body (operators) | written, checked through `EventPath` |
| `SourceMaps` | decoding of mappings and the original position of a frame (operators) | written, checked through `EventPath` |
| `Grouping` | the hash of an Event in both versions (operators) | written, checked through `EventPath` |
| `EventPath` | one Envelope through relay, server and worker while maps are uploaded | written, checked, its grouping proved; composes the three above |
| `MCEventPath` | its instance for TLC | |

### Plan for what is left, in order

1. Deletion of rows by retention during a listing, in `Pagination`, and the two
   listings `sentryx-reconcile` compares.
2. Editing of alert rules during an evaluation and one outcome per webhook, in
   `AlertEvaluator`.
3. The replay of `sentryx-groupctl` over `Grouping`.

Abstract specifications worth stating: `EventLedger` and `IssueLedger` (done); the whole list at one moment, for
`Pagination` without changes.

## 3. IngestQueue

`jobs` is `sentryx_ingest_jobs`; a row's `timer` stands for `available_at` (state
ready) or `lease_until` (state processing) compared with `now()`: `running` is in
the future, `elapsed` is past, `none` is NULL. Any running timer may elapse at any
moment (`Elapse`), so every relation between lease length, backoff and processing
time is covered. `body` says that `payload` is not NULL. `events` and `count` are
`sentryx_events` and `sentryx_issues.count`; `copies` counts rows that carry no
idempotency key: client reports, attachments, signals, and events without
`event_id`, to which `decodeEvent` gives a random id anew at each processing.
Each worker has a `phase`, the `batch` it scanned, the `claim` in hand and the
`pos` of its next item. A claim is the copy of the row `LeaseJobs` scanned.

One action is one statement or transaction. `LeaseJobs` is atomic (one UPDATE).
A batch is processed in any order, since RETURNING promises none. `StoreEvent`
is the transaction of `postgres.go:178-252`: the Issue is counted first, and the
rollback on a duplicate undoes it. `FailItem` stops a claim at an item, or after
one whose commit took effect and still reported an error. `Settle` writes the row
with the claim's id whatever has become of it. `SettleError` is an AckJob or
NackJob that fails, with or without effect: `RunWorker` returns, the process of a
`-role=worker` exits (`exited`), the goroutine of `-role=all` is gone
(`stopped`). `Crash` may hit anywhere; `Restart` is the supervisor.

Abstracted: the content of an Envelope to a sequence of items with a kind, a key
and the Issue they group into (how it finds its Issue is `IssueAggregation`); the
backoff to a timer; the hourly tag rows and users of an Issue, which commit in the
same transaction as the count. Left out: the synchronous path of
`PostgresStore.Ingest`, which no server role uses (`main.go:50-52` sets `Async`).

### Runs

| Run | Question | Bounds |
|---|---|---|
| `queue_two_jobs` | do two deliveries of one event, processed twice at once by two workers, count once? | 2 jobs, 2 workers (symmetric), batches of 2, 2 attempts, no fault |
| `queue_crash` | does anything go wrong with failures, does the queue implement `EventLedger`, does every accepted job settle for good? | 1 job of 3 kinds, 2 workers (one embedded), 2 faults, 3 attempts |

Two workers are enough to hold one row under two leases, two jobs to share an
event, two attempts to reach `dead` by a stale and by a current worker; the three
Envelopes hold an identified and an unidentified event, a row, an ignored item, an
item that never stores, and the same event three times. Deadlock is not checked:
with every job settled and no further delivery the bounded system stops.

Fairness: time passes (`Elapse`), and a worker loop or supervisor that can act
does (`Step`: lease, begin, process, settle, restart). No client need send and no
statement need succeed: `FailItem` satisfies the fairness of `Step`, so the
liveness result covers jobs whose every attempt fails. Faults are bounded, as
"finitely many crashes" must be for any job to settle. An embedded worker that a
failing statement has stopped is not started again: `EventuallySettled` holds
because the worker of the other process settles what it leaves (one alone would
not, see the findings).

### What is proved

`IngestQueue_proofs`, for all constants that meet the three assumptions (`Content`
well typed, `Embedded` a subset of `Workers`, bounds natural numbers):

* `TypeAndClaims`: `TypeOK` with `ClaimsFaithful` (a claim names an existing row
  and the Envelope that row still holds), which makes it inductive: without it
  settling could write outside the table.
* `LeasesAreNumbered`: `AttemptsIdentifyLease`. Leasing increments and nothing
  resets `attempts`, so a new claim's number is above every older one.
* `DeadAreExhausted`: `DeadOnlyWhenExhausted`, from the order between the attempts of a
  claim and of its row.
* `CountingIsExact`: `CountsExact`. It needs events to be finite and the serial of
  an unidentified event never to exceed `copies`, so that a new one is new.
* `AcceptedIsNotLost`: `NothingLost`, from the strengthening that a worker at item
  `pos` has stored every identified event before it (`Progress`).
* `QueueImplementsLedger`: `Spec => Ledger!Spec` under the mapping at the end of
  `IngestQueue`: a statement that stores maps to a recording step, the first
  settling that drops the payload to `Finish`, everything else to a stutter.

Only model-checked: `EventuallySettled`, as liveness and fairness are outside the
prover's reach. Of the other modules, sections 4 to 12 say what is proved. With TLC stay the liveness
properties (`SpoolDrains`, `ExpiredReclaimed`, `ListingEnds`) and of `EventPath` all but
`BuildsGroupTogether`: that a body is parsed and rebuilt to what was meant, and a map decoded to
what was encoded, are inductions over its lines.

## 4. AlertEvaluator

Every worker process calls `EvaluateAlerts` each 30 s; the clock counts such ticks
and an evaluation keeps in `ev` what the call keeps in local variables: `now`,
taken once, the index of the rule, the Issues still to consider and the outcome
of the webhooks. `note` is `sentryx_alert_notification_state`, `holder` the session
with the advisory lock, `log` a history of webhook rounds that the properties
read and no action does. `Begin` takes the lock and reads the rules, `Query` is
`alertCandidates`, `Consider` reads the state of one Issue (`alertInCooldown`; a
failing read counts as not cooling down), `Send` posts the webhooks, `Record` is
`recordAlertAttempt`, which may fail. `LoseSession` ends the session of the lock
while the evaluation, whose statements run on other connections of the pool, goes
on; `Crash` ends the process. `Arrive` and `Resolve` are what ingestion and
the API do to an Issue, as far as conditions look at it.

`alert_rules` checks, for a rule table with a `new_issue`, a `count` or a
`regression` rule, two servers and one fault, that an Issue is notified once per
`new_issue` rule plus once per fault (`FiresOncePerFault`), that without faults the
rounds of a rule and Issue keep the cooldown and the doubling delays
(`SpacedWithoutFault`), that each fault costs at most two early deliveries
(`CooldownPerFault`: one of the overlapping evaluation and one because its record
puts `last_notified_at` back), and that the table never invents a delivery or a
failure and without faults misses none: a row has the last attempt, the last delivery
and exactly the failures since it (`RecordsAreTrue`). Bounds: one Issue and one rule at a time, since rules and Issues
share no state but the lock; four ticks, so that a cooldown of two runs out within
the run and a third attempt after two failures comes in time to be judged; an hour of four
ticks, never reached by two failures.

No fairness is assumed: nothing promises that an alert is delivered.

`AlertEvaluator_proofs` proves the four properties for any servers, Issues, rules, clock and
number of faults, from `EvaluatorAssumption` and `NoOneAssumption` (the free lock belongs to
no server). A step can only be judged for one rule and Issue at a time, so lemma `Steps` first
shows that each step is, as a rule `i` and an Issue `j` see it, one of eight: the table drifts,
an evaluation joins, starts on the pair, posts, writes, forgets, leaves, or the lock goes. What
makes the properties inductive is an account in which a fault is the currency: `FiresAtMost`
says that the deliveries made, and those that evaluations in the middle of the pair may still
make, are at most the faults and one; `CoolsAtMost` that the early rounds so far and those to be expected
cost at most two per fault; `SpacedSoFar` that without a fault the table tells the whole truth about the
last round, so that `InCooldown` decides by it; `RecordsTrue` that the table and what an evaluation is
about to write are covered by the log. `Base` adds who holds the lock (`Placed`) and that he began
last (`Latest`). TLC has checked this `Inv` on the instance of `alert_rules` too.

## 5. RelayMirror

A request has a copy (`copy`), made by a goroutine the handler starts before it
asks the primary if one of the slots is free (`Receive`). A refused or failed copy
is saved: `Open`, `Write` and `Rename` are the system calls of
`MirrorSpool.Save`, on a temporary name (`tmp`) that two copies of one Envelope
share, since both names are the digest of URL and body. A file is known by the
request that created it, `full` says that it holds a whole record, so that a
`Save` may go on writing a file another `Save` has renamed. The replay loop lists
(`List`), reads, sends and removes. `Crash` is a crash or the shutdown of `main`,
which waits for handlers only.

`relay_spool` checks that no more copies are in flight than slots and that a finished
copy is with the mirror or on disk (both `CopyAccounted`), that an incomplete file
under a final name is still being written (`IncompleteIsTransient`), that replay
removes only what the mirror has (`RemovedIsMirrored`), and that a spooled copy
reaches the mirror although another is refused for ever (`SpoolDrains`). Three
requests are enough for two `Save`s of one name against a file of another name; two
slots so that one of them is dropped; one fault.
Fairness: goroutines and the loop proceed, every listed file is tried again
and again (the loop lists the whole directory each pass), and the mirror accepts
some time what it is offered for ever: an external assumption, as the mirror is
another server. `SpoolDrains` leaves out copies that authenticate by header: they are
refused at every replay (see the findings).

`RelayMirror_proofs` proves the three safety properties and the action property for any
requests, digests, slots and faults, from the two assumptions of the module: the
bounds are numbers and `None` is no request. `Traceable` is the core of `Inv`: a copy that has
opened its temporary file is under that name or under the final one unless the mirror has it, and one that
is done is under the final one or with the mirror, whichever of two `Save`s renamed it. `Whole` says of
both names that while nothing has failed an incomplete file has a writer, which a
rename alone would lose. `InHand` (replay removes what the mirror has taken) gives the action
property. `SpoolDrains` is liveness and only model-checked.

## 6. IssueAggregation

What `IngestQueue` takes as one step, `StoreEvent`, is here the two or three queries
and the transaction it is. An Issue is known by the hash it was created with,
because its id is a hash of project and grouping hash; the version it was created
under is in its row, and `0` there means that there is no row. `mapping` is
`sentryx_grouping_hashes`, `stored` says which retained Event belongs to which
Issue, `members` is `sentryx_issue_users`. `LookupCurrent` and `LookupLegacy` are
`lookupGroupingIssue`, which runs before the transaction and takes an error for
"not found". `Store` is the transaction up to the insert of the user, under the
locks of the Issue's row and the Event's key (`Locked`, `Waits`), which show only
when it ends; `Commit` is the rest. They are apart because `INSERT ... ON CONFLICT
DO NOTHING` locks no row it finds, so `DeleteUsers` may come between. `Conflicts` is
the upsert that meets the primary key and not the constraint it names.
`SetIssueStatus` is the API. `ExpireEvents`, `DeleteUsers`, `RecountReads` and
`RecountWrites` are one pass of `CleanupExpired`; the recount is one statement,
split because it counts what its snapshot holds and may then wait for a
transaction. `RecountLost` is a failing statement or a crash in a pass.
`Redeploy` starts a worker again with either `SENTRYX_GROUPING_VERSION`.

`expired`, `resolvedAt`, `drifted` and `orphaned` are histories no action reads.
`issue_workers` checks that `count` is what is retained plus what retention
deleted (`CountAccounted`), that a resolved Issue has had no Event since and a
regression has (`ResolvedIsQuiet`), that a retained Event has its identity unless
retention took it from under the transaction (`MembersCoverEvents`), and that the
users counter equals the rows unless the recount is due, lost or overtaken
(`UsersAgree`). Two Events and two workers make every pair of transactions; the
contents are those grouping tells apart: one hash in both versions for both,
hashes that only version 2 joins, and a fingerprint, which hashes alike in both
versions. One deletion, one status change and one fault; a second of each
would repeat what one shows. `ImplementsLedger` says that the tables of Events, Issues and
hashes take only steps of `IssueLedger`: an Event is stored, charged and mapped in one step
(`Record`), to the Issue of its own hash if that is of the worker's version, or to one that is
there and to which the hash is mapped in this version or in version 1. So the
lookup may be as old as it likes, and no Event of one version is charged to an Issue that another
version created from an equal hash unless a mapping leads there. `Triage` is the API, `Expire`
retention. The users counter, the identities and the queue are outside the ledger. How a hash is computed is not modelled, only which
Events share it in which version; `Grouping` has that.

`issue_rollback` assumes weak fairness of each worker and strong fairness of its
taking each pending Event, since leases are granted in order of id and a failed
job becomes ready again. The Event is taken, hits the primary key and is retried
for ever (in the code: until it is dead).

`IssueAggregation_proofs` proves the four properties of `issue_workers` for any workers, Events,
hashes, users and bounds, infinitely many too, from the two assumptions of the module. The
properties are conjuncts of `Inv` with the parts
they lean on: an open transaction stores what is not stored yet, and an identity it has not seen is
still not there (`Sound`); two of them share neither Issue nor Event (`Exclusive`, the
row locks); an Issue without a row has neither count nor users (`Absent`); what is stored is
finite (`Countable`); and what the recount of
retention is about to write of an Issue that nobody overtook is the number of its rows (`Recounted`).
`MembersCoverEvents` needs the locks most: between its two halves a transaction may lose
an identity to `DeleteUsers` but none of its Issue may come. The rollback of `issue_rollback`
is a temporal counterexample and stays one.

`AggregationImplementsLedger` proves `Spec => Ledger!Spec`: `Commit` is `Record`, `SetIssueStatus` is
`Triage`, `ExpireEvents` is `Expire`, and every other step changes nothing the ledger has. It needs
three more parts beside `Inv` (`LedgerInv`), which TLC has checked on the instance of `issue_workers` first. A
mapped hash names an Issue that is there (`MappedPresent`), since rows of Issues stay. What a lookup found is
still what its hash is mapped to, in that version or in version 1, since a hash is mapped once and a redeployment
forgets the job (`LookupsHold`). And an open transaction that goes by its hash meets no
Issue of another version (`OpenFits`), although the check and the commit are apart: only a commit on the
same row could bring one, and the row is locked (`Exclusive`). `IngestQueue` takes the same
transaction as one step, `StoreEvent`; the refinement is the argument that it may.

## 7. ProjectKeys

There are two control planes, and `backend` fixes one for a behaviour. Over PostgreSQL
`slug` is `sentryx_control_projects` and `keys` is `sentryx_project_keys`, in which a
public key is unique. A request goes through `Count` and `Look`, the two statements
of `ValidProjectKey`, then `Ensure`, the transaction of `EnsureProject`, and if the
project existed without a key through `InsertKey`: only then nothing makes a second
transaction wait between looking for a key and inserting one. A failing count
admits, a failing look-up refuses, a failing provisioning is logged. A revocation
is `RevokeCount` and `RevokeDelete`; the row it names is gone for good once deleted,
even if an equal key is inserted again (`Overtake`). In memory (`control.go`) `slug`, `keys` and
`bySlug` are the maps of one server and every method holds their mutex: `Judge`,
`Provision` and `Revoke` are one step each, and `given` holds the numbers the counter has
handed out as project ids (`Numbers` are those it may come to). Left out: whitelists from the
environment, which never change, and more than one organization.

`could` collects the verdicts the table justified at each moment of a request, so
that `VerdictsHold` says that `ValidProjectKey` is as good as one atomic read, but
for failing statements and a project that loses its last key between the two.
`KeysKept` says that a project loses keys one at a time and that only a revocation that another overtook
takes a last one, but for a provisioned project whose id the counter in memory comes
to; `SlugsLead` that in memory a slug leads to its project, but where a slug is another
project's id; `ProvisionedUnlessTaken` what an admitted request leaves behind. Two requests
and two revocations are the pairs that can interfere; one key from a DSN and two
generated ones give a project up to three; the project created through the API
may take the id from the DSN as its slug. Nothing is promised to happen: no fairness.

`Admission_proofs` proves both invariants, both action properties and `TypeOK` with the unique
key for any handlers, administrators, projects and keys. It assumes that `None` is neither a project nor a key and that no
generated key equals one a client brought in its DSN (`FreshAssumption`: keys are 16 random
bytes). `Inv` has a part on the tables and revocations, which no request
disturbs (`TableInv`: keys belong to projects that exist, are unique in PostgreSQL, every
project in memory has one and its slug leads to it, a revocation knows whether its key has gone), and one per
request (`Judged`: what it saw, the table has justified at some moment since it
began). `Moves` is all that a request in flight has to know of what others do, so that the two
parts are proved apart: keys of a project go one at a time and `could` follows the table.

## 8. RateLimiter

One action is one call of `Allow`, under its mutex; `Ask` is the `time.Now()` in its
argument list, so that a call may be judged by an older time than the one before
it. Ticks are parts of a second, to see the rounding of `Retry-After`. `passed`,
`retry`, `wiped`, `latest` and `late` are histories; a request let through is a record of its
bucket, its time and its number among those of that bucket and time, so that requests are
counted by `Cardinality`, which can be reasoned about. The bounds give a window of two
seconds in four ticks, a limit of two, a table of two entries that two clients
fill, and six requests: two windows of passes, a refusal and a return.

`PassesBounded` is what a fixed window gives: almost twice the limit in a period as
long as a window, and another window each time a full table is emptied or a
request is judged late. `RefusalsJustified` is the
other side: nobody is refused without having used the limit, nor again when
coming back as told.

`Admission_proofs` proves both, for any limit, window, table size, buckets and number of
requests, from `LimiterAssumption` alone. Neither is inductive.
A request may pass in a period whose window has long left the table, so
`OpenPeriodsBounded` keeps, for each period that can still see a request in time, what its
bucket may have used: with `k` lapses (tables emptied, requests late) `k` times the limit
and the count of the bucket's window, if that began before the period; another limit if it began within it; and
`k + 1` times the limit less one if the bucket has no window. A new window that is in time
either begins after a window that is over, hence before the period, or before any request of the period;
one that is not in time pays with its own lapse. `PeriodsBounded` then covers periods that are
over, where only late requests arrive. For refusals, `WindowsCounted` says that what a window
counts has passed since its start or was late, and `ToldToWait` that a client was told to
come back when its window is over, which rests on the rounding of `RetryAfter` (`RoundedUp`).

## 9. Artifacts

`cached` is `ArtifactStore.artifacts` of each process, `blob` the blob store, `rows`
the table `sentryx_artifacts`. A map is the number of its upload, so that "newer"
means something, 0 being what versions before `debug_id` left: this version never
writes a row (see the findings), and the model says so by its actions, which leave
`rows` alone but for `DeleteRow`. Coordinates are dist and normalized name;
`Candidates` is `artifactCandidates`. An upload is `StoreBlob` then `CacheUpload`;
`RefuseUpload` is a `Put` whose error comes after it took effect. A deletion is `Evict`
(every candidate, under the mutex) then `DeleteRow`. A frame is looked up by
`BeginLookup` (`LookupDebugID`, over the cache only, since no row has a debug ID), `ReadCache`,
one `GetBlob` or `ReadRow` per candidate, and `Keep`, which is a step of its own
because the lookup holds no lock between reading a map and caching it. `Return`
ends it. `Restart` empties a cache and drops what the threads were doing.

`origin`, `mine` and `spoilt` are histories, `known` in a lookup what had been
acknowledged when it began. `artifact_stores` checks that a frame gets a map uploaded
for it or of its debug ID (`ServedBelongs`), that an acknowledged upload is found
from any process after any restart (`AcknowledgedIsFound`), that a lookup which no cache
answers keeps the order of candidates and takes the newest (`ColdLookupKeepsOrder`; one
that a cache answers need not), and that a process uses what it has acknowledged
(`OwnUploadIsUsed`), unless a lookup of the same process was reading or another
upload writing that place, or a read failed: those are the races of an unchecked cache
(`sourcemap.go:299`), which do leave an older map until a restart, and the property says
that nothing else does. Two processes, one of which has a
handler and a worker; a file and its base name with and without a dist give all
four candidates; two uploads, one deletion, two lookups and one fault let a lookup
be overtaken by each of the others. Old maps lie as a row where only the last
candidate looks and as a row with a blob where the second does.
No fairness: every property is one of finished lookups.

`Artifacts_proofs` proves the four properties for any processes, threads, names, dists, maps and
bounds. `ServedBelongs` is a theorem with and without a blob store, from `Inv`: blobs and
caches only have maps at places they were uploaded to (in `TypeOK`), and candidates are the places at
a distance, in the order of the distance (lemma `CandidateFacts`). The other three are
promised with a blob store only and have `HasBlob` as a hypothesis: without one, the refused INSERT leaves an upload
in one cache, and the findings say what that costs. `BlobInv` rests on `Stored`: the blob at a place is at
least as new as what any process has acknowledged there and as what a lookup
in flight knows of, since deletion and restart take no blob away. Then
a lookup passes over a place only if it knew of nothing there (`Ordered`), and what a thread is about
to cache is not older than its process's own uploads unless it met another thread or a read failed
(`Fresh`). `Fresh` is why `spoilt` is marked when a thread caches its upload and not when the other one
ends: a lookup that has passed the place may still cache an older row of it. TLC has
checked both invariants on the instance of `artifact_stores`.

## 10. Pagination

A row is an Issue or an Event reduced to the column it is sorted by and its
status; ids are numbers, as the tie-break needs. `listing` fixes store, table,
order and status filter for a behaviour; all of them are checked. `FetchPage` is one request:
`Rest` is what the store lets through after the cursor (`Below` in PostgreSQL;
in memory what follows the row the cursor names, or everything if no row has that
key and id), `Page` its first rows, `NextCursor` the key and id of the last. It is
one step because each page is one statement or one copy under the lock. `FailPage` is a query that
fails, at once or while its rows are read, which nobody asks about. Between pages rows arrive (`Arrive`), are counted (`Touch`, which reopens a
resolved Issue), are set to a status (`SetStatus`) and lose users to retention
(`Recount`). Times are read before the transaction that stores them, so a row may
arrive with an earlier one (`Times`).

`stays`, `sunk`, `restarted` and `failed` are histories. `pages` checks, for every listing, that
no row is listed twice unless it moved down or a cursor was not used, which the memory
does when it lost the row and the Events of PostgreSQL always (`OnceUnlessMoved`), that a
listing which ends has every row that was there from the start and neither moved up nor
changed status (`CompleteUnlessMoved`), and that it ends (`ListingEnds`) unless it is the
Events of PostgreSQL (`Unread`) and they do not fit one page: then `FetchPage` answers the
first page for ever, which is the endless loop of `sentryx-reconcile` in the findings. Pages of one row make every row a
boundary; three rows with two keys give ties on either side of it; two changes let
one row pass another twice. The page size of the code is up to 100, which changes
where boundaries fall and nothing else. Fairness: the client asks for the next
page (`WF_vars(FetchPage)`), as the loop of `sentryx-reconcile` does; changes are
bounded, since a listing need not end while rows keep arriving below its cursor.

`Pagination_proofs` proves both invariants for any ids, page size, keys and number of changes
and for every listing. One argument serves both stores: a
row that has been listed is not behind the cursor (`Passed`), a row that stays has been listed
or is behind it (`Ahead`), and a page takes the first rows behind the cursor and puts the cursor on
the last of them (lemma `PageFacts`). In memory the cursor is a row that may move or
go, and for the Events of PostgreSQL it is never read: `Restarts` is both, a page with a cursor taken from the
whole list, and `restarted` and `sunk` take exactly that out of `OnceUnlessMoved`. `CompleteUnlessMoved` survives it. That a page has a last row
at all needs a finite set of rows in a strict total order (`OrderFacts`, `LastExists`). `ListingEnds` is liveness and
only model-checked.

## 11. BlobRetention

An attachment, or a signal that is not JSON, is a row of PostgreSQL and an object of
the blob store. `rows` are `sentryx_attachments` and `sentryx_signals`, `blobs` the keys
of the store, `expired` the rows older than their project keeps. A job goes through its
items: `Refuse` is one that is always refused and ends the attempt, `PutBlob` and
`InsertRow` are the two calls of `persistAttachment` and of the signals in
`processPayload`; identifiers are random, so each attempt draws new ones
(`drawn`). Any call may fail, having taken effect or not, and `WorkerDies` comes between
any two. `TakeLock`, `DeleteRows`, `DeleteBlob` and `MoveOn` are `CleanupExpired` as far as
signals and attachments go; the rows of a batch and the keys they return are one statement, each
blob is a call. `ReadRow` and `ReadBlob` are `GetAttachment`. A lost lock is the
end of a session, and with it of the run, since all statements of a run use
that connection.

`retention_blobs` checks that a row that names a blob has it at every moment
(`RowsHaveContent`), that without faults no blob is left without a row and one fault
leaves at most the blobs of one batch (`OrphansBounded`), that a download is empty only if
its read failed or retention was between (`EmptyOnlyWhenGone`), and that expired rows and blobs
go, unless a fault has orphaned the blob (`ExpiredReclaimed`). One job is an
attachment before an item that is refused at both attempts, so that it is stored
twice; the other is one binary signal. Batches of one row, so that three rows take
several; two servers, so that one finds the lock taken; one fault. Fairness: the retention
loop of a server that lives goes on (`WF_vars(Cleanup(s))`), a ticker in the code;
faults are bounded, so a run ends some time without one.

`BlobRetention_proofs` proves `RowsHaveContent` and `EmptyOnlyWhenGone` for any jobs, items,
servers, batch size and bounds, from `ItemsAssumption` and `BoundAssumption`. Neither is
inductive: a row must not be inserted for a blob that retention deletes at that moment, nor
two jobs insert the same identifier. `Inv` adds that identifiers are drawn before they are used
and name one row (`Apart`, `Drawn`), that what a job carries from `PutBlob` to `InsertRow` is in
the store and is no row's, no reader's and no other job's (`Carried`), and that what retention has
doomed has no row and no job that will insert one (`Doomed`). `OrphansBounded` follows from
`OrphanInv`, which keeps the account: blobs without a row are those a job or retention has in
hand, or were left by one of the faults, each of which leaves at most a batch (`Accounted`). `ExpiredReclaimed`,
which is liveness, is only model-checked.

## 12. EventPath, with Envelope, SourceMaps and Grouping

`Envelope` is what `parseEnvelope`, `ScrubEnvelope` and `ApplyItemPolicy` do to a body. A
body is a sequence of lines, a length a number of lines: enough to tell a length
that is right from one that is 0, missing or past the end, which is all the parser
looks at. What a line says is a value and whether it was scrubbed; which characters
of it a rule matches is left out, except that a rule with the action `remove` may
take a whole text. `SourceMaps` is the decoder of mappings and the search for a position,
beside `Encoded`, which writes a table as the format says and is the
reference. `Grouping` is `decodeEvent` as far as grouping goes and both versions of
`GroupingHashForVersion`; a hash is the sequence of its parts, so equal hashes mean equal parts.
A file is a name and the hash of its build, a message a text and its
numbers: what the normalisations keep and what they drop.

`EventPath` composes them. `RelayScrubs` and `RelayFilters` are the relay's handler,
`ServerIngests` the API's handler and `Ingest`, which scrub one after the other;
`TakeJob`, `NextItem`, `SymbolicateFrame` and `Group` are `processPayload` of either
backend, with one step per frame, between which `Upload` may put a map in place.

`event_path` has two families of initial states. In the first every sequence of one to
three of nine items (with and without length, empty, two lines, text, bytes, JSON,
sampled, of an unknown type) goes through every combination of scrubbing in the
relay, scrubbing in the server, the action `remove`, a packed body and three
policies: the worker must read what was meant, scrubbed and filtered, in its order
(`ItemsArrive`), and only a relay that filters a packed body refuses one
(`RefusedOnlyPacked`). `Legible` leaves out items whose end the format itself does not
show, and empty ones (see the findings). In the second a pair of Events goes to either
backend in either version while three maps are uploaded, one of them with code
without a source, which is refused. Tables have columns that need two characters, go back
between lines and leave lines empty (`MapsDecoded`); one error of two builds has one hash once all its
frames were mapped (`BuildsGroupTogether`), except in PostgreSQL with version 2, where
the culprit of the bundle stays. Three items show what an item does to
the ones before and behind it. Safety only: that a job is processed at
all is `EventuallySettled` of `IngestQueue`.

`BuildsAreOneIssue` in `IssueAggregation_proofs` proves `BuildsGroupTogether` for any Events, source
maps, settings and Envelopes. Two assumptions say what the constants stand for, and TLC evaluates
them in `event_path`. `FramesAssumption`: an Event with frames has an exception, as the frames modelled
are those of the exception, each names a build there is a map of, and `function@file` is never
empty. `OriginAssumption`: Events of one `origin` have one fingerprint and, unless that decides alone,
say the same but for numbers and their frames, one by one, are at the same places of the source by the
tables of their builds (`OneError`), as the build wrote them and not as the server decodes them. Of the
decoder the theorem asks `MapsDecoded`, and states it as its hypothesis. What is left to prove is what the worker does with them: maps
arrive while an Event is worked at, a frame looked up too early stays as it was, and the
culprit is rewritten on the way. `PathInv` says where that leaves an Event of which `n`
frames have been looked up (`Symbolicated`): if none of them was missed, what is symbolicated are the
places of the first `n`; and in the memory backend the culprit is that of the last
frame of the bundle until that frame is looked up, and then that of its place in the source, unless
another frame of the bundle reads like the last and takes the culprit with it. That is
where `Distinct` comes from. Both
hashes are then made of equal parts, in either version (`SameHash`). `ItemsArrive`,
`RefusedOnlyPacked` and `MapsDecoded` are about what recursive functions over the lines of a body
or a map return, and are only model-checked.
## Findings

With a run:

* `issue_rollback`: after a rollback to grouping version 1 an Event whose
  fingerprint has an Issue of version 2 can never be stored (`postgres.go:173,
  192`); `docs/FEATURE_REQUEST.md:88` offers that rollback.

Met while modelling, without a run of their own:

* The INSERT of an artifact is not valid SQL
  (`sourcemap.go:84,91`) and its error is dropped (`:134`), so with the default
  database backend (`README.md:90`) a source map is only in the memory of the
  process that answered 200.
* `ListEventsPage` of PostgreSQL never reads the cursor
  (`postgres.go:461`), so `sentryx-reconcile` asks for the first page for ever
  when there is a second (`docs/FEATURE_REQUEST.md:77`). `ListingEnds`
  names that listing as the only one that need not end.
* An item of length 0 takes what is behind it (`app.go:1591`), and rebuilding an Envelope
  gives that length to an item that is empty or that a rule has emptied;
  `item_policy.go:65-67` calls the result valid.
* A relay with an item policy and without scrubbing parses a packed body and answers 400
  (`relay.go:73,87`; `docs/compatibility.md:37` supports gzip).
* `{{ default }}` in a fingerprint makes the code ignore the rest of it
  (`app.go:1393`); `docs/technical-design.md:167` combines them.
* A map with a segment of one value is refused whole (`sourcemap.go:449`).
* The culprit of the bundle stays in an Event of the PostgreSQL backend and in the hash of
  version 2, so builds split (`postgres.go:146-170`; `docs/technical-design.md:380`).
* Blobs whose deletion failed, or came to a crash, stay for ever
  (`worker.go:281`; `docs/FEATURE_REQUEST.md:75`).
* In memory a created project may get the number under which a DSN has provisioned one,
  whose keys are then refused (`control.go:268`), and a provisioned project takes a slug
  over (`control.go:368`); `docs/control-plane.md:38` names neither.

* An event without `event_id` gets a random id at each processing
  (`app.go:1122`), so the retry of a half-processed Envelope stores and counts it
  again; `worker.go:104-106` calls repeating safe.
* One failing `AckJob` or `NackJob` ends the worker goroutine of
  a `-role=all` server (`worker.go:133-135`, `main.go:95-100`), which goes on
  accepting Envelopes that nothing processes.
* A spooled copy that authenticates by `X-Sentry-Auth` is
  replayed without it and refused for ever (`mirror_spool.go:51-58`).
* Retention deletes an identity between the insert that finds it
  and the commit of its Event (`postgres.go:230`, `worker.go:299`), so a retained
  Event is left without one; `docs/FEATURE_REQUEST.md:107` says otherwise.
* A crash or failed statement between a webhook and its record makes a `new_issue`
  rule fire twice (`alerts.go:101`); `docs/FEATURE_REQUEST.md:45` says once.
  `FiresOncePerFault` says what holds.
* Two revocations at once take the last two keys of a project
  (`postgres_control.go:303`), which the code means to refuse (`:307`); the project then
  admits any key and adopts the next one. `KeysKept` says what holds.
* A project created through the API whose slug is the id in some client's DSN keeps
  that id from ever being provisioned (`postgres_control.go:345`;
  `docs/control-plane.md:38`).
* A worker goes on with a claim whose lease ran out and settles by id alone
  (`worker.go:88`): a stale ack clears the payload of a job the last owner then
  marks dead, which `docs/technical-design.md:157` says can be replayed by hand.
* Malformed items (an empty attachment, `postgres.go:283-284`) are retried five
  times; `docs/technical-design.md:157` says format errors are not retried.
* The advisory lock of alert evaluation belongs to a session while the statements
  run on other connections: evaluations may overlap (`alerts.go:28` says serialized).
* `now` is taken once per evaluation, so deliveries late in one and early in the
  next may be closer than the cooldown by the receiver's clock (`alerts.go:47`).
* The mirror copy starts before the primary is asked (`relay.go:109`);
  `docs/control-plane.md:7` says first the primary.
* Two `Save`s of one digest share a temporary file, so an incomplete record may
  show under the final name until the second is written
  (`mirror_spool.go:66`; `docs/FEATURE_REQUEST.md:14-16` says atomic).
* The grouping lookup runs before the transaction (`postgres.go:173`;
  `docs/technical-design.md:183` puts it inside): workers of two versions may split one
  error over two Issues, and an Event may create an Issue no mapping names.
* The users counter is "transactionally refreshed"
  (`docs/FEATURE_REQUEST.md:106`), but the recount of retention is a statement of its own
  after the deletion; a crash between leaves it too high until the next one.
* A deleted artifact is read from the blob store again (`sourcemap.go:252-269`),
  where `:236` says that it is unreachable; one that is not in the cache of the
  process is deleted with 404, as rows are never written; and the list of
  artifacts, which reads the rows, stays empty.
* A map cached for a later candidate hides a closer one uploaded elsewhere since
  (`sourcemap.go:244`), though `docs/technical-design.md:203` fixes the order.
* Symbolication of the two stores differs (`postgres.go:148` says it does not): see
  `app.go:857-885`.
* A page query that fails is answered by an empty last page, or by the rows read before
  it failed, with 200 (`postgres.go:441,446,487,492`), which a client takes for the end of the list.
* In memory a listing starts again from the first page when the row of the cursor
  has moved (`features.go:306-314`), and times are compared as RFC 3339 text, in
  which a time without a fraction of a second comes after one with it.

## Not modelled

What the plan lists is not modelled yet. Outside it for good: the UI and the
end-to-end scripts (no logic the system depends on), which characters a PII rule
matches and how a match is masked or hashed (regular expressions over text), the maps of the
in-memory Store (one mutex, no persistence; its listings, symbolication and grouping are
modelled), metrics and logging. In the modelled parts: organizations, teams and
tokens, hourly tag rows and the synchronous path of `PostgresStore.Ingest`;
editing of alert rules, their level, environment and release filters. `alerts.go:95` counts one
webhook that succeeds as a delivery although others failed: `Send` keeps one outcome
per round, so nothing is said of the others. A copy to the mirror starts before the primary
has answered and does not survive a shutdown in flight (`relay.go:109`,
`cmd/sentryx-relay/main.go:35`): `Crash` of `RelayMirror` drops it, and no property
promises more.

Each module states its `TypeOK` (`LimiterTypeOK` in `RateLimiter`), which TLC has found to hold in its run and which
is part of the proved invariant, in all modules but `EventPath` (`PathTypeOK`). The runs leave the types to the proofs.
