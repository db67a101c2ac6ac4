--------------------------- MODULE IssueAggregation ---------------------------
(***************************************************************************)
(* How the events of processPayload become Issues (postgres.go): the       *)
(* lookup of a grouping hash, made outside the transaction; the            *)
(* transaction that counts, stores and maps; the status an API client      *)
(* sets; and retention, which deletes events and recounts users            *)
(* (worker.go), while workers of both grouping versions run.               *)
(*                                                                         *)
(* One action is one query or one statement of retention; a transaction is *)
(* two, what it decides under its locks and its commit, as retention may   *)
(* delete a row between them that no lock holds.  An Issue is known by the *)
(* hash it was created with: its id is shortHash(project:hash), without    *)
(* the grouping version.                                                   *)
(***************************************************************************)
EXTENDS Integers, FiniteSets, FiniteSetsExt

CONSTANTS
  Workers, Events, Hashes, Users,
  Contents,    \* what the Events may be: hashes by grouping version, user or none
  MaxExpired,  \* bound on deletions of Events
  MaxTriages,  \* bound on status changes through the API
  MaxFaults    \* bound on redeployments and failing statements

None == "none"
Versions == {1, 2}

Content == [hash : [Versions -> Hashes], user : Users \cup {None}]

ASSUME ContentAssumption == Contents \subseteq [Events -> Content]
ASSUME BoundAssumption == MaxExpired \in Nat /\ MaxTriages \in Nat /\ MaxFaults \in Nat /\ None \notin Hashes

VARIABLES
  content,    \* what the Events are
  version,    \* SENTRYX_GROUPING_VERSION of each worker process
  job,        \* the Event each worker stores, the mapped Issue its lookup found,
              \* and whether its transaction saw the identity
  pending,    \* Events delivered and not settled
  issues,     \* sentryx_issues
  mapping,    \* sentryx_grouping_hashes
  stored,     \* sentryx_events: the Issue of each retained Event
  members,    \* sentryx_issue_users
  retention,  \* where CleanupExpired stands
  expired,    \* how many Events of each Issue retention deleted
  resolvedAt, \* the count of each Issue when its status was last set to resolved
  triages,    \* status changes so far
  drifted,    \* Issues whose last recount was lost or overtaken
  orphaned,   \* Events whose identity went while their transaction was open
  faults

vars == <<content, version, job, pending, issues, mapping, stored, members, retention,
          expired, resolvedAt, triages, drifted, orphaned, faults>>
config  == <<content, version>>
tables  == <<issues, mapping, stored, members>>
history == <<expired, resolvedAt, triages, drifted, orphaned>>

Statuses == {"unresolved", "resolved", "ignored"}
Issue == [version : Versions \cup {0}, count : Nat, users : Nat, status : Statuses,
          regression : BOOLEAN]
NoIssue == [version |-> 0, count |-> 0, users |-> 0, status |-> "unresolved",
            regression |-> FALSE]

Present(i) == issues[i].version # 0

Idle == [phase |-> "idle", event |-> None, mapped |-> None, saw |-> FALSE]
AtRest == [phase |-> "idle", touched |-> {}, seen |-> [i \in Hashes |-> 0]]

TypeOK ==
  /\ content \in Contents
  /\ version \in [Workers -> Versions]
  /\ job \in [Workers -> [phase : {"idle", "current", "legacy", "store", "commit"},
                          event : Events \cup {None}, mapped : Hashes \cup {None},
                          saw : BOOLEAN]]
  /\ pending \subseteq Events
  /\ issues \in [Hashes -> Issue]
  /\ mapping \in [Versions \X Hashes -> Hashes \cup {None}]
  /\ stored \in [Events -> Hashes \cup {None}]
  /\ members \subseteq Hashes \X Users
  /\ retention \in [phase : {"idle", "users", "recount", "write"}, touched : SUBSET Hashes,
                    seen : [Hashes -> Nat]]
  /\ expired \in [Hashes -> Nat] /\ resolvedAt \in [Hashes -> Nat \cup {-1}]
  /\ triages \in 0 .. MaxTriages
  /\ drifted \subseteq Hashes /\ orphaned \subseteq Events
  /\ faults \in 0 .. MaxFaults

Init ==
  /\ content \in Contents
  /\ version \in [Workers -> Versions]
  /\ job = [w \in Workers |-> Idle]
  /\ pending = {}
  /\ issues = [i \in Hashes |-> NoIssue]
  /\ mapping = [k \in Versions \X Hashes |-> None]
  /\ stored = [e \in Events |-> None]
  /\ members = {}
  /\ retention = AtRest
  /\ expired = [i \in Hashes |-> 0]
  /\ resolvedAt = [i \in Hashes |-> -1]
  /\ triages = 0
  /\ drifted = {} /\ orphaned = {}
  /\ faults = 0

HashOf(e) == content[e].hash
UserOf(e) == content[e].user

Fault == faults < MaxFaults /\ faults' = faults + 1

-----------------------------------------------------------------------------
(* Jobs.                                                                   *)

Deliver(e) ==
  /\ e \notin pending
  /\ pending' = pending \cup {e}
  /\ UNCHANGED <<config, job, tables, retention, history, faults>>

\* Two workers may have the same Event in hand, one of them with a lease that ran
\* out.
Take(w, e) ==
  /\ job[w].phase = "idle" /\ e \in pending
  /\ job' = [job EXCEPT ![w] = [Idle EXCEPT !.phase = "current", !.event = e]]
  /\ UNCHANGED <<config, pending, tables, retention, history, faults>>

\* The process is started again with one version or the other.
Redeploy(w, v) ==
  /\ Fault
  /\ version' = [version EXCEPT ![w] = v]
  /\ job' = [job EXCEPT ![w] = Idle]
  /\ UNCHANGED <<content, pending, tables, retention, history>>

-----------------------------------------------------------------------------
(* lookupGroupingIssue: a failing query counts as nothing found.           *)

Hash(w) == HashOf(job[w].event)[version[w]]

LookedUp(w, found, next) ==
  job' = [job EXCEPT ![w].mapped = found, ![w].phase = IF found = None THEN next ELSE "store"]

LookupCurrent(w) ==
  LET next == IF version[w] > 1 THEN "legacy" ELSE "store" IN
  /\ job[w].phase = "current"
  /\ \/ LookedUp(w, mapping[<<version[w], Hash(w)>>], next) /\ UNCHANGED faults
     \/ LookedUp(w, None, next) /\ Fault
  /\ UNCHANGED <<config, pending, tables, retention, history>>

LookupLegacy(w) ==
  /\ job[w].phase = "legacy"
  /\ \/ LookedUp(w, mapping[<<1, HashOf(job[w].event)[1]>>], "store") /\ UNCHANGED faults
     \/ LookedUp(w, None, "store") /\ Fault
  /\ UNCHANGED <<config, pending, tables, retention, history>>

-----------------------------------------------------------------------------
(* The transaction of an Event.                                            *)

\* Broken on purpose, as AnyVersion, JoinedOnce, CountedAnyway and FreshAnyway below: the
\* variants the checks must refute.
BumpedQuietly(row) == [row EXCEPT !.count = @ + 1]

\* The Issue is bumped, by the upsert of its hash or by the update of the mapped id;
\* a resolved one comes back as a regression.
Bumped(row) ==
  [row EXCEPT !.count = @ + 1,
              !.status = IF @ = "resolved" THEN "unresolved" ELSE @,
              !.regression = @ \/ row.status = "resolved"]

Target(w) == IF job[w].mapped # None THEN job[w].mapped ELSE Hash(w)

AnyVersion(w) == FALSE
\* The upsert names the constraint on version and hash: an Issue another version
\* created from an equal hash has the same id, and the primary key is violated.
Conflicts(w) == /\ job[w].mapped = None
                /\ Present(Hash(w)) /\ issues[Hash(w)].version # version[w]

JoinedOnce(i, u) == IF u = None \/ \E j \in Hashes : <<j, u>> \in members THEN {} ELSE {<<i, u>>}
Joined(i, u) == IF u = None THEN {} ELSE {<<i, u>>}

\* Only an identity the transaction has inserted is counted.
CountedAnyway(u, saw, row) == IF u # None THEN [row EXCEPT !.users = @ + 1] ELSE row
Counted(u, saw, row) == IF u # None /\ ~saw THEN [row EXCEPT !.users = @ + 1] ELSE row

FreshAnyway(e) == TRUE
Fresh(e) == stored[e] = None

\* An open transaction holds the row of its Issue and the key of its Event.
Locked(i) == \E w \in Workers : job[w].phase = "commit" /\ Target(w) = i
Waits(w) == \/ Locked(Target(w))
            \/ \E v \in Workers : job[v].phase = "commit" /\ job[v].event = job[w].event

\* The statements up to the insert of the identity, which finds the row or not and
\* locks none.  A duplicate Event is rolled back.
Store(w) ==
  LET e == job[w].event IN
  /\ job[w].phase = "store" /\ ~Conflicts(w) /\ ~Waits(w)
  /\ \/ /\ Fresh(e)
        /\ job' = [job EXCEPT ![w].phase = "commit",
                               ![w].saw = <<Target(w), UserOf(e)>> \in members]
        /\ UNCHANGED pending
     \/ /\ ~Fresh(e)
        /\ job' = [job EXCEPT ![w] = Idle]
        /\ pending' = pending \ {e}
  /\ UNCHANGED <<config, tables, retention, history, faults>>

\* The rest, and the commit.  Where the identity was there only its dates are
\* updated, which does nothing if retention has deleted the row meanwhile.
Commit(w) ==
  LET e == job[w].event
      i == Target(w)
      saw == job[w].saw
      row == IF Present(i) THEN Bumped(issues[i])
             ELSE [NoIssue EXCEPT !.version = version[w], !.count = 1]
      key == <<version[w], Hash(w)>> IN
  /\ job[w].phase = "commit"
  /\ stored' = [stored EXCEPT ![e] = i]
  /\ mapping' = [mapping EXCEPT ![key] = IF @ = None THEN i ELSE @]
  /\ issues' = [issues EXCEPT ![i] = Counted(UserOf(e), saw, row)]
  /\ members' = members \cup (IF saw THEN {} ELSE Joined(i, UserOf(e)))
  /\ drifted' = IF retention.phase = "write" /\ i \in retention.touched /\ members' # members
                THEN drifted \cup {i} ELSE drifted
  /\ orphaned' = IF saw /\ <<i, UserOf(e)>> \notin members THEN orphaned \cup {e} ELSE orphaned
  /\ pending' = pending \ {e}
  /\ job' = [job EXCEPT ![w] = Idle]
  /\ UNCHANGED <<config, retention, expired, resolvedAt, triages, faults>>

\* A violated key, or a statement that fails: the transaction rolls back and the job
\* is tried again.
StoreFails(w) ==
  /\ \/ job[w].phase = "store" /\ Conflicts(w) /\ ~Waits(w) /\ UNCHANGED faults
     \/ job[w].phase \in {"store", "commit"} /\ Fault
  /\ job' = [job EXCEPT ![w] = Idle]
  /\ UNCHANGED <<config, pending, tables, retention, history>>

-----------------------------------------------------------------------------
\* SetIssueStatus.
SetIssueStatus(i, status) ==
  /\ Present(i) /\ ~Locked(i)
  /\ triages < MaxTriages /\ triages' = triages + 1
  /\ issues' = [issues EXCEPT ![i].status = status, ![i].regression = FALSE]
  /\ resolvedAt' = IF status = "resolved" THEN [resolvedAt EXCEPT ![i] = issues[i].count]
                   ELSE resolvedAt
  /\ UNCHANGED <<config, job, pending, mapping, stored, members, retention, expired,
                 drifted, orphaned, faults>>

-----------------------------------------------------------------------------
(* CleanupExpired, which runs on one server at a time.                     *)

StoredEvents == {e \in Events : stored[e] # None}

Deletions == MapThenSumSet(LAMBDA i : expired[i], Hashes)

\* The batch of expired events goes, and with each its idempotency key.
ExpireEvents(S) ==
  /\ retention.phase = "idle"
  /\ Deletions + Cardinality(S) <= MaxExpired
  /\ stored' = [e \in Events |-> IF e \in S THEN None ELSE stored[e]]
  /\ expired' = [i \in Hashes |-> expired[i] + Cardinality({e \in S : stored[e] = i})]
  /\ retention' = [AtRest EXCEPT !.phase = "users"]
  /\ UNCHANGED <<config, job, pending, issues, mapping, members, resolvedAt, triages, drifted, orphaned, faults>>

Kept(i, u) == \E e \in StoredEvents : stored[e] = i /\ UserOf(e) = u

\* The identities that have no retained Event of their Issue go in one statement,
\* which does not see the Event of an open transaction.
DeleteUsers ==
  LET gone == {m \in members : ~Kept(m[1], m[2])} IN
  /\ retention.phase = "users"
  /\ members' = members \ gone
  /\ retention' = IF gone = {} THEN AtRest
                  ELSE [AtRest EXCEPT !.phase = "recount", !.touched = {m[1] : m \in gone}]
  /\ UNCHANGED <<config, job, pending, issues, mapping, stored, history, faults>>

MembersOf(i) == Cardinality({u \in Users : <<i, u>> \in members})

\* The recount is a statement of its own.  It sees the rows of its snapshot, and
\* waits for a transaction that holds the Issue before it writes.
RecountReads ==
  /\ retention.phase = "recount"
  /\ retention' = [retention EXCEPT !.phase = "write", !.seen = [i \in Hashes |-> MembersOf(i)]]
  /\ UNCHANGED <<config, job, pending, tables, history, faults>>

RecountWrites ==
  /\ retention.phase = "write" /\ \A i \in retention.touched : ~Locked(i)
  /\ issues' = [i \in Hashes |-> IF i \in retention.touched
                                  THEN [issues[i] EXCEPT !.users = retention.seen[i]] ELSE issues[i]]
  /\ drifted' = {i \in drifted : i \in retention.touched => MembersOf(i) # retention.seen[i]}
  /\ retention' = AtRest
  /\ UNCHANGED <<config, job, pending, mapping, stored, members, expired, resolvedAt,
                 triages, orphaned, faults>>

\* A statement fails or the process dies, perhaps between deletion and recount.
RecountLost ==
  /\ retention.phase # "idle" /\ Fault
  /\ drifted' = drifted \cup retention.touched
  /\ retention' = AtRest
  /\ UNCHANGED <<config, job, pending, tables, expired, resolvedAt, triages, orphaned>>

-----------------------------------------------------------------------------
Work(w) ==
  \/ \E e \in Events : Take(w, e)
  \/ LookupCurrent(w) \/ LookupLegacy(w) \/ Store(w) \/ Commit(w) \/ StoreFails(w)

Retain ==
  \/ \E S \in SUBSET StoredEvents : ExpireEvents(S)
  \/ DeleteUsers \/ RecountReads \/ RecountWrites \/ RecountLost

Next ==
  \/ \E e \in Events : Deliver(e)
  \/ \E w \in Workers : Work(w) \/ \E v \in Versions : Redeploy(w, v)
  \/ \E i \in Hashes, s \in Statuses : SetIssueStatus(i, s)
  \/ Retain

Spec == Init /\ [][Next]_vars

\* Workers go on; nobody need deliver, triage or expire anything.
FairSpec ==
  /\ Spec
  /\ \A w \in Workers : WF_vars(Work(w)) /\ \A e \in Events : SF_vars(Take(w, e))

-----------------------------------------------------------------------------
(* Safety.                                                                 *)

EventsOf(i) == {e \in StoredEvents : stored[e] = i}

\* Every Event an Issue ever counted is retained or was deleted by retention, and
\* none was counted twice: not by two workers at once, not by a delivery that comes
\* again, not through another hash (the transaction of processPayload).
CountAccounted ==
  \A i \in Hashes : issues[i].count = Cardinality(EventsOf(i)) + expired[i]

\* An Issue is resolved only while no Event has come since, whether by the upsert of
\* its hash or by the update of a mapped id, and a regression is one that has.
ResolvedIsQuiet ==
  \A i \in Hashes :
    /\ issues[i].status = "resolved" => issues[i].count = resolvedAt[i] /\ ~issues[i].regression
    /\ issues[i].regression => resolvedAt[i] >= 0 /\ issues[i].count > resolvedAt[i]

HasMember(e) == UserOf(e) # None => <<stored[e], UserOf(e)>> \in members

\* Retention never takes an identity that a retained Event still has, except from
\* under the open transaction that stores the Event (cleanupIssueUsers).
MembersCoverEvents == \A e \in StoredEvents \ orphaned : HasMember(e)

\* The users counter is the number of identities, except between a deletion and its
\* recount and where that recount was lost or overtaken (cleanupIssueUsers).
UsersAgree ==
  \A i \in Hashes \ (retention.touched \cup drifted) : issues[i].users = MembersOf(i)

-----------------------------------------------------------------------------
(* The abstract specification.                                             *)

Ledger == INSTANCE IssueLedger WITH
  hash <- [e \in Events |-> HashOf(e)],
  issue <- [i \in Hashes |-> [version |-> issues[i].version, count |-> issues[i].count,
                              status |-> issues[i].status, regression |-> issues[i].regression]]

\* To the tables of Events, Issues and hashes, a worker's lookups, its transaction of many
\* statements, which may roll back or find another worker's, and a lease that runs out look
\* like one step that stores the Event, charges its Issue and maps its hash (processPayload,
\* lookupGroupingIssue).
ImplementsLedger == Ledger!Spec

-----------------------------------------------------------------------------
(* What the repository says and the code does not do (violation run).      *)

\* technical-design.md: concurrent creation converges after the conflict.  So every
\* delivered Event is stored in the end, whichever version its worker runs.
EveryEventStored == \A e \in Events : e \in pending ~> e \notin pending
=============================================================================
