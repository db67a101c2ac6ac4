------------------------ MODULE IssueAggregation_proofs ------------------------
(***************************************************************************)
(* Proofs about IssueAggregation, for any number of workers, Events, hashes *)
(* and users, any contents and any number of deletions, status changes and  *)
(* failures: what the counters of an Issue count, when it is resolved,      *)
(* which identities retention keeps, and that it implements IssueLedger.    *)
(* The last part is about EventPath, for any Events, source maps and        *)
(* settings: when two Events have the hash that makes them one Issue.       *)
(***************************************************************************)
EXTENDS IssueAggregation, EventPath, FiniteSetTheorems, SequenceTheorems, TLAPS

-----------------------------------------------------------------------------
(* The invariant.                                                          *)

Job == [phase : {"idle", "current", "legacy", "store", "commit"}, event : Events \cup {None},
        mapped : Hashes \cup {None}, saw : BOOLEAN]
Retention == [phase : {"idle", "users", "recount", "write"}, touched : SUBSET Hashes,
              seen : [Hashes -> Nat]]

HasEvent == \A w \in Workers : job[w].phase # "idle" => job[w].event \in Events

Open(w) == job[w].phase = "commit"
Identity(w) == <<Target(w), UserOf(job[w].event)>>

\* An open transaction stores an Event that is not stored, and an identity it has not
\* seen is still not there: others may take identities of its Issue, none may add one.
Sound == \A w \in Workers : Open(w) =>
  /\ stored[job[w].event] = None
  /\ ~job[w].saw /\ UserOf(job[w].event) # None => Identity(w) \notin members

\* The row locks of open transactions.
Exclusive == \A v, w \in Workers : Open(v) /\ Open(w) /\ v # w =>
  Target(v) # Target(w) /\ job[v].event # job[w].event

\* What is counted can be counted.
Identities(i) == {u \in Users : <<i, u>> \in members}
Countable == IsFiniteSet(StoredEvents) /\ \A i \in Hashes : IsFiniteSet(Identities(i))

\* An Issue that is not there has counted nothing, and nobody belongs to it.
Absent == \A i \in Hashes : ~Present(i) =>
  /\ issues[i].count = 0 /\ issues[i].status = "unresolved" /\ ~issues[i].regression
  /\ \A u \in Users : <<i, u>> \notin members

\* What the recount is about to write is the number of identities, or else the Issue is
\* one that was overtaken.
Recounted ==
  /\ retention.phase \in {"idle", "users"} => retention.touched = {}
  /\ retention.phase = "write" =>
       \A i \in retention.touched \ drifted : retention.seen[i] = MembersOf(i)

Inv == /\ TypeOK /\ HasEvent /\ Sound /\ Exclusive /\ Countable /\ Absent /\ Recounted
       /\ CountAccounted /\ ResolvedIsQuiet /\ MembersCoverEvents /\ UsersAgree

-----------------------------------------------------------------------------
LEMMA EmptyCounts == IsFiniteSet({}) /\ Cardinality({}) = 0
BY FS_EmptySet

LEMMA InitInv == Init => Inv
<1>. SUFFICES ASSUME Init PROVE Inv
  OBVIOUS
<1>1. TypeOK
  BY BoundAssumption DEF Init, TypeOK, Idle, AtRest, NoIssue, Issue, Statuses, Versions
<1>2. HasEvent /\ Sound /\ Exclusive /\ Recounted
  BY DEF Init, HasEvent, Sound, Exclusive, Recounted, Open, Idle, AtRest
<1>3. StoredEvents = {} /\ \A i \in Hashes : EventsOf(i) = {} /\ Identities(i) = {}
  BY DEF Init, StoredEvents, EventsOf, Identities
<1>4. Countable /\ Absent
  BY <1>3, EmptyCounts DEF Init, Countable, Absent, NoIssue
<1>5. CountAccounted
  <2>1. \A i \in Hashes : issues[i].count = 0 /\ expired[i] = 0
    BY DEF Init, NoIssue
  <2>. QED
    BY <1>3, <2>1, EmptyCounts DEF CountAccounted
<1>6. ResolvedIsQuiet
  BY DEF Init, ResolvedIsQuiet, NoIssue
<1>7. MembersCoverEvents
  BY <1>3 DEF MembersCoverEvents
<1>8. UsersAgree
  BY <1>3, EmptyCounts DEF Init, UsersAgree, MembersOf, Identities, NoIssue
<1>. QED
  BY <1>1, <1>2, <1>4, <1>5, <1>6, <1>7, <1>8 DEF Inv

-----------------------------------------------------------------------------
(* Steps of jobs that touch no table.                                      *)

LEMMA FaultType == ASSUME TypeOK, Fault \/ UNCHANGED faults PROVE faults' \in 0 .. MaxFaults
BY BoundAssumption DEF TypeOK, Fault

\* Types of what an Event is.
LEMMA ContentType ==
  ASSUME TypeOK, NEW e \in Events
  PROVE  UserOf(e) \in Users \cup {None} /\ HashOf(e) \in [Versions -> Hashes]
BY ContentAssumption DEF TypeOK, Content, UserOf, HashOf

LEMMA TargetType ==
  ASSUME TypeOK, HasEvent, NEW w \in Workers, job[w].phase # "idle"
  PROVE  /\ Hash(w) \in Hashes /\ Target(w) \in Hashes
         /\ UserOf(job[w].event) \in Users \cup {None} /\ job[w].event \in Events
BY ContentType DEF TypeOK, HasEvent, Hash, Target

LEMMA SameTarget ==
  ASSUME NEW w, job'[w].mapped = job[w].mapped, job'[w].event = job[w].event,
         version'[w] = version[w], content' = content
  PROVE  Target(w)' = Target(w) /\ Identity(w)' = Identity(w) /\ Hash(w)' = Hash(w)
BY DEF Target, Identity, Hash, HashOf, UserOf

\* Where the tables stay and no transaction is opened, everything holds on.
LEMMA JobsMove ==
  ASSUME Inv, UNCHANGED <<content, tables, retention, history>>, Fault \/ UNCHANGED faults,
         version' \in [Workers -> Versions], job' \in [Workers -> Job], pending' \subseteq Events,
         \A w \in Workers : Open(w)' => job'[w] = job[w] /\ version'[w] = version[w],
         \A w \in Workers : job'[w].phase # "idle" => job'[w].event \in Events
  PROVE  Inv'
<1>1. UNCHANGED <<content, issues, mapping, stored, members, retention, expired, resolvedAt,
                  triages, drifted, orphaned>>
  BY DEF tables, history
<1>2. TypeOK'
  BY <1>1, FaultType DEF Inv, TypeOK, Job
<1>3. \A w \in Workers : Open(w)' =>
        /\ Open(w) /\ job'[w] = job[w]
        /\ Target(w)' = Target(w) /\ Identity(w)' = Identity(w)
  BY <1>1, SameTarget DEF Open
<1>4. HasEvent' /\ Sound' /\ Exclusive'
  BY <1>1, <1>3 DEF Inv, HasEvent, Sound, Exclusive, UserOf
<1>5. Countable' /\ Absent' /\ Recounted'
  BY <1>1 DEF Inv, Countable, Absent, Recounted, StoredEvents, Identities, Present, MembersOf
<1>6. CountAccounted' /\ ResolvedIsQuiet' /\ UsersAgree'
  BY <1>1 DEF Inv, CountAccounted, ResolvedIsQuiet, UsersAgree, EventsOf, StoredEvents, MembersOf
<1>7. MembersCoverEvents'
  BY <1>1 DEF Inv, MembersCoverEvents, StoredEvents, HasMember, UserOf
<1>. QED
  BY <1>2, <1>4, <1>5, <1>6, <1>7 DEF Inv

LEMMA DeliverInv == ASSUME Inv, NEW e \in Events, Deliver(e) PROVE Inv'
BY JobsMove DEF Inv, TypeOK, Deliver, config, HasEvent, Job

LEMMA TakeInv == ASSUME Inv, NEW w \in Workers, NEW e \in Events, Take(w, e) PROVE Inv'
<1>. DEFINE taken == [Idle EXCEPT !.phase = "current", !.event = e]
<1>1. /\ job' = [job EXCEPT ![w] = taken]
      /\ UNCHANGED <<content, version, pending, tables, retention, history, faults>>
  BY DEF Take, config
<1>2. taken \in Job /\ taken.event = e /\ taken.phase = "current"
  <2>1. Idle \in Job
    BY DEF Idle, Job
  <2>. QED
    BY <2>1 DEF Job
<1>. HIDE DEF taken
<1>3. job' \in [Workers -> Job] /\ job'[w] = taken /\ \A v \in Workers \ {w} : job'[v] = job[v]
  BY <1>1, <1>2 DEF Inv, TypeOK, Job
<1>. QED
  BY <1>1, <1>2, <1>3, JobsMove DEF Inv, TypeOK, HasEvent, Open

LEMMA RestartInv ==
  ASSUME Inv, NEW w \in Workers, job' = [job EXCEPT ![w] = Idle],
         UNCHANGED <<content, tables, retention, history>>, Fault \/ UNCHANGED faults,
         version' \in [Workers -> Versions], \A v \in Workers \ {w} : version'[v] = version[v],
         pending' \subseteq Events
  PROVE  Inv'
BY JobsMove DEF Inv, TypeOK, HasEvent, Job, Open, Idle

LEMMA RedeployInv == ASSUME Inv, NEW w \in Workers, NEW v \in Versions, Redeploy(w, v) PROVE Inv'
BY RestartInv DEF Inv, TypeOK, Redeploy

LEMMA StoreFailsInv == ASSUME Inv, NEW w \in Workers, StoreFails(w) PROVE Inv'
BY RestartInv DEF Inv, TypeOK, StoreFails, config

LEMMA LookedUpInv ==
  ASSUME Inv, NEW w \in Workers, job[w].phase \in {"current", "legacy"},
         NEW found \in Hashes \cup {None}, NEW next \in {"legacy", "store"},
         LookedUp(w, found, next), Fault \/ UNCHANGED faults,
         UNCHANGED <<config, pending, tables, retention, history>>
  PROVE  Inv'
<1>1. /\ job' = [job EXCEPT ![w].mapped = found,
                            ![w].phase = IF found = None THEN next ELSE "store"]
      /\ UNCHANGED <<content, version, pending>>
  BY DEF LookedUp, config
<1>2. job \in [Workers -> Job] /\ job[w].event \in Events /\ version \in [Workers -> Versions]
      /\ pending \subseteq Events
  BY DEF Inv, TypeOK, HasEvent, Job
<1>3. /\ job' \in [Workers -> Job]
      /\ job'[w].phase \in {"legacy", "store"} /\ job'[w].event = job[w].event
      /\ \A v \in Workers \ {w} : job'[v] = job[v]
  BY <1>1, <1>2 DEF Job
<1>4. \A v \in Workers : job'[v].phase # "idle" => job'[v].event \in Events
  BY <1>2, <1>3 DEF Inv, HasEvent
<1>. QED
  BY <1>1, <1>2, <1>3, <1>4, JobsMove DEF Open

LEMMA LookupInv ==
  ASSUME Inv, NEW w \in Workers, LookupCurrent(w) \/ LookupLegacy(w) PROVE Inv'
<1>1. job[w].phase \in {"current", "legacy"}
  BY DEF LookupCurrent, LookupLegacy
<1>2. /\ mapping[<<version[w], Hash(w)>>] \in Hashes \cup {None}
      /\ mapping[<<1, HashOf(job[w].event)[1]>>] \in Hashes \cup {None}
  BY <1>1, TargetType, ContentType DEF Inv, TypeOK, Versions
<1>. QED
  BY <1>1, <1>2, LookedUpInv DEF LookupCurrent, LookupLegacy

-----------------------------------------------------------------------------
(* The transaction.                                                        *)

LEMMA OpenedJob ==
  ASSUME TypeOK, NEW w \in Workers, NEW seen \in BOOLEAN,
         job' = [job EXCEPT ![w].phase = "commit", ![w].saw = seen]
  PROVE  /\ job' \in [Workers -> Job]
         /\ \A v \in Workers : /\ job'[v].event = job[v].event /\ job'[v].mapped = job[v].mapped
                               /\ v # w => job'[v] = job[v]
         /\ job'[w].phase = "commit" /\ job'[w].saw = seen
<1>1. job \in [Workers -> Job]
  BY DEF TypeOK, Job
<1>. QED
  BY <1>1 DEF Job

\* Opening it: nobody holds its Issue or its Event.
LEMMA StoreInv == ASSUME Inv, NEW w \in Workers, Store(w) PROVE Inv'
<1>. DEFINE e == job[w].event
<1>1. CASE job' = [job EXCEPT ![w] = Idle] /\ pending' = pending \ {e}
  BY <1>1, RestartInv DEF Inv, TypeOK, Store, config
<1>2. CASE /\ Fresh(e) /\ UNCHANGED pending
           /\ job' = [job EXCEPT ![w].phase = "commit",
                                 ![w].saw = <<Target(w), UserOf(e)>> \in members]
  <2>1. /\ UNCHANGED <<content, version, issues, mapping, stored, members, retention, expired,
                       resolvedAt, triages, drifted, orphaned, faults>>
        /\ ~Waits(w) /\ job[w].phase = "store"
    BY <1>2 DEF Store, config, tables, history
  <2>. DEFINE seen == <<Target(w), UserOf(e)>> \in members
  <2>2. seen \in BOOLEAN
    OBVIOUS
  <2>. HIDE DEF seen
  <2>3. /\ job' \in [Workers -> Job]
        /\ \A v \in Workers : /\ job'[v].event = job[v].event /\ job'[v].mapped = job[v].mapped
                              /\ v # w => job'[v] = job[v]
        /\ job'[w].phase = "commit" /\ job'[w].saw = seen
    <3>1. job' = [job EXCEPT ![w].phase = "commit", ![w].saw = seen]
      BY <1>2, Zenon DEF seen
    <3>2. TypeOK
      BY DEF Inv
    <3>. QED
      BY <2>2, <3>1, <3>2, OpenedJob
  <2>4. \A v \in Workers : Target(v)' = Target(v) /\ Identity(v)' = Identity(v)
    BY <2>1, <2>3, SameTarget
  <2>5. TypeOK'
    BY <1>2, <2>1, <2>3 DEF Inv, TypeOK, Job
  <2>6. HasEvent'
    BY <2>1, <2>3 DEF Inv, HasEvent
  <2>7. ASSUME NEW v \in Workers, Open(v)'
        PROVE  /\ stored'[job'[v].event] = None
               /\ ~job'[v].saw /\ UserOf(job[v].event)' # None => Identity(v)' \notin members'
    <3>1. CASE v = w
      BY <1>2, <2>1, <2>3, <2>4, <3>1 DEF Fresh, Identity, seen
    <3>2. CASE v # w
      BY <2>1, <2>3, <2>4, <2>7, <3>2 DEF Inv, Sound, Open, UserOf
    <3>. QED
      BY <3>1, <3>2
  <2>8. \A v \in Workers \ {w} : Open(v) => Target(v) # Target(w) /\ job[v].event # e
    BY <2>1 DEF Waits, Locked, Open
  <2>9. Exclusive'
    <3>1. ASSUME NEW u \in Workers, NEW v \in Workers, Open(u)', Open(v)', u # v
          PROVE  Target(u) # Target(v) /\ job[u].event # job[v].event
      BY <2>3, <2>8, <3>1 DEF Inv, Exclusive, Open
    <3>. QED
      BY <2>3, <2>4, <3>1 DEF Exclusive
  <2>10. Sound'
    BY <2>1, <2>3, <2>7 DEF Sound, UserOf
  <2>11. Countable' /\ Absent' /\ Recounted'
    BY <2>1 DEF Inv, Countable, Absent, Recounted, StoredEvents, Identities, Present, MembersOf
  <2>12. CountAccounted' /\ ResolvedIsQuiet' /\ UsersAgree'
    BY <2>1 DEF Inv, CountAccounted, ResolvedIsQuiet, UsersAgree, EventsOf, StoredEvents, MembersOf
  <2>13. MembersCoverEvents'
    BY <2>1 DEF Inv, MembersCoverEvents, StoredEvents, HasMember, UserOf
  <2>. QED
    BY <2>5, <2>6, <2>9, <2>10, <2>11, <2>12, <2>13 DEF Inv
<1>. QED
  BY <1>1, <1>2 DEF Store

\* The row of an Issue once bumped and counted.
LEMMA BumpedRow ==
  ASSUME NEW row \in Issue
  PROVE  /\ Bumped(row) \in Issue
         /\ Bumped(row).version = row.version /\ Bumped(row).users = row.users
         /\ Bumped(row).count = row.count + 1
         /\ Bumped(row).status = IF row.status = "resolved" THEN "unresolved" ELSE row.status
         /\ Bumped(row).regression <=> row.regression \/ row.status = "resolved"
<1>. DEFINE comeback == row.regression \/ row.status = "resolved"
<1>1. comeback \in BOOLEAN /\ row.count + 1 \in Nat
  BY DEF Issue
<1>2. Bumped(row) = [row EXCEPT !.count = @ + 1,
                                !.status = IF @ = "resolved" THEN "unresolved" ELSE @,
                                !.regression = comeback]
  BY Zenon DEF Bumped
<1>. HIDE DEF comeback
<1>3. /\ Bumped(row) \in Issue
      /\ Bumped(row).version = row.version /\ Bumped(row).users = row.users
      /\ Bumped(row).count = row.count + 1
      /\ Bumped(row).status = IF row.status = "resolved" THEN "unresolved" ELSE row.status
      /\ Bumped(row).regression = comeback
  BY <1>1, <1>2 DEF Issue, Statuses
<1>. QED
  BY <1>3 DEF comeback

LEMMA CountedRow ==
  ASSUME NEW row \in Issue, NEW u, NEW saw \in BOOLEAN
  PROVE  /\ Counted(u, saw, row) \in Issue
         /\ Counted(u, saw, row).version = row.version
         /\ Counted(u, saw, row).count = row.count
         /\ Counted(u, saw, row).status = row.status
         /\ Counted(u, saw, row).regression = row.regression
         /\ Counted(u, saw, row).users = IF u # None /\ ~saw THEN row.users + 1 ELSE row.users
BY DEF Counted, Issue

\* What a commit does to the tables.
LEMMA CommitFacts ==
  ASSUME Inv, NEW w \in Workers, Commit(w)
  PROVE  LET e == job[w].event
             i == Target(w)
             u == UserOf(e)
             joined == IF job[w].saw \/ u = None THEN {} ELSE {<<i, u>>} IN
         /\ Open(w) /\ e \in Events /\ i \in Hashes /\ u \in Users \cup {None}
         /\ stored[e] = None /\ joined \cap members = {}
         /\ stored' = [stored EXCEPT ![e] = i]
         /\ members' = members \cup joined
         /\ \A h \in Hashes \ {i} : issues'[h] = issues[h]
         /\ issues' \in [Hashes -> Issue]
         /\ issues'[i].version # 0
         /\ issues'[i].count = issues[i].count + 1
         /\ issues'[i].status = IF issues[i].status = "resolved" THEN "unresolved" ELSE issues[i].status
         /\ issues'[i].regression <=> issues[i].regression \/ issues[i].status = "resolved"
         /\ issues'[i].users = (IF Present(i) THEN issues[i].users ELSE 0)
                                + (IF u # None /\ ~job[w].saw THEN 1 ELSE 0)
<1>. DEFINE e == job[w].event
            i == Target(w)
            u == UserOf(e)
            row == IF Present(i) THEN Bumped(issues[i])
                   ELSE [NoIssue EXCEPT !.version = version[w], !.count = 1]
<1>1. /\ Open(w) /\ e \in Events /\ i \in Hashes /\ u \in Users \cup {None}
      /\ job[w].saw \in BOOLEAN /\ issues \in [Hashes -> Issue] /\ version[w] \in Versions
  BY TargetType DEF Inv, TypeOK, Commit, Open
<1>2. /\ stored[e] = None
      /\ ~job[w].saw /\ u # None => <<i, u>> \notin members
  BY <1>1 DEF Inv, Sound, Identity
<1>3. /\ row \in Issue /\ row.version # 0 /\ row.count = issues[i].count + 1
      /\ row.status = IF issues[i].status = "resolved" THEN "unresolved" ELSE issues[i].status
      /\ row.regression <=> issues[i].regression \/ issues[i].status = "resolved"
      /\ row.users = IF Present(i) THEN issues[i].users ELSE 0
  <2>1. CASE Present(i)
    BY <1>1, <2>1, BumpedRow DEF Present
  <2>2. CASE ~Present(i)
    <3>1. NoIssue \in Issue /\ NoIssue.status = "unresolved" /\ ~NoIssue.regression /\ NoIssue.users = 0
      BY DEF NoIssue, Issue, Statuses
    <3>2. issues[i].count = 0 /\ issues[i].status = "unresolved" /\ ~issues[i].regression
      BY <1>1, <2>2 DEF Inv, Absent
    <3>3. row = [NoIssue EXCEPT !.version = version[w], !.count = 1]
      BY <2>2
    <3>. HIDE DEF row
    <3>4. /\ row \in Issue /\ row.version = version[w] /\ row.count = 1 /\ row.users = 0
          /\ row.status = "unresolved" /\ ~row.regression
      BY <1>1, <3>1, <3>3 DEF Issue
    <3>. QED
      BY <1>1, <2>2, <3>2, <3>4 DEF Versions
  <2>. QED
    BY <2>1, <2>2
<1>4. issues' = [issues EXCEPT ![i] = Counted(u, job[w].saw, row)]
  BY DEF Commit
<1>. HIDE DEF row
<1>5. /\ \A h \in Hashes \ {i} : issues'[h] = issues[h]
      /\ issues'[i] = Counted(u, job[w].saw, row)
      /\ issues' \in [Hashes -> Issue]
  BY <1>1, <1>3, <1>4, CountedRow
<1>6. row.users \in Nat /\ row.count \in Nat
  BY <1>3 DEF Issue
<1>7. /\ issues'[i].version = row.version /\ issues'[i].count = row.count
      /\ issues'[i].status = row.status /\ issues'[i].regression = row.regression
      /\ issues'[i].users = IF u # None /\ ~job[w].saw THEN row.users + 1 ELSE row.users
  BY <1>1, <1>3, <1>5, CountedRow
<1>8. /\ stored' = [stored EXCEPT ![e] = i]
      /\ members' = members \cup (IF job[w].saw \/ u = None THEN {} ELSE {<<i, u>>})
  BY DEF Commit, Joined
<1>. QED
  BY <1>1, <1>2, <1>3, <1>5, <1>6, <1>7, <1>8

LEMMA CommitTyped == ASSUME Inv, NEW w \in Workers, Commit(w) PROVE TypeOK' /\ HasEvent'
<1>1. /\ job[w].event \in Events /\ Target(w) \in Hashes /\ Hash(w) \in Hashes
      /\ UserOf(job[w].event) \in Users \cup {None} /\ version[w] \in Versions
  BY TargetType DEF Inv, TypeOK, Commit
<1>2. /\ stored' \in [Events -> Hashes \cup {None}] /\ issues' \in [Hashes -> Issue]
      /\ members' \subseteq Hashes \X Users
  BY <1>1, CommitFacts DEF Inv, TypeOK
<1>3. mapping' \in [Versions \X Hashes -> Hashes \cup {None}]
  BY <1>1 DEF Inv, TypeOK, Commit
<1>4. job' = [job EXCEPT ![w] = Idle] /\ Idle \in Job
  BY DEF Commit, Idle, Job
<1>5. job' \in [Workers -> Job]
  BY <1>4 DEF Inv, TypeOK, Job
<1>6. drifted' \subseteq Hashes /\ orphaned' \subseteq Events /\ pending' \subseteq Events
  BY <1>1 DEF Inv, TypeOK, Commit
<1>7. TypeOK'
  BY <1>2, <1>3, <1>5, <1>6 DEF Inv, TypeOK, Commit, config, Job
<1>8. HasEvent'
  BY <1>4 DEF Inv, TypeOK, HasEvent, Idle
<1>. QED
  BY <1>7, <1>8

\* The transactions that are still open.
LEMMA CommitLocks == ASSUME Inv, NEW w \in Workers, Commit(w) PROVE Sound' /\ Exclusive'
<1>1. /\ UNCHANGED <<content, version>> /\ job' = [job EXCEPT ![w] = Idle]
      /\ job \in [Workers -> Job]
  BY DEF Commit, config, Inv, TypeOK, Job
<1>2. \A v \in Workers : Open(v)' =>
        v # w /\ Open(v) /\ job'[v] = job[v] /\ Target(v)' = Target(v) /\ Identity(v)' = Identity(v)
  BY <1>1, SameTarget DEF Open, Idle
<1>3. Exclusive'
  BY <1>2 DEF Inv, Exclusive
<1>4. ASSUME NEW v \in Workers, Open(v)'
      PROVE  /\ stored'[job[v].event] = None
             /\ ~job[v].saw /\ UserOf(job[v].event) # None => Identity(v) \notin members'
  <2>1. Target(v) # Target(w) /\ job[v].event # job[w].event
    BY <1>2, <1>4 DEF Inv, Exclusive, Commit, Open
  <2>2. /\ stored[job[v].event] = None
        /\ ~job[v].saw /\ UserOf(job[v].event) # None => Identity(v) \notin members
    BY <1>2, <1>4 DEF Inv, Sound
  <2>3. stored'[job[v].event] = stored[job[v].event]
    <3>1. job[v].event \in Events /\ stored \in [Events -> Hashes \cup {None}]
      BY <1>2, <1>4 DEF Inv, TypeOK, HasEvent, Open
    <3>. QED
      BY <2>1, <3>1, CommitFacts
  <2>4. members' \subseteq members \cup {<<Target(w), UserOf(job[w].event)>>}
    BY CommitFacts
  <2>. QED
    BY <2>1, <2>2, <2>3, <2>4 DEF Identity
<1>5. Sound'
  BY <1>1, <1>2, <1>4 DEF Sound, UserOf
<1>. QED
  BY <1>3, <1>5

\* The Event that is stored is counted, once.
LEMMA CommitCounts ==
  ASSUME Inv, NEW w \in Workers, Commit(w)
  PROVE  IsFiniteSet(StoredEvents)' /\ CountAccounted'
<1>. DEFINE e == job[w].event
            i == Target(w)
<1>1. /\ e \in Events /\ i \in Hashes /\ i # None /\ stored[e] = None
      /\ stored \in [Events -> Hashes \cup {None}] /\ stored' = [stored EXCEPT ![e] = i]
      /\ expired' = expired /\ IsFiniteSet(StoredEvents)
  <2>1. expired' = expired /\ stored \in [Events -> Hashes \cup {None}] /\ IsFiniteSet(StoredEvents)
    BY DEF Inv, TypeOK, Countable, Commit
  <2>. QED
    BY <2>1, CommitFacts, BoundAssumption
<1>2. StoredEvents' = StoredEvents \cup {e} /\ e \notin StoredEvents
  BY <1>1 DEF StoredEvents
<1>3. IsFiniteSet(StoredEvents)'
  BY <1>1, <1>2, FS_AddElement
<1>4. ASSUME NEW h \in Hashes
      PROVE  issues'[h].count = Cardinality(EventsOf(h)') + expired'[h]
  <2>1. /\ issues[h].count = Cardinality(EventsOf(h)) + expired[h] /\ expired[h] \in Nat
        /\ issues \in [Hashes -> Issue]
    BY DEF Inv, TypeOK, CountAccounted
  <2>2. IsFiniteSet(EventsOf(h))
    BY <1>1, FS_Subset DEF EventsOf
  <2>3. CASE h = i
    <3>1. EventsOf(h)' = EventsOf(h) \cup {e} /\ e \notin EventsOf(h)
      BY <1>1, <1>2, <2>3 DEF EventsOf
    <3>2. Cardinality(EventsOf(h)') = Cardinality(EventsOf(h)) + 1
      BY <2>2, <3>1, FS_AddElement
    <3>3. Cardinality(EventsOf(h)) \in Nat
      BY <2>2, FS_CardinalityType
    <3>4. issues'[h].count = issues[h].count + 1
      BY <2>3, CommitFacts
    <3>. QED
      BY <1>1, <2>1, <3>2, <3>3, <3>4
  <2>4. CASE h # i
    <3>1. EventsOf(h)' = EventsOf(h)
      BY <1>1, <1>2, <2>4 DEF EventsOf
    <3>2. issues'[h] = issues[h]
      BY <2>4, CommitFacts
    <3>. QED
      BY <1>1, <2>1, <3>1, <3>2
  <2>. QED
    BY <2>3, <2>4
<1>. QED
  BY <1>3, <1>4 DEF CountAccounted

\* The identity is a member from now on, if the transaction did not take it for one.
LEMMA CommitMembers ==
  ASSUME Inv, NEW w \in Workers, Commit(w)
  PROVE  (\A h \in Hashes : IsFiniteSet(Identities(h)))' /\ Absent' /\ MembersCoverEvents'
<1>. DEFINE e == job[w].event
            i == Target(w)
            u == UserOf(e)
<1>1. /\ e \in Events /\ i \in Hashes /\ u \in Users \cup {None} /\ i # None
      /\ stored \in [Events -> Hashes \cup {None}] /\ content' = content
      /\ issues \in [Hashes -> Issue]
  <2>1. /\ stored \in [Events -> Hashes \cup {None}] /\ content' = content
        /\ issues \in [Hashes -> Issue]
    BY DEF Inv, TypeOK, Commit, config
  <2>. QED
    BY <2>1, CommitFacts, BoundAssumption
<1>2. /\ stored' = [stored EXCEPT ![e] = i]
      /\ members' = members \cup (IF job[w].saw \/ u = None THEN {} ELSE {<<i, u>>})
      /\ \A h \in Hashes \ {i} : issues'[h] = issues[h]
      /\ issues'[i].version # 0
  BY CommitFacts
<1>3. ASSUME NEW h \in Hashes PROVE IsFiniteSet(Identities(h)')
  <2>1. IsFiniteSet(Identities(h))
    BY DEF Inv, Countable
  <2>2. Identities(h)' \subseteq Identities(h) \cup {u}
    BY <1>2 DEF Identities
  <2>3. IsFiniteSet(Identities(h) \cup {u})
    BY <2>1, FS_AddElement
  <2>. QED
    BY <2>2, <2>3, FS_Subset
<1>4. Absent'
  <2>. SUFFICES ASSUME NEW h \in Hashes, ~Present(h)'
                PROVE  /\ issues'[h].count = 0 /\ issues'[h].status = "unresolved"
                       /\ ~issues'[h].regression /\ \A v \in Users : <<h, v>> \notin members'
    BY DEF Absent
  <2>1. h # i /\ issues'[h] = issues[h]
    BY <1>2 DEF Present
  <2>. QED
    BY <1>2, <2>1 DEF Inv, Absent, Present
<1>5. MembersCoverEvents'
  <2>. SUFFICES ASSUME NEW d \in Events, stored'[d] # None, d \notin orphaned', UserOf(d) # None
                PROVE  <<stored'[d], UserOf(d)>> \in members'
    BY <1>1 DEF MembersCoverEvents, StoredEvents, HasMember, UserOf
  <2>1. orphaned' = IF job[w].saw /\ <<i, u>> \notin members THEN orphaned \cup {e} ELSE orphaned
    BY DEF Commit
  <2>2. CASE d = e
    BY <1>1, <1>2, <2>1, <2>2
  <2>3. CASE d # e
    <3>1. stored'[d] = stored[d] /\ d \notin orphaned
      BY <1>1, <1>2, <2>1, <2>3
    <3>. QED
      BY <1>2, <3>1 DEF Inv, MembersCoverEvents, StoredEvents, HasMember
  <2>. QED
    BY <2>2, <2>3
<1>. QED
  BY <1>3, <1>4, <1>5

\* The users of the Issue are counted on, and of no other.
LEMMA CommitUsers ==
  ASSUME Inv, NEW w \in Workers, Commit(w)
  PROVE  UsersAgree' /\ Recounted' /\ ResolvedIsQuiet'
<1>0. PICK i, u : i = Target(w) /\ u = UserOf(job[w].event)
  OBVIOUS
<1>. DEFINE joins == ~job[w].saw /\ u # None
<1>1. /\ i \in Hashes /\ u \in Users \cup {None}
      /\ members' = members \cup (IF joins THEN {<<i, u>>} ELSE {})
      /\ joins => <<i, u>> \notin members
      /\ \A h \in Hashes \ {i} : issues'[h] = issues[h]
      /\ issues'[i].users = (IF Present(i) THEN issues[i].users ELSE 0) + (IF joins THEN 1 ELSE 0)
  <2>1. /\ members' = members \cup (IF job[w].saw \/ u = None THEN {} ELSE {<<i, u>>})
        /\ (IF job[w].saw \/ u = None THEN {} ELSE {<<i, u>>}) \cap members = {}
        /\ issues'[i].users = (IF Present(i) THEN issues[i].users ELSE 0)
                               + (IF u # None /\ ~job[w].saw THEN 1 ELSE 0)
        /\ i \in Hashes /\ u \in Users \cup {None}
        /\ \A h \in Hashes \ {i} : issues'[h] = issues[h]
    BY <1>0, CommitFacts
  <2>2. CASE joins
    BY <2>1, <2>2
  <2>3. CASE ~joins
    BY <2>1, <2>3
  <2>. QED
    BY <2>2, <2>3
<1>2. /\ UNCHANGED <<retention, expired, resolvedAt>> /\ drifted \subseteq drifted'
      /\ retention.phase = "write" /\ i \in retention.touched /\ members' # members => i \in drifted'
      /\ drifted' \subseteq drifted \cup retention.touched
  BY <1>0 DEF Commit
<1>. HIDE DEF joins
<1>3. ASSUME NEW h \in Hashes, h # i PROVE MembersOf(h)' = MembersOf(h)
  <2>1. Identities(h)' = Identities(h)
    BY <1>1, <1>3 DEF Identities
  <2>. QED
    BY <2>1 DEF MembersOf, Identities
<1>4. MembersOf(i)' = MembersOf(i) + (IF joins THEN 1 ELSE 0) /\ MembersOf(i) \in Nat
  <2>1. IsFiniteSet(Identities(i)) /\ Cardinality(Identities(i)) \in Nat
    BY <1>1, FS_CardinalityType DEF Inv, Countable
  <2>2. CASE joins
    <3>1. u \in Users
      BY <1>1, <2>2 DEF joins
    <3>2. Identities(i)' = Identities(i) \cup {u} /\ u \notin Identities(i)
      BY <1>1, <2>2, <3>1 DEF Identities
    <3>3. Cardinality(Identities(i)') = Cardinality(Identities(i)) + 1
      BY <2>1, <3>2, FS_AddElement
    <3>. QED
      BY <2>1, <2>2, <3>3 DEF MembersOf, Identities
  <2>3. CASE ~joins
    <3>1. Identities(i)' = Identities(i)
      BY <1>1, <2>3 DEF Identities
    <3>2. MembersOf(i) = Cardinality(Identities(i)) /\ MembersOf(i)' = Cardinality(Identities(i)')
      BY DEF MembersOf, Identities
    <3>. QED
      BY <2>1, <2>3, <3>1, <3>2
  <2>. QED
    BY <2>2, <2>3
<1>5. UsersAgree'
  <2>. SUFFICES ASSUME NEW h \in Hashes, h \notin retention.touched, h \notin drifted'
                PROVE  issues'[h].users = MembersOf(h)'
    BY <1>2 DEF UsersAgree
  <2>1. issues[h].users = MembersOf(h)
    BY <1>2 DEF Inv, UsersAgree
  <2>2. CASE h # i
    BY <1>1, <1>3, <2>1, <2>2
  <2>3. CASE h = i /\ Present(i)
    BY <1>1, <1>4, <2>1, <2>3
  <2>4. CASE h = i /\ ~Present(i)
    <3>1. Identities(i) = {}
      BY <1>1, <2>4 DEF Inv, Absent, Identities
    <3>2. MembersOf(i) = 0
      BY <3>1, EmptyCounts DEF MembersOf, Identities
    <3>. QED
      BY <1>1, <1>4, <2>4, <3>2
  <2>. QED
    BY <2>2, <2>3, <2>4
<1>6. Recounted'
  <2>1. ASSUME retention.phase = "write", NEW h \in retention.touched, h \notin drifted'
        PROVE  retention.seen[h] = MembersOf(h)'
    <3>1. h \in Hashes /\ h \notin drifted /\ retention.seen[h] = MembersOf(h)
      BY <1>2, <2>1 DEF Inv, TypeOK, Recounted
    <3>2. CASE h # i
      BY <1>3, <3>1, <3>2
    <3>3. CASE h = i
      <4>1. members' = members
        BY <1>2, <2>1, <3>3
      <4>. QED
        BY <3>1, <4>1 DEF MembersOf
    <3>. QED
      BY <3>2, <3>3
  <2>. QED
    BY <1>2, <2>1 DEF Inv, Recounted
<1>7. ResolvedIsQuiet'
  <2>. SUFFICES ASSUME NEW h \in Hashes
                PROVE  /\ issues'[h].status = "resolved" =>
                             issues'[h].count = resolvedAt[h] /\ ~issues'[h].regression
                       /\ issues'[h].regression =>
                             resolvedAt[h] >= 0 /\ issues'[h].count > resolvedAt[h]
    BY <1>2 DEF ResolvedIsQuiet
  <2>1. /\ issues[h].status = "resolved" =>
             issues[h].count = resolvedAt[h] /\ ~issues[h].regression
        /\ issues[h].regression => resolvedAt[h] >= 0 /\ issues[h].count > resolvedAt[h]
        /\ issues[h].count \in Nat /\ resolvedAt[h] \in Nat \cup {-1}
    BY DEF Inv, TypeOK, ResolvedIsQuiet, Issue
  <2>2. CASE h # i
    BY <1>1, <2>1, <2>2
  <2>3. CASE h = i
    BY <1>0, <2>1, <2>3, CommitFacts
  <2>. QED
    BY <2>2, <2>3
<1>. QED
  BY <1>5, <1>6, <1>7

LEMMA CommitInv == ASSUME Inv, NEW w \in Workers, Commit(w) PROVE Inv'
BY CommitTyped, CommitLocks, CommitCounts, CommitMembers, CommitUsers DEF Inv, Countable

-----------------------------------------------------------------------------
(* The API and retention.                                                  *)

\* What steps that leave the transactions and the Events alone need not prove.
LEMMA LocksKept ==
  ASSUME Inv, UNCHANGED <<config, job, stored>>, members' \subseteq members
  PROVE  HasEvent' /\ Sound' /\ Exclusive'
<1>1. UNCHANGED <<content, version, job, stored>>
  BY DEF config
<1>2. \A w \in Workers : (Open(w)' <=> Open(w)) /\ Target(w)' = Target(w) /\ Identity(w)' = Identity(w)
  BY <1>1, SameTarget DEF Open
<1>. QED
  BY <1>1, <1>2 DEF Inv, HasEvent, Sound, Exclusive, UserOf

LEMMA SetIssueStatusInv ==
  ASSUME Inv, NEW i \in Hashes, NEW status \in Statuses, SetIssueStatus(i, status)
  PROVE  Inv'
<1>1. /\ UNCHANGED <<content, version, job, pending, mapping, stored, members, retention,
                      expired, drifted, orphaned, faults>>
      /\ issues' = [issues EXCEPT ![i].status = status, ![i].regression = FALSE]
      /\ resolvedAt' = IF status = "resolved" THEN [resolvedAt EXCEPT ![i] = issues[i].count]
                       ELSE resolvedAt
      /\ triages < MaxTriages /\ triages' = triages + 1 /\ Present(i)
  BY DEF SetIssueStatus, config
<1>2. issues \in [Hashes -> Issue] /\ resolvedAt \in [Hashes -> Nat \cup {-1}] /\ triages \in Nat
  BY DEF Inv, TypeOK
<1>3. /\ issues' \in [Hashes -> Issue]
      /\ \A h \in Hashes : /\ issues'[h].version = issues[h].version
                            /\ issues'[h].count = issues[h].count
                            /\ issues'[h].users = issues[h].users
                            /\ h # i => issues'[h] = issues[h]
      /\ issues'[i].status = status /\ ~issues'[i].regression
  BY <1>1, <1>2 DEF Issue
<1>4. issues[i].count \in Nat
  BY <1>2 DEF Issue
<1>5. resolvedAt' \in [Hashes -> Nat \cup {-1}] /\ triages' \in 0 .. MaxTriages
  BY <1>1, <1>2, <1>4, BoundAssumption
<1>6. TypeOK'
  BY <1>1, <1>3, <1>5 DEF Inv, TypeOK
<1>7. HasEvent' /\ Sound' /\ Exclusive'
  BY <1>1, LocksKept DEF config
<1>8. Countable' /\ Recounted' /\ MembersCoverEvents'
  BY <1>1 DEF Inv, Countable, Recounted, MembersCoverEvents, StoredEvents, Identities, MembersOf,
              HasMember, UserOf
<1>9. Absent'
  BY <1>1, <1>3 DEF Inv, Absent, Present
<1>10. CountAccounted' /\ UsersAgree'
  BY <1>1, <1>3 DEF Inv, CountAccounted, UsersAgree, EventsOf, StoredEvents, MembersOf
<1>11. ResolvedIsQuiet'
  <2>. SUFFICES ASSUME NEW h \in Hashes
                PROVE  /\ issues'[h].status = "resolved" =>
                             issues'[h].count = resolvedAt'[h] /\ ~issues'[h].regression
                       /\ issues'[h].regression =>
                             resolvedAt'[h] >= 0 /\ issues'[h].count > resolvedAt'[h]
    BY DEF ResolvedIsQuiet
  <2>1. CASE h = i
    BY <1>1, <1>2, <1>3, <2>1
  <2>2. CASE h # i
    BY <1>1, <1>2, <1>3, <2>2 DEF Inv, ResolvedIsQuiet
  <2>. QED
    BY <2>1, <2>2
<1>. QED
  BY <1>6, <1>7, <1>8, <1>9, <1>10, <1>11 DEF Inv

\* Events that retention takes were counted, and are as deleted ones from now on.
LEMMA ExpireEventsInv == ASSUME Inv, NEW S \in SUBSET StoredEvents, ExpireEvents(S) PROVE Inv'
<1>1. /\ UNCHANGED <<content, version, job, pending, issues, mapping, members, resolvedAt, triages,
                      drifted, orphaned, faults>>
      /\ stored' = [e \in Events |-> IF e \in S THEN None ELSE stored[e]]
      /\ expired' = [i \in Hashes |-> expired[i] + Cardinality({e \in S : stored[e] = i})]
      /\ retention' = [AtRest EXCEPT !.phase = "users"] /\ retention.phase = "idle"
  BY DEF ExpireEvents, config
<1>2. /\ stored \in [Events -> Hashes \cup {None}] /\ expired \in [Hashes -> Nat]
      /\ IsFiniteSet(StoredEvents) /\ S \subseteq Events
  BY DEF Inv, TypeOK, Countable, StoredEvents
<1>3. StoredEvents' = StoredEvents \ S
  BY <1>1, <1>2, BoundAssumption DEF StoredEvents
<1>4. ASSUME NEW i \in Hashes
      PROVE  /\ expired'[i] = expired[i] + Cardinality(EventsOf(i) \cap S) /\ expired'[i] \in Nat
             /\ Cardinality(EventsOf(i)') = Cardinality(EventsOf(i)) - Cardinality(EventsOf(i) \cap S)
             /\ Cardinality(EventsOf(i)) \in Nat /\ Cardinality(EventsOf(i) \cap S) \in Nat
  <2>1. {e \in S : stored[e] = i} = EventsOf(i) \cap S
    BY DEF EventsOf
  <2>2. IsFiniteSet(EventsOf(i)) /\ IsFiniteSet(EventsOf(i) \cap S)
    BY <1>2, FS_Subset DEF EventsOf
  <2>3. Cardinality(EventsOf(i)) \in Nat /\ Cardinality(EventsOf(i) \cap S) \in Nat
    BY <2>2, FS_CardinalityType
  <2>4. EventsOf(i)' = EventsOf(i) \ S
    BY <1>1, <1>2, <1>3 DEF EventsOf, StoredEvents
  <2>5. Cardinality(EventsOf(i) \ S) = Cardinality(EventsOf(i)) - Cardinality(EventsOf(i) \cap S)
    BY <2>2, FS_Difference
  <2>. QED
    BY <1>1, <1>2, <2>1, <2>3, <2>4, <2>5
<1>5. /\ retention' \in Retention /\ retention'.phase = "users" /\ retention'.touched = {}
      /\ retention.touched = {}
  <2>1. AtRest \in Retention /\ AtRest.touched = {}
    BY DEF AtRest, Retention
  <2>. QED
    BY <1>1, <2>1 DEF Retention, Inv, Recounted
<1>6. stored' \in [Events -> Hashes \cup {None}] /\ expired' \in [Hashes -> Nat]
  BY <1>1, <1>2, <1>4
<1>7. TypeOK'
  BY <1>1, <1>5, <1>6 DEF Inv, TypeOK, Retention
<1>8. HasEvent' /\ Sound' /\ Exclusive'
  <2>1. \A w \in Workers : (Open(w)' <=> Open(w)) /\ Target(w)' = Target(w) /\ Identity(w)' = Identity(w)
    BY <1>1, SameTarget DEF Open
  <2>2. \A e \in Events : stored[e] = None => stored'[e] = None
    BY <1>1
  <2>. QED
    BY <1>1, <2>1, <2>2 DEF Inv, HasEvent, Sound, Exclusive, UserOf, Open
<1>9. Countable' /\ Absent'
  <2>1. IsFiniteSet(StoredEvents)'
    BY <1>2, <1>3, FS_Subset
  <2>. QED
    BY <1>1, <2>1 DEF Inv, Countable, Absent, Identities, Present
<1>10. Recounted' /\ UsersAgree'
  BY <1>1, <1>5 DEF Inv, Recounted, UsersAgree, MembersOf
<1>11. CountAccounted'
  <2>. SUFFICES ASSUME NEW i \in Hashes
                PROVE  issues[i].count = Cardinality(EventsOf(i)') + expired'[i]
    BY <1>1 DEF CountAccounted
  <2>1. issues[i].count = Cardinality(EventsOf(i)) + expired[i] /\ expired[i] \in Nat
    BY <1>2 DEF Inv, CountAccounted
  <2>2. PICK all, gone \in Nat :
          /\ all = Cardinality(EventsOf(i)) /\ Cardinality(EventsOf(i)') = all - gone
          /\ expired'[i] = expired[i] + gone
    BY <1>4
  <2>. QED
    BY <2>1, <2>2
<1>12. ResolvedIsQuiet'
  BY <1>1 DEF Inv, ResolvedIsQuiet
<1>13. MembersCoverEvents'
  <2>1. \A e \in StoredEvents' : e \in StoredEvents /\ stored'[e] = stored[e]
    BY <1>1, <1>2, <1>3 DEF StoredEvents
  <2>. QED
    BY <1>1, <2>1 DEF Inv, MembersCoverEvents, HasMember, UserOf
<1>. QED
  BY <1>7, <1>8, <1>9, <1>10, <1>11, <1>12, <1>13 DEF Inv

\* Identities that go have no retained Event; the Issues that lose one are touched.
LEMMA DeleteUsersInv == ASSUME Inv, DeleteUsers PROVE Inv'
<1>. DEFINE gone == {m \in members : ~Kept(m[1], m[2])}
<1>1. /\ UNCHANGED <<content, version, job, pending, issues, mapping, stored, expired, resolvedAt,
                      triages, drifted, orphaned, faults>>
      /\ members' = members \ gone /\ retention.phase = "users"
      /\ retention' = IF gone = {} THEN AtRest
                      ELSE [AtRest EXCEPT !.phase = "recount", !.touched = {m[1] : m \in gone}]
  BY DEF DeleteUsers, config, history
<1>2. members \subseteq Hashes \X Users /\ members' \subseteq members
  BY <1>1 DEF Inv, TypeOK
<1>3. /\ retention' \in Retention /\ retention'.phase \in {"idle", "recount"}
      /\ retention'.touched = {m[1] : m \in gone}
      /\ retention'.phase = "idle" => retention'.touched = {}
      /\ retention.touched = {}
  <2>1. AtRest \in Retention /\ AtRest.touched = {} /\ AtRest.phase = "idle"
    BY DEF AtRest, Retention
  <2>2. {m[1] : m \in gone} \subseteq Hashes
    BY <1>2
  <2>3. retention.touched = {}
    BY <1>1 DEF Inv, Recounted
  <2>4. CASE gone = {}
    BY <1>1, <2>1, <2>3, <2>4
  <2>5. CASE gone # {}
    BY <1>1, <2>1, <2>2, <2>3, <2>5 DEF Retention
  <2>. QED
    BY <2>4, <2>5
<1>4. TypeOK'
  BY <1>1, <1>2, <1>3 DEF Inv, TypeOK, Retention
<1>5. HasEvent' /\ Sound' /\ Exclusive'
  BY <1>1, <1>2, LocksKept DEF config
<1>6. Countable'
  <2>1. \A h \in Hashes : IsFiniteSet(Identities(h))
    BY DEF Inv, Countable
  <2>2. \A h \in Hashes : Identities(h)' \subseteq Identities(h)
    BY <1>2 DEF Identities
  <2>3. \A h \in Hashes : IsFiniteSet(Identities(h)')
    BY <2>1, <2>2, FS_Subset
  <2>. QED
    BY <1>1, <2>3 DEF Inv, Countable, StoredEvents
<1>7. Absent'
  BY <1>1, <1>2 DEF Inv, Absent, Present
<1>8. Recounted'
  BY <1>3 DEF Recounted
<1>9. CountAccounted' /\ ResolvedIsQuiet'
  BY <1>1 DEF Inv, CountAccounted, ResolvedIsQuiet, EventsOf, StoredEvents
<1>10. MembersCoverEvents'
  <2>. SUFFICES ASSUME NEW e \in StoredEvents, e \notin orphaned, UserOf(e) # None
                PROVE  <<stored[e], UserOf(e)>> \in members'
    BY <1>1 DEF MembersCoverEvents, StoredEvents, HasMember, UserOf
  <2>1. <<stored[e], UserOf(e)>> \in members
    BY DEF Inv, MembersCoverEvents, HasMember
  <2>2. Kept(stored[e], UserOf(e))
    BY DEF Kept
  <2>. QED
    BY <1>1, <2>1, <2>2
<1>11. UsersAgree'
  <2>. SUFFICES ASSUME NEW h \in Hashes, h \notin retention'.touched, h \notin drifted
                PROVE  issues[h].users = MembersOf(h)'
    BY <1>1 DEF UsersAgree
  <2>1. ASSUME NEW u \in Users, <<h, u>> \in members PROVE <<h, u>> \in members'
    <3>1. CASE <<h, u>> \in gone
      <4>1. <<h, u>>[1] \in {m[1] : m \in gone}
        BY <3>1
      <4>. QED
        BY <1>3, <4>1
    <3>. QED
      BY <1>1, <2>1, <3>1
  <2>2. {u \in Users : <<h, u>> \in members'} = {u \in Users : <<h, u>> \in members}
    BY <1>2, <2>1
  <2>3. MembersOf(h)' = MembersOf(h)
    BY <2>2 DEF MembersOf
  <2>. QED
    BY <1>3, <2>3 DEF Inv, UsersAgree
<1>. QED
  BY <1>4, <1>5, <1>6, <1>7, <1>8, <1>9, <1>10, <1>11 DEF Inv

LEMMA MembersType == ASSUME Inv, NEW h \in Hashes PROVE MembersOf(h) \in Nat
<1>1. IsFiniteSet(Identities(h))
  BY DEF Inv, Countable
<1>. QED
  BY <1>1, FS_CardinalityType DEF MembersOf, Identities

LEMMA RecountReadsInv == ASSUME Inv, RecountReads PROVE Inv'
<1>1. /\ UNCHANGED <<content, version, job, pending, issues, mapping, stored, members, expired,
                      resolvedAt, triages, drifted, orphaned, faults>>
      /\ retention' = [retention EXCEPT !.phase = "write", !.seen = [h \in Hashes |-> MembersOf(h)]]
  BY DEF RecountReads, config, tables, history
<1>2. /\ retention' \in Retention /\ retention'.phase = "write"
      /\ retention'.touched = retention.touched /\ retention.touched \subseteq Hashes
      /\ \A h \in Hashes : retention'.seen[h] = MembersOf(h)
  BY <1>1, MembersType DEF Inv, TypeOK, Retention
<1>3. TypeOK'
  BY <1>1, <1>2 DEF Inv, TypeOK, Retention
<1>4. HasEvent' /\ Sound' /\ Exclusive'
  BY <1>1, LocksKept DEF config
<1>5. Countable' /\ Absent' /\ MembersCoverEvents'
  BY <1>1 DEF Inv, Countable, Absent, Present, MembersCoverEvents, StoredEvents, Identities,
              HasMember, UserOf
<1>6. CountAccounted' /\ ResolvedIsQuiet'
  BY <1>1 DEF Inv, CountAccounted, ResolvedIsQuiet, EventsOf, StoredEvents
<1>7. UsersAgree' /\ Recounted'
  BY <1>1, <1>2 DEF Inv, UsersAgree, Recounted, MembersOf
<1>. QED
  BY <1>3, <1>4, <1>5, <1>6, <1>7 DEF Inv

LEMMA RecountWritesInv == ASSUME Inv, RecountWrites PROVE Inv'
<1>1. /\ UNCHANGED <<content, version, job, pending, mapping, stored, members, expired,
                      resolvedAt, triages, orphaned, faults>>
      /\ issues' = [h \in Hashes |-> IF h \in retention.touched
                                    THEN [issues[h] EXCEPT !.users = retention.seen[h]] ELSE issues[h]]
      /\ drifted' = {h \in drifted : h \in retention.touched => MembersOf(h) # retention.seen[h]}
      /\ retention' = AtRest /\ retention.phase = "write"
  BY DEF RecountWrites, config
<1>2. issues \in [Hashes -> Issue] /\ retention \in Retention /\ drifted \subseteq Hashes
  BY DEF Inv, TypeOK, Retention
<1>3. /\ issues' \in [Hashes -> Issue]
      /\ \A h \in Hashes : /\ issues'[h].version = issues[h].version
                            /\ issues'[h].count = issues[h].count
                            /\ issues'[h].status = issues[h].status
                            /\ issues'[h].regression = issues[h].regression
                            /\ issues'[h].users = IF h \in retention.touched THEN retention.seen[h]
                                                  ELSE issues[h].users
  BY <1>1, <1>2 DEF Issue, Retention
<1>4. retention' \in Retention /\ retention'.phase = "idle" /\ retention'.touched = {}
  BY <1>1 DEF AtRest, Retention
<1>5. TypeOK'
  BY <1>1, <1>2, <1>3, <1>4 DEF Inv, TypeOK, Retention
<1>6. HasEvent' /\ Sound' /\ Exclusive'
  BY <1>1, LocksKept DEF config
<1>7. Countable' /\ MembersCoverEvents'
  BY <1>1 DEF Inv, Countable, MembersCoverEvents, StoredEvents, Identities, HasMember, UserOf
<1>8. Absent'
  BY <1>1, <1>3 DEF Inv, Absent, Present
<1>9. CountAccounted' /\ ResolvedIsQuiet'
  BY <1>1, <1>3 DEF Inv, CountAccounted, ResolvedIsQuiet, EventsOf, StoredEvents
<1>10. Recounted'
  BY <1>4 DEF Recounted
<1>11. UsersAgree'
  <2>. SUFFICES ASSUME NEW h \in Hashes, h \notin drifted' PROVE issues'[h].users = MembersOf(h)
    BY <1>1 DEF UsersAgree, MembersOf
  <2>1. CASE h \in retention.touched
    BY <1>1, <1>3, <2>1 DEF Inv, Recounted
  <2>2. CASE h \notin retention.touched
    BY <1>1, <1>3, <2>2 DEF Inv, UsersAgree
  <2>. QED
    BY <2>1, <2>2
<1>. QED
  BY <1>5, <1>6, <1>7, <1>8, <1>9, <1>10, <1>11 DEF Inv

LEMMA RecountLostInv == ASSUME Inv, RecountLost PROVE Inv'
<1>1. /\ UNCHANGED <<content, version, job, pending, issues, mapping, stored, members, expired,
                      resolvedAt, triages, orphaned>>
      /\ drifted' = drifted \cup retention.touched /\ retention' = AtRest /\ Fault
  BY DEF RecountLost, config, tables
<1>2. retention' \in Retention /\ retention'.phase = "idle" /\ retention'.touched = {}
  BY <1>1 DEF AtRest, Retention
<1>3. TypeOK'
  BY <1>1, <1>2, FaultType DEF Inv, TypeOK, Retention
<1>4. HasEvent' /\ Sound' /\ Exclusive'
  BY <1>1, LocksKept DEF config
<1>5. Countable' /\ Absent' /\ MembersCoverEvents'
  BY <1>1 DEF Inv, Countable, Absent, Present, MembersCoverEvents, StoredEvents, Identities,
              HasMember, UserOf
<1>6. CountAccounted' /\ ResolvedIsQuiet'
  BY <1>1 DEF Inv, CountAccounted, ResolvedIsQuiet, EventsOf, StoredEvents
<1>7. UsersAgree' /\ Recounted'
  BY <1>1, <1>2 DEF Inv, UsersAgree, Recounted, MembersOf
<1>. QED
  BY <1>3, <1>4, <1>5, <1>6, <1>7 DEF Inv

-----------------------------------------------------------------------------
(* The invariant of the specification.                                     *)

LEMMA StepInv == Inv /\ [Next]_vars => Inv'
<1>. SUFFICES ASSUME Inv, [Next]_vars PROVE Inv'
  OBVIOUS
<1>1. ASSUME NEW e \in Events, Deliver(e) PROVE Inv'
  BY <1>1, DeliverInv
<1>2. ASSUME NEW w \in Workers, Work(w) PROVE Inv'
  BY <1>2, TakeInv, LookupInv, StoreInv, CommitInv, StoreFailsInv DEF Work
<1>3. ASSUME NEW w \in Workers, NEW v \in Versions, Redeploy(w, v) PROVE Inv'
  BY <1>3, RedeployInv
<1>4. ASSUME NEW i \in Hashes, NEW s \in Statuses, SetIssueStatus(i, s) PROVE Inv'
  BY <1>4, SetIssueStatusInv
<1>5. CASE Retain
  BY <1>5, ExpireEventsInv, DeleteUsersInv, RecountReadsInv, RecountWritesInv, RecountLostInv
     DEF Retain
<1>6. CASE UNCHANGED vars
  <2>1. UNCHANGED <<content, version, job, pending, tables, retention, history, faults>>
    BY <1>6 DEF vars, tables, history
  <2>2. \A w \in Workers : job'[w] = job[w] /\ version'[w] = version[w]
    BY <2>1
  <2>. QED
    BY <2>1, <2>2, JobsMove DEF Inv, TypeOK, Job, HasEvent
<1>. QED
  BY <1>1, <1>2, <1>3, <1>4, <1>5, <1>6 DEF Next

\* The invariant of IssueAggregation: the types, the locks of open transactions and what
\* they saw, Issues that are not there, the recount, and the four properties.
THEOREM AggregationInvariant == Spec => []Inv
<1>1. Init => Inv
  BY InitInv
<1>2. Inv /\ [Next]_vars => Inv'
  BY StepInv
<1>. QED
  BY <1>1, <1>2, PTL DEF Spec

\* Every Event is counted once, whichever workers, versions and deliveries store it, and
\* retention takes none from the count (the transaction of processPayload).
THEOREM EventsAreCountedOnce == Spec => []CountAccounted
<1>1. Inv => CountAccounted
  BY DEF Inv
<1>. QED
  BY <1>1, AggregationInvariant, PTL

\* An Issue is resolved only while no Event has come since, and a regression has had one.
THEOREM ResolvedStaysQuiet == Spec => []ResolvedIsQuiet
<1>1. Inv => ResolvedIsQuiet
  BY DEF Inv
<1>. QED
  BY <1>1, AggregationInvariant, PTL

\* Retention takes no identity of a retained Event, but for one whose transaction was open
\* (cleanupIssueUsers).
THEOREM IdentitiesAreKept == Spec => []MembersCoverEvents
<1>1. Inv => MembersCoverEvents
  BY DEF Inv
<1>. QED
  BY <1>1, AggregationInvariant, PTL

\* The users counter is the number of identities, outside a recount and where none was
\* lost or overtaken.
THEOREM UsersAreCounted == Spec => []UsersAgree
<1>1. Inv => UsersAgree
  BY DEF Inv
<1>. QED
  BY <1>1, AggregationInvariant, PTL

-----------------------------------------------------------------------------
(* Refinement: jobs, their transactions and retention implement IssueLedger. *)

\* A hash is mapped to an Issue that is there, since rows of Issues stay.
MappedPresent == \A k \in Versions \X Hashes : mapping[k] # None => Present(mapping[k])

\* A lookup that found an Issue stays true, however late it is used: a hash is mapped once.
LookupsHold == \A w \in Workers : job[w].mapped # None =>
  /\ job[w].phase # "idle"
  /\ job[w].mapped \in {mapping[<<version[w], Hash(w)>>], mapping[<<1, HashOf(job[w].event)[1]>>]}

\* The lock on the row of its hash keeps an open transaction free of other versions.
OpenFits == \A w \in Workers : Open(w) => ~Conflicts(w)

LedgerInv == Inv /\ MappedPresent /\ LookupsHold /\ OpenFits

Issues == [i \in Hashes |-> [version |-> issues[i].version, count |-> issues[i].count,
                             status |-> issues[i].status, regression |-> issues[i].regression]]

\* What every step keeps: the version of an Issue that is there, and a mapped hash.
RowsStay == \A i \in Hashes : Present(i) => issues'[i].version = issues[i].version
HashesStay == \A k \in Versions \X Hashes : mapping[k] # None => mapping'[k] = mapping[k]

LEMMA KeyTypes ==
  ASSUME Inv, NEW w \in Workers, job[w].phase # "idle"
  PROVE  /\ <<version[w], Hash(w)>> \in Versions \X Hashes
         /\ <<1, HashOf(job[w].event)[1]>> \in Versions \X Hashes
<1>1. version[w] \in Versions /\ 1 \in Versions
  BY DEF Inv, TypeOK, Versions
<1>2. Hash(w) \in Hashes /\ job[w].event \in Events /\ TypeOK
  BY TargetType DEF Inv
<1>3. HashOf(job[w].event) \in [Versions -> Hashes]
  BY <1>2, ContentType
<1>. QED
  BY <1>1, <1>2, <1>3

SameJob(w) ==
  job'[w].mapped = job[w].mapped /\ job'[w].event = job[w].event /\ version'[w] = version[w]

LEMMA SameConflict ==
  ASSUME NEW w \in Workers, content' = content, SameJob(w),
         job[w].mapped # None \/ issues'[Hash(w)].version = issues[Hash(w)].version,
         ~Conflicts(w)
  PROVE  ~Conflicts(w)'
<1>1. Hash(w)' = Hash(w)
  BY DEF Hash, HashOf, SameJob
<1>. QED
  BY <1>1 DEF Conflicts, Present, SameJob

\* A job that goes on with what it had, whatever the tables do meanwhile.
LEMMA LookupKept ==
  ASSUME LedgerInv, HashesStay, content' = content, NEW w \in Workers, SameJob(w),
         job'[w].mapped # None
  PROVE  (job[w].mapped \in {mapping[<<version[w], Hash(w)>>],
                             mapping[<<1, HashOf(job[w].event)[1]>>]})'
<1>1. /\ job[w].phase # "idle" /\ job'[w].mapped = job[w].mapped
      /\ job[w].mapped \in {mapping[<<version[w], Hash(w)>>], mapping[<<1, HashOf(job[w].event)[1]>>]}
  BY DEF LedgerInv, LookupsHold, SameJob
<1>2. /\ <<version[w], Hash(w)>> \in Versions \X Hashes
      /\ <<1, HashOf(job[w].event)[1]>> \in Versions \X Hashes
  BY <1>1, KeyTypes DEF LedgerInv
<1>3. Hash(w)' = Hash(w) /\ HashOf(job[w].event)' = HashOf(job[w].event) /\ version'[w] = version[w]
  BY DEF Hash, HashOf, SameJob
<1>. QED
  BY <1>1, <1>2, <1>3 DEF HashesStay

LEMMA LedgerKept ==
  ASSUME LedgerInv, Inv', HashesStay, RowsStay, content' = content,
         \A k \in Versions \X Hashes : mapping'[k] = mapping[k] \/ Present(mapping[k])',
         \A w \in Workers : job'[w].mapped # None =>
           job'[w].phase # "idle" /\
           (SameJob(w) \/ (job[w].mapped \in {mapping[<<version[w], Hash(w)>>],
                                              mapping[<<1, HashOf(job[w].event)[1]>>]})'),
         \A w \in Workers : Open(w)' =>
           /\ SameJob(w) /\ ~Conflicts(w)
           /\ job[w].mapped # None \/ issues'[Hash(w)].version = issues[Hash(w)].version
  PROVE  LedgerInv'
<1>1. MappedPresent'
  <2>. SUFFICES ASSUME NEW k \in Versions \X Hashes, mapping'[k] # None, mapping'[k] = mapping[k]
                PROVE  Present(mapping[k])'
    BY DEF MappedPresent
  <2>1. Present(mapping[k]) /\ mapping[k] \in Hashes
    BY DEF LedgerInv, MappedPresent, Inv, TypeOK
  <2>. QED
    BY <2>1 DEF RowsStay, Present
<1>2. LookupsHold'
  BY LookupKept DEF LookupsHold
<1>3. OpenFits'
  BY SameConflict DEF OpenFits
<1>. QED
  BY <1>1, <1>2, <1>3 DEF LedgerInv

LEMMA RowsKept ==
  ASSUME LedgerInv, Inv', UNCHANGED <<content, mapping>>,
         \A i \in Hashes : issues'[i].version = issues[i].version,
         \A w \in Workers : job'[w].mapped # None =>
           job'[w].phase # "idle" /\
           (SameJob(w) \/ (job[w].mapped \in {mapping[<<version[w], Hash(w)>>],
                                              mapping[<<1, HashOf(job[w].event)[1]>>]})'),
         \A w \in Workers : Open(w)' => SameJob(w) /\ ~Conflicts(w)
  PROVE  LedgerInv'
<1>1. HashesStay /\ RowsStay
  BY DEF HashesStay, RowsStay
<1>2. \A w \in Workers : Open(w)' => Hash(w) \in Hashes
  <2>. SUFFICES ASSUME NEW w \in Workers, Open(w)' PROVE Hash(w) \in Hashes
    OBVIOUS
  <2>1. job'[w].event \in Events /\ job'[w].event = job[w].event
    BY DEF Inv, HasEvent, Open, SameJob
  <2>2. HashOf(job[w].event) \in [Versions -> Hashes] /\ version[w] \in Versions
    BY <2>1, ContentType DEF LedgerInv, Inv, TypeOK
  <2>. QED
    BY <2>2 DEF Hash
<1>. QED
  BY <1>1, <1>2, LedgerKept

\* One worker moves; the others have what they had.
LEMMA OneMoves ==
  ASSUME LedgerInv, Inv', UNCHANGED <<content, mapping, issues>>, NEW w \in Workers,
         \A v \in Workers \ {w} : job'[v] = job[v] /\ version'[v] = version[v],
         job'[w].mapped # None =>
           job'[w].phase # "idle" /\
           (SameJob(w) \/ (job[w].mapped \in {mapping[<<version[w], Hash(w)>>],
                                              mapping[<<1, HashOf(job[w].event)[1]>>]})'),
         Open(w)' => SameJob(w) /\ ~Conflicts(w)
  PROVE  LedgerInv'
<1>1. \A v \in Workers \ {w} : SameJob(v) /\ job'[v].phase = job[v].phase
  BY DEF SameJob
<1>2. \A v \in Workers : job[v].mapped # None => job[v].phase # "idle"
  BY DEF LedgerInv, LookupsHold
<1>3. \A v \in Workers : Open(v) => ~Conflicts(v)
  BY DEF LedgerInv, OpenFits
<1>4. ASSUME NEW v \in Workers, job'[v].mapped # None
      PROVE  job'[v].phase # "idle" /\
             (SameJob(v) \/ (job[v].mapped \in {mapping[<<version[v], Hash(v)>>],
                                                mapping[<<1, HashOf(job[v].event)[1]>>]})')
  <2>1. CASE v = w
    BY <1>4, <2>1, Zenon
  <2>2. CASE v # w
    BY <1>1, <1>2, <1>4, <2>2 DEF SameJob
  <2>. QED
    BY <2>1, <2>2
<1>5. \A v \in Workers : Open(v)' => SameJob(v) /\ ~Conflicts(v)
  BY <1>1, <1>3 DEF Open
<1>. QED
  BY <1>4, <1>5, RowsKept

\* A job that is given up, with the worker's version changed or not.
LEMMA IdleLedger ==
  ASSUME LedgerInv, Inv', UNCHANGED <<content, mapping, issues>>, NEW w \in Workers,
         job' = [job EXCEPT ![w] = Idle], \A v \in Workers \ {w} : version'[v] = version[v]
  PROVE  LedgerInv'
<1>1. job \in [Workers -> Job]
  BY DEF LedgerInv, Inv, TypeOK, Job
<1>2. job'[w] = Idle /\ \A v \in Workers \ {w} : job'[v] = job[v]
  BY <1>1
<1>3. job'[w].mapped = None /\ ~Open(w)'
  BY <1>2 DEF Idle, Open
<1>. QED
  BY <1>2, <1>3, OneMoves

LEMMA TakeLedger ==
  ASSUME LedgerInv, Inv', NEW w \in Workers, NEW e \in Events, Take(w, e) PROVE LedgerInv'
<1>. DEFINE taken == [Idle EXCEPT !.phase = "current", !.event = e]
<1>1. job \in [Workers -> Job] /\ job' = [job EXCEPT ![w] = taken]
      /\ UNCHANGED <<content, version, mapping, issues>>
  BY DEF LedgerInv, Inv, TypeOK, Job, Take, config, tables
<1>2. taken.mapped = None /\ taken.phase = "current"
  BY DEF Idle
<1>. HIDE DEF taken
<1>3. job'[w] = taken /\ \A v \in Workers \ {w} : job'[v] = job[v]
  BY <1>1
<1>. QED
  BY <1>1, <1>2, <1>3, OneMoves DEF Open

LEMMA LookedUpLedger ==
  ASSUME LedgerInv, Inv', NEW w \in Workers, NEW found, NEW next \in {"legacy", "store"},
         found \in {None, mapping[<<version[w], Hash(w)>>], mapping[<<1, HashOf(job[w].event)[1]>>]},
         LookedUp(w, found, next), UNCHANGED <<config, tables>>
  PROVE  LedgerInv'
<1>1. job \in [Workers -> Job] /\ UNCHANGED <<content, version, mapping, issues>>
  BY DEF LedgerInv, Inv, TypeOK, Job, config, tables
<1>2. /\ job'[w].mapped = found /\ job'[w].event = job[w].event
      /\ job'[w].phase \in {"legacy", "store"}
      /\ \A v \in Workers \ {w} : job'[v] = job[v]
  BY <1>1 DEF LookedUp, Job
<1>3. Hash(w)' = Hash(w) /\ HashOf(job[w].event)' = HashOf(job[w].event)
  BY <1>1, <1>2 DEF Hash, HashOf
<1>4. found # None => (job[w].mapped \in {mapping[<<version[w], Hash(w)>>],
                                          mapping[<<1, HashOf(job[w].event)[1]>>]})'
  BY <1>1, <1>2, <1>3
<1>. QED
  BY <1>1, <1>2, <1>4, OneMoves DEF Open

LEMMA StoreLedger == ASSUME LedgerInv, Inv', NEW w \in Workers, Store(w) PROVE LedgerInv'
<1>1. UNCHANGED <<content, version, mapping, issues>> /\ ~Conflicts(w) /\ job[w].phase = "store"
  BY DEF Store, config, tables
<1>2. CASE job' = [job EXCEPT ![w] = Idle]
  BY <1>1, <1>2, IdleLedger
<1>3. CASE job' = [job EXCEPT ![w].phase = "commit",
                              ![w].saw = <<Target(w), UserOf(job[w].event)>> \in members]
  <2>. DEFINE seen == <<Target(w), UserOf(job[w].event)>> \in members
  <2>1. seen \in BOOLEAN /\ TypeOK
    BY DEF LedgerInv, Inv
  <2>. HIDE DEF seen
  <2>2. job' = [job EXCEPT ![w].phase = "commit", ![w].saw = seen]
    BY <1>3, Zenon DEF seen
  <2>3. /\ \A v \in Workers : /\ job'[v].event = job[v].event /\ job'[v].mapped = job[v].mapped
                              /\ v # w => job'[v] = job[v]
        /\ job'[w].phase = "commit"
    BY <2>1, <2>2, OpenedJob
  <2>4. SameJob(w)
    BY <1>1, <2>3 DEF SameJob
  <2>. QED
    BY <1>1, <2>3, <2>4, OneMoves
<1>. QED
  BY <1>2, <1>3 DEF Store

\* Statements of the API and of retention, which touch no job.
LEMMA RowsLedger ==
  ASSUME LedgerInv, Inv', UNCHANGED <<config, job, mapping>>,
         \A i \in Hashes : issues'[i].version = issues[i].version
  PROVE  LedgerInv'
<1>1. UNCHANGED <<content, version>> /\ \A w \in Workers : SameJob(w)
  BY DEF config, SameJob
<1>2. \A w \in Workers : job[w].mapped # None => job[w].phase # "idle"
  BY DEF LedgerInv, LookupsHold
<1>3. \A w \in Workers : Open(w)' => ~Conflicts(w)
  BY DEF LedgerInv, OpenFits, Open
<1>. QED
  BY <1>1, <1>2, <1>3, RowsKept

\* The Issue an open transaction charges is of the worker's version, or one a hash of the
\* Event is mapped to.
LEMMA CommitTarget ==
  ASSUME LedgerInv, NEW w \in Workers, Commit(w)
  PROVE  LET i == Target(w) IN
         \/ i = Hash(w) /\ issues[i].version \in {0, version[w]}
         \/ Present(i) /\ i \in {mapping[<<version[w], Hash(w)>>],
                                 mapping[<<1, HashOf(job[w].event)[1]>>]}
<1>1. CASE job[w].mapped = None
  BY <1>1 DEF LedgerInv, OpenFits, Open, Conflicts, Commit, Present, Target
<1>2. CASE job[w].mapped # None
  <2>1. /\ job[w].mapped \in {mapping[<<version[w], Hash(w)>>],
                              mapping[<<1, HashOf(job[w].event)[1]>>]}
        /\ job[w].phase # "idle" /\ Target(w) = job[w].mapped
    BY <1>2 DEF LedgerInv, LookupsHold, Target
  <2>2. /\ <<version[w], Hash(w)>> \in Versions \X Hashes
        /\ <<1, HashOf(job[w].event)[1]>> \in Versions \X Hashes
    BY <2>1, KeyTypes DEF LedgerInv
  <2>3. Present(job[w].mapped)
    BY <1>2, <2>1, <2>2 DEF LedgerInv, MappedPresent
  <2>. QED
    BY <2>1, <2>3
<1>. QED
  BY <1>1, <1>2

\* The row a commit leaves, of an Issue that was there or not.
LEMMA CommitRow ==
  ASSUME Inv, NEW w \in Workers, Commit(w)
  PROVE  LET i == Target(w) IN
         /\ Present(i) => issues'[i].version = issues[i].version
         /\ ~Present(i) => /\ issues'[i].version = version[w] /\ issues'[i].count = 1
                           /\ issues'[i].status = "unresolved" /\ ~issues'[i].regression
<1>. DEFINE i == Target(w)
            u == UserOf(job[w].event)
            row == IF Present(i) THEN Bumped(issues[i])
                   ELSE [NoIssue EXCEPT !.version = version[w], !.count = 1]
<1>1. /\ i \in Hashes /\ job[w].saw \in BOOLEAN
      /\ issues \in [Hashes -> Issue] /\ version[w] \in Versions
  BY TargetType DEF Inv, TypeOK, Commit
<1>2. /\ row \in Issue
      /\ Present(i) => row.version = issues[i].version
      /\ ~Present(i) => /\ row.version = version[w] /\ row.count = 1
                        /\ row.status = "unresolved" /\ ~row.regression
  <2>1. CASE Present(i)
    BY <1>1, <2>1, BumpedRow
  <2>2. CASE ~Present(i)
    <3>1. NoIssue \in Issue /\ NoIssue.status = "unresolved" /\ ~NoIssue.regression
      BY DEF NoIssue, Issue, Statuses
    <3>2. row = [NoIssue EXCEPT !.version = version[w], !.count = 1]
      BY <2>2
    <3>. HIDE DEF row
    <3>. QED
      BY <1>1, <2>2, <3>1, <3>2 DEF Issue
  <2>. QED
    BY <2>1, <2>2
<1>3. issues' = [issues EXCEPT ![i] = Counted(u, job[w].saw, row)]
  BY DEF Commit
<1>. HIDE DEF row
<1>4. issues'[i] = Counted(u, job[w].saw, row)
  BY <1>1, <1>3
<1>. QED
  BY <1>1, <1>2, <1>4, CountedRow

LEMMA CommitLedger == ASSUME LedgerInv, Inv', NEW w \in Workers, Commit(w) PROVE LedgerInv'
<1>. DEFINE i == Target(w)
            key == <<version[w], Hash(w)>>
<1>1. /\ UNCHANGED <<content, version>> /\ job' = [job EXCEPT ![w] = Idle]
      /\ mapping' = [mapping EXCEPT ![key] = IF mapping[key] = None THEN i ELSE mapping[key]]
      /\ job \in [Workers -> Job] /\ mapping \in [Versions \X Hashes -> Hashes \cup {None}]
  BY DEF Commit, config, LedgerInv, Inv, TypeOK, Job
<1>2. /\ i \in Hashes /\ issues'[i].version # 0 /\ Open(w)
      /\ \A h \in Hashes \ {i} : issues'[h] = issues[h]
  BY CommitFacts DEF LedgerInv
<1>3. /\ key \in Versions \X Hashes /\ Hash(w) \in Hashes
      /\ \A v \in Workers : job[v].phase # "idle" => Hash(v) \in Hashes
  BY <1>2, KeyTypes, TargetType DEF LedgerInv, Inv, Open
<1>4. \A k \in Versions \X Hashes :
        \/ mapping'[k] = mapping[k]
        \/ mapping[k] = None /\ mapping'[k] = i
  BY <1>1, <1>3
<1>5. HashesStay /\ \A k \in Versions \X Hashes : mapping'[k] = mapping[k] \/ Present(mapping[k])'
  BY <1>2, <1>4 DEF HashesStay, Present
<1>6. RowsStay
  <2>1. Present(i) => issues'[i].version = issues[i].version
    BY CommitRow DEF LedgerInv
  <2>. QED
    BY <1>2, <2>1 DEF RowsStay
<1>7. job'[w] = Idle /\ \A v \in Workers \ {w} : job'[v] = job[v] /\ SameJob(v)
  BY <1>1 DEF SameJob
<1>8. ASSUME NEW v \in Workers, job'[v].mapped # None
      PROVE  job'[v].phase # "idle" /\ SameJob(v)
  <2>1. v # w
    BY <1>7, <1>8 DEF Idle
  <2>. QED
    BY <1>7, <1>8, <2>1 DEF LedgerInv, LookupsHold
<1>9. ASSUME NEW v \in Workers, Open(v)'
      PROVE  /\ SameJob(v) /\ ~Conflicts(v)
             /\ job[v].mapped # None \/ issues'[Hash(v)].version = issues[Hash(v)].version
  <2>1. v # w /\ Open(v) /\ SameJob(v)
    BY <1>7, <1>9 DEF Idle, Open
  <2>2. ~Conflicts(v) /\ Target(v) # i /\ Hash(v) \in Hashes
    BY <1>2, <1>3, <2>1 DEF LedgerInv, OpenFits, Inv, Exclusive, Open
  <2>3. CASE job[v].mapped = None
    <3>1. Hash(v) # i
      BY <2>2, <2>3 DEF Target
    <3>. QED
      BY <1>2, <2>1, <2>2, <3>1
  <2>. QED
    BY <2>1, <2>2, <2>3
<1>. QED
  BY <1>1, <1>5, <1>6, <1>8, <1>9, LedgerKept

LEMMA LedgerInvInit == Init => LedgerInv
BY InitInv DEF Init, LedgerInv, MappedPresent, LookupsHold, OpenFits, Open, Idle

LEMMA LedgerInvStep == LedgerInv /\ [Next]_vars => LedgerInv'
<1>. SUFFICES ASSUME LedgerInv, [Next]_vars PROVE LedgerInv'
  OBVIOUS
<1>0. Inv /\ Inv'
  BY StepInv DEF LedgerInv
<1>1. ASSUME NEW e \in Events, Deliver(e) PROVE LedgerInv'
  BY <1>0, <1>1, RowsLedger DEF Deliver, tables
<1>2. ASSUME NEW w \in Workers, Work(w) PROVE LedgerInv'
  <2>1. ASSUME NEW e \in Events, Take(w, e) PROVE LedgerInv'
    BY <1>0, <2>1, TakeLedger
  <2>2. CASE LookupCurrent(w)
    <3>. DEFINE next == IF version[w] > 1 THEN "legacy" ELSE "store"
    <3>1. /\ LookedUp(w, mapping[<<version[w], Hash(w)>>], next) \/ LookedUp(w, None, next)
          /\ UNCHANGED <<config, tables>> /\ next \in {"legacy", "store"}
      BY <2>2 DEF LookupCurrent
    <3>. HIDE DEF next
    <3>. QED
      BY <1>0, <3>1, LookedUpLedger
  <2>3. CASE LookupLegacy(w)
    <3>1. /\ \/ LookedUp(w, mapping[<<1, HashOf(job[w].event)[1]>>], "store")
             \/ LookedUp(w, None, "store")
          /\ UNCHANGED <<config, tables>>
      BY <2>3 DEF LookupLegacy
    <3>. QED
      BY <1>0, <3>1, LookedUpLedger
  <2>4. CASE Store(w)
    BY <1>0, <2>4, StoreLedger
  <2>5. CASE Commit(w)
    BY <1>0, <2>5, CommitLedger
  <2>6. CASE StoreFails(w)
    BY <1>0, <2>6, IdleLedger DEF StoreFails, config, tables
  <2>. QED
    BY <1>2, <2>1, <2>2, <2>3, <2>4, <2>5, <2>6 DEF Work
<1>3. ASSUME NEW w \in Workers, NEW v \in Versions, Redeploy(w, v) PROVE LedgerInv'
  <2>1. version \in [Workers -> Versions]
    BY <1>0 DEF Inv, TypeOK
  <2>. QED
    BY <1>0, <1>3, <2>1, IdleLedger DEF Redeploy, tables
<1>4. ASSUME NEW i \in Hashes, NEW s \in Statuses, SetIssueStatus(i, s) PROVE LedgerInv'
  <2>1. issues \in [Hashes -> Issue]
    BY <1>0 DEF Inv, TypeOK
  <2>2. \A h \in Hashes : issues'[h].version = issues[h].version
    BY <1>4, <2>1 DEF SetIssueStatus, Issue
  <2>. QED
    BY <1>0, <1>4, <2>2, RowsLedger DEF SetIssueStatus
<1>5. CASE Retain
  <2>1. CASE RecountWrites
    <3>1. issues \in [Hashes -> Issue]
      BY <1>0 DEF Inv, TypeOK
    <3>2. \A h \in Hashes : issues'[h].version = issues[h].version
      BY <2>1, <3>1 DEF RecountWrites, Issue
    <3>. QED
      BY <1>0, <2>1, <3>2, RowsLedger DEF RecountWrites
  <2>2. CASE ~RecountWrites
    <3>1. UNCHANGED <<config, job, mapping, issues>>
      BY <1>5, <2>2 DEF Retain, ExpireEvents, DeleteUsers, RecountReads, RecountLost, tables
    <3>. QED
      BY <1>0, <3>1, RowsLedger
  <2>. QED
    BY <2>1, <2>2
<1>6. CASE UNCHANGED vars
  BY <1>0, <1>6, RowsLedger DEF vars, config
<1>. QED
  BY <1>1, <1>2, <1>3, <1>4, <1>5, <1>6 DEF Next

LEMMA LedgerInit == Init => Ledger!Init
<1>. SUFFICES ASSUME Init PROVE Ledger!Init
  OBVIOUS
<1>1. TypeOK
  BY InitInv DEF Inv
<1>2. [e \in Events |-> HashOf(e)] \in [Events -> [Versions -> Hashes]]
  BY <1>1, ContentType
<1>3. Issues = [i \in Hashes |-> Ledger!NoIssue]
  BY DEF Issues, Init, NoIssue, Ledger!NoIssue
<1>. QED
  BY <1>2, <1>3 DEF Init, Ledger!Init, Issues

\* Where neither the abstract row of an Issue nor another table of the ledger changes, the
\* ledger stutters.
LEMMA LedgerStutter ==
  ASSUME UNCHANGED <<content, stored, mapping>>, Issues' = Issues
  PROVE  UNCHANGED Ledger!vars
<1>1. [e \in Events |-> HashOf(e)]' = [e \in Events |-> HashOf(e)]
  BY DEF HashOf
<1>. QED
  BY <1>1 DEF Ledger!vars, Issues

LEMMA LedgerRecord ==
  ASSUME LedgerInv, NEW w \in Workers, Commit(w), NEW e, NEW v, NEW i,
         e = job[w].event, v = version[w], i = Target(w)
  PROVE  Ledger!Record(e, v, i)
<1>. DEFINE key == <<v, Hash(w)>>
            hash == [x \in Events |-> HashOf(x)]
<1>1. /\ e \in Events /\ i \in Hashes /\ Open(w) /\ stored[e] = None
      /\ stored' = [stored EXCEPT ![e] = i]
      /\ \A h \in Hashes \ {i} : issues'[h] = issues[h]
      /\ issues'[i].count = issues[i].count + 1
      /\ issues'[i].status = IF issues[i].status = "resolved" THEN "unresolved" ELSE issues[i].status
      /\ issues'[i].regression <=> issues[i].regression \/ issues[i].status = "resolved"
  BY CommitFacts DEF LedgerInv
<1>2. /\ v \in Versions /\ issues \in [Hashes -> Issue] /\ issues' \in [Hashes -> Issue]
      /\ content' = content
  BY CommitFacts DEF LedgerInv, Inv, TypeOK, Commit, config
<1>3. hash[e] = HashOf(e) /\ hash' = hash /\ Hash(w) = hash[e][v]
  BY <1>1, <1>2 DEF HashOf, Hash
<1>4. mapping' = [mapping EXCEPT ![key] = IF mapping[key] = None THEN i ELSE mapping[key]]
  BY DEF Commit
<1>5. \/ i = Hash(w) /\ issues[i].version \in {0, v}
      \/ Present(i) /\ i \in {mapping[key], mapping[<<1, HashOf(e)[1]>>]}
  BY CommitTarget
<1>6. /\ Present(i) => issues'[i].version = issues[i].version
      /\ ~Present(i) => /\ issues'[i].version = v /\ issues'[i].count = 1
                        /\ issues'[i].status = "unresolved" /\ ~issues'[i].regression
  BY CommitRow DEF LedgerInv
<1>7. Issues' = [Issues EXCEPT ![i] = Ledger!Charged(Issues[i], v)]
  <2>1. Issues'[i] = Ledger!Charged(Issues[i], v)
    <3>1. CASE Present(i)
      BY <1>1, <1>2, <1>6, <3>1 DEF Issues, Ledger!Charged, Present, Issue
    <3>2. CASE ~Present(i)
      BY <1>1, <1>2, <1>6, <3>2 DEF Issues, Ledger!Charged, Ledger!NoIssue, Present, Issue
    <3>. QED
      BY <3>1, <3>2
  <2>2. \A h \in Hashes \ {i} : Issues'[h] = Issues[h]
    BY <1>1 DEF Issues
  <2>. QED
    BY <1>1, <2>1, <2>2 DEF Issues
<1>8. Ledger!Own(e, v, i) \/ Ledger!Mapped(e, v, i)
  BY <1>1, <1>3, <1>5 DEF Ledger!Own, Ledger!Mapped, Ledger!Present, Present
<1>. QED
  BY <1>1, <1>3, <1>4, <1>7, <1>8 DEF Ledger!Record, Issues

LEMMA LedgerTriage ==
  ASSUME Inv, NEW i \in Hashes, NEW s \in Statuses, SetIssueStatus(i, s)
  PROVE  Ledger!Triage(i, s)
<1>1. /\ issues \in [Hashes -> Issue] /\ Present(i)
      /\ issues' = [issues EXCEPT ![i].status = s, ![i].regression = FALSE]
      /\ UNCHANGED <<content, stored, mapping>>
  BY DEF Inv, TypeOK, SetIssueStatus, config
<1>2. Issues' = [Issues EXCEPT ![i] = [Issues[i] EXCEPT !.status = s, !.regression = FALSE]]
  BY <1>1 DEF Issues, Issue
<1>3. [e \in Events |-> HashOf(e)]' = [e \in Events |-> HashOf(e)]
  BY <1>1 DEF HashOf
<1>. QED
  BY <1>1, <1>2, <1>3 DEF Ledger!Triage, Ledger!Present, Issues, Present

LEMMA LedgerExpire ==
  ASSUME NEW S \in SUBSET StoredEvents, ExpireEvents(S) PROVE Ledger!Expire(S)
<1>1. [e \in Events |-> HashOf(e)]' = [e \in Events |-> HashOf(e)]
  BY DEF ExpireEvents, config, HashOf
<1>. QED
  BY <1>1 DEF ExpireEvents, Ledger!Expire

\* Every step is a step of the ledger or none: the lookups, the statements of a transaction
\* before its commit, its failures and the recount are not seen.
LEMMA LedgerStep == LedgerInv /\ [Next]_vars => [Ledger!Next]_(Ledger!vars)
<1>. SUFFICES ASSUME LedgerInv, [Next]_vars PROVE [Ledger!Next]_(Ledger!vars)
  OBVIOUS
<1>0. Inv
  BY DEF LedgerInv
<1>1. ASSUME UNCHANGED <<content, stored, mapping, issues>> PROVE UNCHANGED Ledger!vars
  BY <1>1, LedgerStutter DEF Issues
<1>2. ASSUME NEW e \in Events, Deliver(e) PROVE UNCHANGED Ledger!vars
  BY <1>1, <1>2 DEF Deliver, config, tables
<1>3. ASSUME NEW w \in Workers, Work(w) PROVE [Ledger!Next]_(Ledger!vars)
  <2>1. CASE Commit(w)
    <3>1. job[w].event \in Events /\ version[w] \in Versions /\ Target(w) \in Hashes
      BY <1>0, <2>1, CommitFacts DEF Inv, TypeOK
    <3>2. PICK e \in Events, v \in Versions, i \in Hashes :
            e = job[w].event /\ v = version[w] /\ i = Target(w)
      BY <3>1
    <3>3. Ledger!Record(e, v, i)
      BY <2>1, <3>2, LedgerRecord
    <3>. QED
      BY <3>3 DEF Ledger!Next
  <2>2. CASE ~Commit(w)
    <3>1. UNCHANGED <<content, stored, mapping, issues>>
      BY <1>3, <2>2 DEF Work, Take, LookupCurrent, LookupLegacy, Store, StoreFails, config, tables
    <3>. QED
      BY <1>1, <3>1
  <2>. QED
    BY <2>1, <2>2
<1>4. ASSUME NEW w \in Workers, NEW v \in Versions, Redeploy(w, v) PROVE UNCHANGED Ledger!vars
  BY <1>1, <1>4 DEF Redeploy, tables
<1>5. ASSUME NEW i \in Hashes, NEW s \in Statuses, SetIssueStatus(i, s) PROVE Ledger!Next
  BY <1>0, <1>5, LedgerTriage DEF Ledger!Next
<1>6. CASE Retain
  <2>1. ASSUME NEW S \in SUBSET StoredEvents, ExpireEvents(S) PROVE Ledger!Next
    <3>1. S \in SUBSET Events
      BY DEF StoredEvents
    <3>. QED
      BY <2>1, <3>1, LedgerExpire DEF Ledger!Next
  <2>2. CASE RecountWrites
    <3>1. /\ issues \in [Hashes -> Issue] /\ UNCHANGED <<content, stored, mapping>>
          /\ issues' = [h \in Hashes |-> IF h \in retention.touched
                                         THEN [issues[h] EXCEPT !.users = retention.seen[h]]
                                         ELSE issues[h]]
      BY <1>0, <2>2 DEF Inv, TypeOK, RecountWrites, config
    <3>2. Issues' = Issues
      BY <3>1 DEF Issues, Issue
    <3>. QED
      BY <3>1, <3>2, LedgerStutter
  <2>3. CASE DeleteUsers \/ RecountReads \/ RecountLost
    <3>1. UNCHANGED <<content, stored, mapping, issues>>
      BY <2>3 DEF DeleteUsers, RecountReads, RecountLost, config, tables
    <3>. QED
      BY <1>1, <3>1
  <2>. QED
    BY <1>6, <2>1, <2>2, <2>3 DEF Retain
<1>7. CASE UNCHANGED vars
  BY <1>1, <1>7 DEF vars
<1>. QED
  BY <1>2, <1>3, <1>4, <1>5, <1>6, <1>7 DEF Next

\* IssueAggregation implements IssueLedger: a hash is looked up outside the transaction and
\* may be charged to an Issue found long before, a transaction is rolled back or meets
\* another worker's of the other version, an Event is delivered twice and retention runs
\* between, and still each change of Events, Issues and hashes is one of the ledger's steps
\* (processPayload, lookupGroupingIssue).
THEOREM AggregationImplementsLedger == Spec => ImplementsLedger
<1>1. Spec => []LedgerInv
  BY LedgerInvInit, LedgerInvStep, PTL DEF Spec
<1>. QED
  BY <1>1, LedgerInit, LedgerStep, PTL DEF Spec, ImplementsLedger, Ledger!Spec

-----------------------------------------------------------------------------
(* EventPath: one error in several builds.                                 *)

Raw(e) == RawEvents[e]

\* Distinct, of the Event as it arrived.
Distinguished(e) ==
  LET frames == Raw(e).frames IN
  \A k \in 1 .. Len(frames) - 1 : Culprit(frames[k]) # Culprit(Last(frames))

Originals ==
  UNION {{Original(e, k) : k \in 1 .. Len(RawEvents[e].frames)} : e \in DOMAIN RawEvents}

\* Where an Event stands of which n frames have been looked up.  As long as none was missed
\* the symbolicated ones are the first n of the source, and with a culprit that follows and
\* fits no frame but the last, it is that of the last frame, which is replaced last.
Symbolicated(e, n, data) ==
  /\ data = [exception |-> data.exception, message |-> data.message, culprit |-> data.culprit,
             frames |-> data.frames, symbolicated |-> data.symbolicated,
             fingerprint |-> data.fingerprint]
  /\ data.frames = Raw(e).frames /\ data.exception = Raw(e).exception
  /\ data.fingerprint = Raw(e).fingerprint
  /\ Raw(e).message # Nothing => data.message = Raw(e).message
  /\ data.symbolicated \in Seq(Originals) /\ Len(data.symbolicated) <= n
  /\ Len(data.symbolicated) = n => \A k \in 1 .. n : data.symbolicated[k] = Original(e, k)
  /\ Raw(e).frames = <<>> => data.culprit = Raw(e).culprit
  /\ Raw(e).frames # <<>> /\ settings.backend = "memory" /\ Distinguished(e)
     /\ Len(data.symbolicated) = n =>
       data.culprit = IF n < Len(Raw(e).frames) THEN Culprit(Last(Raw(e).frames))
                      ELSE Culprit(data.symbolicated[n])

\* The Event at work, and those that have their hash.
InHand ==
  event # Nothing =>
    /\ event = [of |-> event.of, frame |-> event.frame, data |-> event.data]
    /\ event.of \in DOMAIN RawEvents
    /\ event.frame \in 1 .. Len(Raw(event.of).frames) + 1
    /\ Symbolicated(event.of, event.frame - 1, event.data)

Finished(g) ==
  /\ g.of \in DOMAIN RawEvents
  /\ Symbolicated(g.of, Len(Raw(g.of).frames), g.data)
  /\ g.hash = GroupingHash(g.data, settings.version)

Grouped ==
  /\ \E S : grouped \in Seq(S)
  /\ \A k \in 1 .. Len(grouped) : Finished(grouped[k])

PathInv == InHand /\ Grouped

LEMMA FramesType ==
  ASSUME NEW e \in DOMAIN RawEvents
  PROVE  /\ Raw(e).frames \in Seq(RawFrames) /\ Len(Raw(e).frames) \in Nat
         /\ Raw(e).build \in Builds
         /\ Raw(e).frames # <<>> => Raw(e).exception # Nothing
BY FramesAssumption DEF Raw

LEMMA PathStart == PathInit => PathInv
<1>. SUFFICES ASSUME PathInit PROVE PathInv
  OBVIOUS
<1>1. grouped = <<>> /\ grouped \in Seq({}) /\ Len(grouped) = 0
  BY DEF PathInit
<1>. QED
  BY <1>1 DEF PathInit, PathInv, InHand, Grouped

\* The last frame decides the culprit.
LEMMA DecodedEvent ==
  ASSUME NEW e \in DOMAIN RawEvents
  PROVE  Symbolicated(e, 0, Decoded(RawEvents[e]))
<1>1. /\ Raw(e).frames \in Seq(RawFrames) /\ Len(Raw(e).frames) \in Nat
      /\ Raw(e).frames # <<>> => Raw(e).exception # Nothing /\ Len(Raw(e).frames) > 0
  BY FramesType
<1>2. <<>> \in Seq(Originals) /\ Len(<<>>) = 0
  OBVIOUS
<1>. DEFINE d == Decoded(RawEvents[e])
<1>3. /\ d.frames = Raw(e).frames /\ d.exception = Raw(e).exception
      /\ d.fingerprint = Raw(e).fingerprint
      /\ Raw(e).message # Nothing => d.message = Raw(e).message
      /\ d.symbolicated = <<>>
      /\ d = [exception |-> d.exception, message |-> d.message, culprit |-> d.culprit,
              frames |-> d.frames, symbolicated |-> d.symbolicated, fingerprint |-> d.fingerprint]
      /\ d.culprit = IF Raw(e).exception = Nothing \/ Raw(e).frames = <<>> THEN Raw(e).culprit
                     ELSE Culprit(Last(Raw(e).frames))
  BY DEF Decoded, Raw
<1>. HIDE DEF d
<1>4. d.symbolicated \in Seq(Originals) /\ Len(d.symbolicated) = 0
  BY <1>2, <1>3
<1>5. \A k \in 1 .. 0 : d.symbolicated[k] = Original(e, k)
  OBVIOUS
<1>6. Raw(e).frames # <<>> =>
        d.culprit = IF 0 < Len(Raw(e).frames) THEN Culprit(Last(Raw(e).frames))
                    ELSE Culprit(d.symbolicated[0])
  BY <1>1, <1>3
<1>7. Symbolicated(e, 0, d)
  BY <1>3, <1>4, <1>5, <1>6 DEF Symbolicated
<1>. QED
  BY <1>7 DEF d

\* A map that says what the build wrote takes a frame of the bundle to its place in the source.
LEMMA FrameMapped ==
  ASSUME MapsDecoded, NEW e \in DOMAIN RawEvents, NEW k \in 1 .. Len(Raw(e).frames)
  PROVE  Mapped(Raw(e).frames[k], Raw(e).build) \in {Nothing, Original(e, k)}
BY FramesType DEF MapsDecoded, Mapped, Original, Raw

LEMMA FrameTaken ==
  ASSUME NEW e \in DOMAIN RawEvents, NEW n \in Nat, n < Len(Raw(e).frames),
         NEW data, Symbolicated(e, n, data), NEW m, m = Original(e, n + 1)
  PROVE  Symbolicated(e, n + 1, CulpritFollows(
                  [data EXCEPT !.symbolicated = Append(data.symbolicated, m)],
                  Raw(e).frames[n + 1], m))
<1>. DEFINE frames == Raw(e).frames
            frame == frames[n + 1]
            symbolicated == Append(data.symbolicated, m)
            taken == [data EXCEPT !.symbolicated = symbolicated]
            d == CulpritFollows(taken, frame, m)
<1>1. /\ frames \in Seq(RawFrames) /\ Len(frames) \in Nat /\ n + 1 \in 1 .. Len(frames)
      /\ Last(frames) = frames[Len(frames)] /\ Last(frames) \in RawFrames /\ frames # <<>>
  BY FramesType DEF Last
<1>2. m \in Originals
  BY <1>1 DEF Originals, Raw
<1>3. /\ data.symbolicated \in Seq(Originals) /\ Len(data.symbolicated) \in Nat
      /\ Len(data.symbolicated) <= n
  BY DEF Symbolicated
<1>4. /\ symbolicated \in Seq(Originals) /\ Len(symbolicated) = Len(data.symbolicated) + 1
      /\ \A k \in 1 .. Len(data.symbolicated) : symbolicated[k] = data.symbolicated[k]
      /\ symbolicated[Len(data.symbolicated) + 1] = m
  BY <1>2, <1>3
<1>. HIDE DEF symbolicated
<1>5. /\ taken = [exception |-> data.exception, message |-> data.message,
                  culprit |-> data.culprit, frames |-> data.frames,
                  symbolicated |-> symbolicated, fingerprint |-> data.fingerprint]
  BY DEF Symbolicated
<1>. HIDE DEF taken
<1>6. /\ d = [exception |-> data.exception, message |-> data.message,
              culprit |-> d.culprit, frames |-> data.frames,
              symbolicated |-> symbolicated, fingerprint |-> data.fingerprint]
      /\ d.culprit = IF settings.backend = "memory" /\ data.culprit \in {Nothing, Culprit(frame)}
                     THEN Culprit(m) ELSE data.culprit
  BY <1>5 DEF CulpritFollows
<1>. HIDE DEF d
<1>7. /\ d.exception = data.exception /\ d.message = data.message /\ d.frames = data.frames
      /\ d.symbolicated = symbolicated /\ d.fingerprint = data.fingerprint
  BY <1>6
<1>8. ASSUME Len(symbolicated) = n + 1
      PROVE  \A k \in 1 .. n + 1 : symbolicated[k] = Original(e, k)
  BY <1>3, <1>4, <1>8 DEF Symbolicated
<1>9. ASSUME settings.backend = "memory", Distinguished(e), Len(symbolicated) = n + 1
      PROVE  d.culprit = IF n + 1 < Len(frames) THEN Culprit(Last(frames))
                         ELSE Culprit(symbolicated[n + 1])
  <2>1. data.culprit = Culprit(Last(frames)) /\ data.culprit # Nothing
    BY <1>1, <1>3, <1>4, <1>9, FramesAssumption DEF Symbolicated
  <2>2. CASE n + 1 < Len(frames)
    <3>1. Culprit(frame) # Culprit(Last(frames))
      BY <1>1, <1>9, <2>2 DEF Distinguished
    <3>. QED
      BY <1>6, <2>1, <2>2, <3>1
  <2>3. CASE ~(n + 1 < Len(frames))
    <3>1. n + 1 = Len(frames)
      BY <1>1, <2>3
    <3>2. frame = Last(frames)
      BY <1>1, <3>1
    <3>. QED
      BY <1>3, <1>4, <1>6, <1>9, <2>1, <2>3, <3>2
  <2>. QED
    BY <2>2, <2>3
<1>10. Symbolicated(e, n + 1, d)
  <2>1. d = [exception |-> d.exception, message |-> d.message, culprit |-> d.culprit,
             frames |-> d.frames, symbolicated |-> d.symbolicated, fingerprint |-> d.fingerprint]
    BY <1>6, <1>7
  <2>. QED
    BY <1>1, <1>3, <1>4, <1>7, <1>8, <1>9, <2>1 DEF Symbolicated
<1>. QED
  BY <1>10 DEF d, taken, symbolicated

LEMMA FrameMissed ==
  ASSUME NEW e \in DOMAIN RawEvents, NEW n \in Nat, n < Len(Raw(e).frames),
         NEW data, Symbolicated(e, n, data)
  PROVE  Symbolicated(e, n + 1, data)
<1>1. Len(data.symbolicated) \in Nat /\ Len(data.symbolicated) <= n
  BY DEF Symbolicated
<1>2. Len(data.symbolicated) # n + 1 /\ Len(data.symbolicated) <= n + 1
  BY <1>1
<1>. QED
  BY <1>2 DEF Symbolicated

\* Symbolicated and Finished read nothing that changes but the configuration, which does not.
LEMMA SameConfig ==
  ASSUME settings' = settings
  PROVE  /\ \A e, n, data : Symbolicated(e, n, data)' <=> Symbolicated(e, n, data)
         /\ \A g : Finished(g)' <=> Finished(g)
<1>1. \A e, n, data : Symbolicated(e, n, data)' <=> Symbolicated(e, n, data)
  BY DEF Symbolicated
<1>. QED
  BY <1>1 DEF Finished

\* Steps that touch neither the Event in hand nor those that are grouped: an upload, too.
LEMMA ElsewhereInv ==
  ASSUME PathInv, UNCHANGED <<settings, event, grouped>> PROVE PathInv'
<1>1. (\A e, n, data : Symbolicated(e, n, data)' <=> Symbolicated(e, n, data))
      /\ \A g : Finished(g)' <=> Finished(g)
  BY SameConfig
<1>2. InHand' /\ Grouped'
  BY <1>1 DEF PathInv, InHand, Grouped
<1>. QED
  BY <1>2 DEF PathInv

LEMMA NextItemInv == ASSUME PathInv, NextItem PROVE PathInv'
<1>1. UNCHANGED <<settings, artifacts, grouped>>
  BY DEF NextItem
<1>2. (\A e, n, data : Symbolicated(e, n, data)' <=> Symbolicated(e, n, data))
      /\ \A g : Finished(g)' <=> Finished(g)
  BY <1>1, SameConfig
<1>3. InHand'
  <2>. SUFFICES ASSUME event' # Nothing
                PROVE  /\ event' = [of |-> event'.of, frame |-> event'.frame,
                                   data |-> event'.data]
                       /\ event'.of \in DOMAIN RawEvents
                       /\ event'.frame \in 1 .. Len(Raw(event'.of).frames) + 1
                       /\ Symbolicated(event'.of, event'.frame - 1, event'.data)
    BY <1>2 DEF InHand
  <2>1. PICK e \in DOMAIN RawEvents :
          event' = [of |-> e, frame |-> 1, data |-> Decoded(RawEvents[e])]
    BY DEF NextItem, IsEvent
  <2>2. event'.of = e /\ event'.frame = 1 /\ event'.data = Decoded(RawEvents[e])
    BY <2>1
  <2>3. Symbolicated(e, 0, Decoded(RawEvents[e])) /\ 1 \in 1 .. Len(Raw(e).frames) + 1
    BY DecodedEvent, FramesType
  <2>. QED
    BY <2>1, <2>2, <2>3
<1>4. Grouped'
  BY <1>1, <1>2 DEF PathInv, Grouped
<1>. QED
  BY <1>3, <1>4 DEF PathInv

LEMMA SymbolicateFrameInv == ASSUME PathInv, MapsDecoded, SymbolicateFrame PROVE PathInv'
<1>1. UNCHANGED <<settings, artifacts, grouped>> /\ event # Nothing
  BY DEF SymbolicateFrame
<1>2. (\A e, n, data : Symbolicated(e, n, data)' <=> Symbolicated(e, n, data))
      /\ \A g : Finished(g)' <=> Finished(g)
  BY <1>1, SameConfig
<1>3. PICK e, n, data :
        /\ e \in DOMAIN RawEvents /\ n \in Nat
        /\ e = event.of /\ n = event.frame - 1 /\ data = event.data
        /\ event.frame = n + 1 /\ n <= Len(Raw(e).frames) /\ Symbolicated(e, n, data)
  BY <1>1, FramesType DEF PathInv, InHand
<1>. DEFINE frame == Raw(e).frames[n + 1]
            m == Mapped(frame, Raw(e).build)
            next == IF m = Nothing THEN data
                    ELSE CulpritFollows(
                           [data EXCEPT !.symbolicated = Append(data.symbolicated, m)], frame, m)
<1>4. data.frames = Raw(e).frames /\ Len(Raw(e).frames) \in Nat /\ n < Len(Raw(e).frames)
  BY <1>3, FramesType DEF SymbolicateFrame, Symbolicated
<1>5. event' = [of |-> e, frame |-> (n + 1) + 1, data |-> next]
  <2>1. event = [of |-> e, frame |-> n + 1, data |-> data]
    BY <1>1, <1>3 DEF PathInv, InHand
  <2>2. event' = [event EXCEPT !.frame = event.frame + 1, !.data = next]
    BY <1>3, <1>4 DEF SymbolicateFrame, Raw
  <2>. HIDE DEF next
  <2>. QED
    BY <1>3, <2>1, <2>2
<1>. HIDE DEF next
<1>6. Symbolicated(e, n + 1, next)
  <2>1. CASE m = Nothing
    BY <1>3, <1>4, <2>1, FrameMissed DEF next
  <2>2. CASE m # Nothing
    <3>1. m = Original(e, n + 1)
      <4>1. n + 1 \in 1 .. Len(Raw(e).frames)
        BY <1>3, <1>4
      <4>2. m \in {Nothing, Original(e, n + 1)}
        BY <1>3, <4>1, FrameMapped
      <4>. QED
        BY <2>2, <4>2
    <3>2. Symbolicated(e, n + 1, CulpritFollows(
            [data EXCEPT !.symbolicated = Append(data.symbolicated, m)], frame, m))
      BY <1>3, <1>4, <3>1, FrameTaken
    <3>. QED
      BY <2>2, <3>2 DEF next
  <2>. QED
    BY <2>1, <2>2
<1>7. InHand'
  <2>0. event'.of = e /\ event'.frame = (n + 1) + 1 /\ event'.data = next
    BY <1>5
  <2>1. Symbolicated(e, n + 1, event'.data)
    BY <1>6, <2>0
  <2>2. event'.frame - 1 = n + 1 /\ event'.frame \in 1 .. Len(Raw(e).frames) + 1
    <3>1. event'.frame - 1 = ((n + 1) + 1) - 1
      BY <2>0, Zenon
    <3>2. ((n + 1) + 1) - 1 = n + 1 /\ (n + 1) + 1 \in 1 .. Len(Raw(e).frames) + 1
      BY <1>3, <1>4
    <3>. QED
      BY <2>0, <3>1, <3>2, Zenon
  <2>. QED
    <3>1. /\ event' = [of |-> event'.of, frame |-> event'.frame, data |-> event'.data]
          /\ event'.of \in DOMAIN RawEvents
          /\ event'.frame \in 1 .. Len(Raw(event'.of).frames) + 1
          /\ Symbolicated(event'.of, event'.frame - 1, event'.data)
      BY <1>3, <1>5, <2>0, <2>1, <2>2
    <3>. QED
      BY <1>2, <3>1, Zenon DEF InHand
<1>8. Grouped'
  BY <1>1, <1>2 DEF PathInv, Grouped
<1>. QED
  BY <1>7, <1>8 DEF PathInv

LEMMA GroupInv == ASSUME PathInv, Group PROVE PathInv'
<1>1. UNCHANGED <<settings, artifacts>> /\ event # Nothing /\ event' = Nothing
  BY DEF Group
<1>2. (\A e, n, data : Symbolicated(e, n, data)' <=> Symbolicated(e, n, data))
      /\ \A g : Finished(g)' <=> Finished(g)
  BY <1>1, SameConfig
<1>. DEFINE g == [of |-> event.of, data |-> event.data,
                  hash |-> GroupingHash(event.data, settings.version)]
<1>3. grouped' = Append(grouped, g)
  BY DEF Group
<1>4. g.of = event.of /\ g.data = event.data /\ g.hash = GroupingHash(g.data, settings.version)
  OBVIOUS
<1>5. Finished(g)
  <2>1. /\ event.of \in DOMAIN RawEvents /\ event.frame - 1 = Len(Raw(event.of).frames)
        /\ Symbolicated(event.of, event.frame - 1, event.data)
    BY <1>1, FramesType DEF PathInv, InHand, Group, Symbolicated
  <2>2. Symbolicated(event.of, Len(Raw(event.of).frames), event.data)
    BY <2>1
  <2>. QED
    BY <1>4, <2>1, <2>2 DEF Finished
<1>. HIDE DEF g
<1>6. PICK S : grouped \in Seq(S)
  BY DEF PathInv, Grouped
<1>7. grouped \in Seq(S \cup {g})
  BY <1>6
<1>8. /\ grouped' \in Seq(S \cup {g}) /\ Len(grouped') = Len(grouped) + 1 /\ Len(grouped) \in Nat
      /\ \A k \in 1 .. Len(grouped) : grouped'[k] = grouped[k]
      /\ grouped'[Len(grouped) + 1] = g
  BY <1>3, <1>7
<1>9. \A k \in 1 .. Len(grouped') : Finished(grouped'[k])
  BY <1>5, <1>8 DEF PathInv, Grouped
<1>10. Grouped'
  BY <1>2, <1>8, <1>9 DEF Grouped
<1>. QED
  BY <1>1, <1>10 DEF PathInv, InHand

LEMMA PathStep == PathInv /\ MapsDecoded /\ [PathNext]_pathVars => PathInv'
<1>. SUFFICES ASSUME PathInv, MapsDecoded, [PathNext]_pathVars PROVE PathInv'
  OBVIOUS
<1>1. CASE \/ RelayScrubs \/ RelayFilters \/ ServerIngests \/ TakeJob \/ UNCHANGED pathVars
           \/ \E b \in Builds : Upload(b)
  <2>1. UNCHANGED <<settings, event, grouped>>
    BY <1>1 DEF RelayScrubs, RelayFilters, ServerIngests, TakeJob, Upload, Worker, pathVars
  <2>. QED
    BY <2>1, ElsewhereInv
<1>. QED
  BY <1>1, NextItemInv, SymbolicateFrameInv, GroupInv DEF PathNext

-----------------------------------------------------------------------------
\* Where all frames are mapped, a symbolicated stack is that of the places in the source.
LEMMA SameStack ==
  ASSUME NEW g, NEW h, Finished(g), Finished(h), Whole(g), Whole(h),
         ~Custom(Raw(g.of).fingerprint), OneError(g.of, h.of)
  PROVE  g.data.symbolicated = h.data.symbolicated
<1>. DEFINE e == g.of
            f == h.of
            n == Len(Raw(e).frames)
<1>1. e \in DOMAIN RawEvents /\ f \in DOMAIN RawEvents
  BY DEF Finished
<1>2. n \in Nat /\ Len(Raw(f).frames) = n
  BY <1>1, FramesType DEF OneError, Raw
<1>3. \A k \in 1 .. n : Original(e, k) = Original(f, k)
  BY DEF OneError, Raw
<1>4. /\ g.data.symbolicated \in Seq(Originals) /\ Len(g.data.symbolicated) = n
      /\ \A k \in 1 .. n : g.data.symbolicated[k] = Original(e, k)
  BY DEF Finished, Symbolicated, Whole
<1>5. /\ h.data.symbolicated \in Seq(Originals) /\ Len(h.data.symbolicated) = n
      /\ \A k \in 1 .. n : h.data.symbolicated[k] = Original(f, k)
  BY <1>2 DEF Finished, Symbolicated, Whole
<1>. HIDE DEF n, e, f
<1>. QED
  BY <1>2, <1>3, <1>4, <1>5, SeqEqual

\* What is hashed of an Event whose frames are all mapped.
LEMMA PartsSymbolicated ==
  ASSUME NEW d, d.exception # Nothing, d.symbolicated # <<>>
  PROVE  /\ PartsV1(d) = <<d.exception>> \o FrameV1(Last(d.symbolicated))
         /\ PartsV2(d) = (<<d.exception>> \o FrameParts(GroupingFrames(d.symbolicated)))
                           \o CulpritPart(d.culprit, Path)
<1>1. PartsV2(d) = (<<d.exception>> \o FrameParts(GroupingFrames(d.symbolicated)))
                     \o CulpritPart(d.culprit, Path)
  BY DEF PartsV2
<1>2. PartsV1(d) = <<d.exception>> \o FrameV1(Last(d.symbolicated))
  BY Zenon DEF PartsV1
<1>. QED
  BY <1>1, <1>2

\* And of one that has no frames.
LEMMA PartsFrameless ==
  ASSUME NEW d, d.symbolicated = <<>>, d.frames = <<>>
  PROVE  /\ PartsV1(d) = IF d.exception = Nothing THEN CulpritPart(d.culprit, PathV1)
                         ELSE <<d.exception>> \o (<<>> \o CulpritPart(d.culprit, PathV1))
         /\ PartsV2(d) = (IF d.exception = Nothing THEN <<>>
                          ELSE <<d.exception>> \o FrameParts(GroupingFrames(<<>>)))
                           \o CulpritPart(d.culprit, Path)
<1>1. CASE d.exception = Nothing
  BY <1>1, Zenon DEF PartsV1, PartsV2
<1>2. CASE d.exception # Nothing
  BY <1>2, Zenon DEF PartsV1, PartsV2
<1>. QED
  BY <1>1, <1>2

LEMMA SameHash ==
  ASSUME NEW g, NEW h, Finished(g), Finished(h), Origin(g) = Origin(h),
         Whole(g), Whole(h), Raw(g.of).message # Nothing, Raw(h.of).message # Nothing,
         \/ settings.version = 1
         \/ settings.backend = "memory" /\ Distinct(g) /\ Distinct(h)
  PROVE  g.hash = h.hash
<1>. DEFINE e == g.of
            f == h.of
            d == g.data
            c == h.data
            n == Len(Raw(e).frames)
<1>1. e \in DOMAIN RawEvents /\ f \in DOMAIN RawEvents /\ OneError(e, f)
  BY OriginAssumption DEF Finished, Origin
<1>2. /\ g.hash = GroupingHash(d, settings.version) /\ h.hash = GroupingHash(c, settings.version)
      /\ d.fingerprint = Raw(e).fingerprint /\ c.fingerprint = Raw(e).fingerprint
  BY <1>1 DEF Finished, Symbolicated, OneError, Raw
<1>3. CASE Custom(Raw(e).fingerprint)
  BY <1>2, <1>3 DEF GroupingHash
<1>4. CASE ~Custom(Raw(e).fingerprint)
  <2>1. /\ Raw(e).exception = Raw(f).exception /\ Raw(e).culprit = Raw(f).culprit
        /\ MessagePart(Raw(e).message) = MessagePart(Raw(f).message)
        /\ Len(Raw(f).frames) = n
    BY <1>1, <1>4 DEF OneError, Raw
  <2>2. n \in Nat /\ Raw(e).frames \in Seq(RawFrames) /\ Raw(f).frames \in Seq(RawFrames)
        /\ (n > 0 => Raw(e).exception # Nothing)
    BY <1>1, FramesType
  <2>3. d.symbolicated = c.symbolicated
    BY <1>1, <1>4, SameStack
  <2>4. /\ d.exception = Raw(e).exception /\ c.exception = Raw(e).exception
        /\ MessagePart(d.message) = MessagePart(c.message)
        /\ d.frames = Raw(e).frames /\ c.frames = Raw(f).frames
        /\ Len(d.symbolicated) = n /\ d.symbolicated \in Seq(Originals)
    BY <2>1 DEF Finished, Symbolicated, Whole
  <2>5. CASE n = 0
    <3>1. /\ d.frames = <<>> /\ c.frames = <<>>
          /\ d.symbolicated = <<>> /\ c.symbolicated = <<>>
          /\ Raw(e).frames = <<>> /\ Raw(f).frames = <<>>
      BY <2>1, <2>2, <2>3, <2>4, <2>5
    <3>2. d.culprit = c.culprit
      BY <2>1, <3>1 DEF Finished, Symbolicated
    <3>3. PartsV1(d) = PartsV1(c) /\ PartsV2(d) = PartsV2(c)
      <4>. HIDE DEF d, c
      <4>. QED
        BY <2>4, <3>1, <3>2, PartsFrameless
    <3>. QED
      BY <1>2, <1>4, <2>4, <3>3, Zenon DEF GroupingHash
  <2>6. CASE n # 0
    <3>1. d.symbolicated # <<>> /\ d.exception # Nothing /\ c.exception # Nothing
      BY <2>2, <2>4, <2>6
    <3>2. PartsV1(d) = PartsV1(c)
      <4>. HIDE DEF d, c
      <4>. QED
        BY <2>3, <2>4, <3>1, PartsSymbolicated
    <3>3. CASE settings.version = 1
      <4>. HIDE DEF d, c
      <4>. QED
        BY <1>2, <1>4, <2>4, <3>2, <3>3, Zenon DEF GroupingHash
    <3>4. CASE settings.version # 1
      <4>1. settings.backend = "memory" /\ Distinguished(e) /\ Distinguished(f)
        BY <2>4, <3>4 DEF Distinct, Distinguished
      <4>2. d.culprit = Culprit(d.symbolicated[n])
        BY <2>2, <2>4, <2>6, <4>1 DEF Finished, Symbolicated
      <4>3. c.culprit = Culprit(c.symbolicated[n])
        BY <2>1, <2>2, <2>3, <2>4, <2>6, <4>1 DEF Finished, Symbolicated
      <4>4. d.culprit = c.culprit
        BY <2>3, <4>2, <4>3
      <4>5. PartsV2(d) = PartsV2(c)
        <5>. HIDE DEF d, c
        <5>. QED
          BY <2>3, <2>4, <3>1, <4>4, PartsSymbolicated
      <4>. HIDE DEF d, c
      <4>. QED
        BY <1>2, <1>4, <2>4, <3>4, <4>5, Zenon DEF GroupingHash
    <3>. QED
      BY <3>3, <3>4
  <2>. QED
    BY <2>5, <2>6
<1>. QED
  BY <1>3, <1>4

\* Two Events of one error, in whatever builds, whenever the maps are uploaded and whatever
\* came before them, have one hash once all their frames are mapped and the SDK gave a
\* message: in version 1, and in version 2 with the memory backend unless another frame of
\* the bundle reads like the last (processPayload, symbolicate, GroupingHashForVersion).
\* All it asks of the decoder of source maps is what MapsDecoded says.
THEOREM BuildsAreOneIssue == PathSpec /\ []MapsDecoded => []BuildsGroupTogether
<1>1. PathInv => BuildsGroupTogether
  <2>. SUFFICES ASSUME PathInv, NEW i \in 1 .. Len(grouped), NEW j \in 1 .. Len(grouped),
                  Origin(grouped[i]) = Origin(grouped[j]),
                  \A g \in {grouped[i], grouped[j]} : Whole(g) /\ RawEvents[g.of].message # Nothing,
                  \/ settings.version = 1
                  \/ /\ settings.backend = "memory"
                     /\ \A g \in {grouped[i], grouped[j]} : Distinct(g)
                PROVE  grouped[i].hash = grouped[j].hash
    BY Zenon DEF BuildsGroupTogether
  <2>1. Finished(grouped[i]) /\ Finished(grouped[j])
    BY DEF PathInv, Grouped
  <2>2. /\ Whole(grouped[i]) /\ Raw(grouped[i].of).message # Nothing
        /\ Whole(grouped[j]) /\ Raw(grouped[j].of).message # Nothing
    BY DEF Raw
  <2>3. settings.version = 1
        \/ (settings.backend = "memory" /\ Distinct(grouped[i]) /\ Distinct(grouped[j]))
    OBVIOUS
  <2>. QED
    BY <2>1, <2>2, <2>3, SameHash
<1>. QED
  BY <1>1, PathStart, PathStep, PTL DEF PathSpec
====
