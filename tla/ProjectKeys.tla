------------------------------ MODULE ProjectKeys ------------------------------
(***************************************************************************)
(* Which requests are admitted by their key (handleAPI of app.go with       *)
(* ValidProjectKey and EnsureProject) while keys are created and revoked    *)
(* and projects are created through the API.                                *)
(*                                                                          *)
(* Over PostgreSQL (postgres_control.go) any number of servers share the    *)
(* tables; one action is one statement, or a transaction whose other        *)
(* statements cannot be overtaken, and a public key is unique in the table. *)
(* In memory (control.go) one server has maps under a mutex; one action is  *)
(* one critical section, and ids come from a counter.                       *)
(***************************************************************************)
EXTENDS Integers, FiniteSets, FiniteSetsExt

CONSTANTS
  Handlers,     \* requests that may be in progress at once
  Admins,       \* revocations that may be in progress at once
  DsnProjects,  \* project ids that clients have in their DSNs
  ApiProjects,  \* ids given to projects created through the API
  DsnKeys,      \* keys that clients brought from elsewhere
  ApiKeys,      \* keys generated by the API
  Backends,     \* the control planes: postgres, memory
  Numbers,      \* project ids that the counter in memory gives
  MaxFaults     \* bound on failing statements

None == "none"
Projects == DsnProjects \cup ApiProjects
Keys == DsnKeys \cup ApiKeys

ASSUME BoundAssumption == MaxFaults \in Nat
ASSUME NoneAssumption == None \notin Projects \cup Keys
\* A generated key is random: no client brought an equal one along.
ASSUME FreshAssumption == DsnKeys \cap ApiKeys = {}

VARIABLES
  backend,
  slug,     \* sentryx_control_projects, projects: the slug of each project that exists
  keys,     \* sentryx_project_keys, keys: those of each project
  bySlug,   \* projectBySlug, in memory only
  given,    \* numbers the counter has given to projects
  issued,   \* keys the API has generated
  request,  \* the request of each handler
  revoking, \* the revocation of each admin
  could,    \* verdicts that the table justified at some moment of each request
  emptied,  \* projects that had a key and lost the last one
  faults

vars == <<backend, slug, keys, bySlug, given, issued, request, revoking, could, emptied, faults>>
memory == <<backend, bySlug, given>>
tables == <<slug, keys, issued, memory>>

Exists(p) == slug[p] # None
KeysOf(p) == keys[p]
Holders(k) == {p \in Projects : k \in keys[p]}

Idle == [phase |-> "idle", project |-> None, key |-> None, failed |-> FALSE]
AtRest == [phase |-> "idle", project |-> None, key |-> None, overtaken |-> FALSE]

Judging == {"count", "exists"}
Admitted == {"ensure", "insert", "admitted"}

TypeOK ==
  /\ slug \in [Projects -> Projects \cup {None}]
  /\ keys \in [Projects -> SUBSET Keys]
  /\ \A p \in Projects : keys[p] # {} => Exists(p)
  /\ backend = "postgres" => \A k \in Keys : Cardinality(Holders(k)) <= 1
  /\ bySlug \in [Projects -> Projects \cup {None}]
  /\ given \subseteq Numbers
  /\ issued \subseteq ApiKeys
  /\ request \in [Handlers -> [phase : Judging \cup Admitted \cup {"idle", "refused"},
                               project : Projects \cup {None}, key : Keys \cup {None},
                               failed : BOOLEAN]]
  /\ revoking \in [Admins -> [phase : {"idle", "delete"}, project : Projects \cup {None},
                              key : Keys \cup {None}, overtaken : BOOLEAN]]
  /\ could \in [Handlers -> SUBSET {"admit", "refuse"}]
  /\ emptied \subseteq Projects
  /\ faults \in 0 .. MaxFaults

Init ==
  /\ slug = [p \in Projects |-> None]
  /\ backend \in Backends
  /\ keys = [p \in Projects |-> {}]
  /\ bySlug = [p \in Projects |-> None]
  /\ given = {}
  /\ issued = {}
  /\ request = [h \in Handlers |-> Idle]
  /\ revoking = [a \in Admins |-> AtRest]
  /\ could = [h \in Handlers |-> {}]
  /\ emptied = {}
  /\ faults = 0

Fault == faults < MaxFaults /\ faults' = faults + 1

-----------------------------------------------------------------------------
(* A request.                                                              *)

Goes(h, phase) == request' = [request EXCEPT ![h].phase = phase]
Fails(h, phase) == /\ request' = [request EXCEPT ![h].phase = phase, ![h].failed = TRUE]
                   /\ Fault

Receive(h, p, k) ==
  /\ request[h].phase = "idle"
  /\ p \in DsnProjects \/ Exists(p)
  /\ k \in DsnKeys \cup issued
  /\ request' = [request EXCEPT ![h] = [phase |-> "count", project |-> p, key |-> k, failed |-> FALSE]]
  /\ UNCHANGED <<tables, revoking, emptied, faults>>

\* ValidProjectKey: a project without keys, or a failing count, admits any key.
Count(h) ==
  /\ backend = "postgres" /\ request[h].phase = "count"
  /\ \/ KeysOf(request[h].project) = {} /\ Goes(h, "ensure") /\ UNCHANGED faults
     \/ KeysOf(request[h].project) # {} /\ Goes(h, "exists") /\ UNCHANGED faults
     \/ Fails(h, "ensure")
  /\ UNCHANGED <<tables, revoking, emptied>>

\* Broken on purpose, as GivenToNew, LastOfAny and TakenNever below: the variants the checks
\* must refute.
KnownAnywhere(p, k) == Holders(k) # {}
Known(p, k) == k \in keys[p]

Look(h) ==
  /\ request[h].phase = "exists"
  /\ \/ /\ Goes(h, IF Known(request[h].project, request[h].key) THEN "ensure" ELSE "refused")
        /\ UNCHANGED faults
     \/ Fails(h, "refused")
  /\ UNCHANGED <<tables, revoking, emptied>>

\* The slug of a project provisioned by a request is its id, and unique.
Provisioned(p) == IF Exists(p) \/ \E q \in Projects : slug[q] = p THEN slug
                  ELSE [slug EXCEPT ![p] = p]

\* The key goes to the project unless another project has it, or the project could not
\* be provisioned.
GivenToNew(p, k) == IF Holders(k) = {} /\ ~Exists(p) /\ slug'[p] # None
                    THEN [keys EXCEPT ![p] = @ \cup {k}] ELSE keys
Adopted(p, k) == IF Holders(k) = {} /\ slug'[p] # None
                 THEN [keys EXCEPT ![p] = @ \cup {k}] ELSE keys

\* EnsureProject.  The row of a new project keeps other transactions of it waiting,
\* that of an old one does not: there the key is looked for and inserted at
\* different moments.  Whatever fails is only logged.
Ensure(h) ==
  LET p == request[h].project IN
  /\ backend = "postgres" /\ request[h].phase = "ensure"
  /\ \/ /\ ~Exists(p)
        /\ slug' = Provisioned(p)
        /\ keys' = Adopted(p, request[h].key)
        /\ Goes(h, "admitted")
        /\ UNCHANGED faults
     \/ /\ Exists(p)
        /\ Goes(h, IF KeysOf(p) = {} THEN "insert" ELSE "admitted")
        /\ UNCHANGED <<slug, keys, faults>>
     \/ /\ Fails(h, "admitted")
        /\ UNCHANGED <<slug, keys>>
  /\ UNCHANGED <<issued, memory, revoking, emptied>>

InsertKey(h) ==
  /\ request[h].phase = "insert"
  /\ \/ /\ UNCHANGED slug
        /\ keys' = Adopted(request[h].project, request[h].key)
        /\ Goes(h, "admitted")
        /\ UNCHANGED faults
     \/ /\ Fails(h, "admitted")
        /\ UNCHANGED <<slug, keys>>
  /\ UNCHANGED <<issued, memory, revoking, emptied>>

\* In memory both are one critical section each, and a project that is there is left
\* alone.  The slug of a new one is its id, whoever had it.
Judge(h) ==
  LET r == request[h] IN
  /\ backend = "memory" /\ r.phase = "count"
  /\ Goes(h, IF KeysOf(r.project) = {} \/ Known(r.project, r.key) THEN "ensure" ELSE "refused")
  /\ UNCHANGED <<tables, revoking, emptied, faults>>

TakeOver(p) == [bySlug EXCEPT ![p] = p]

Provision(h) ==
  LET p == request[h].project IN
  /\ backend = "memory" /\ request[h].phase = "ensure"
  /\ IF Exists(p) THEN UNCHANGED <<slug, keys, bySlug>>
     ELSE /\ slug' = [slug EXCEPT ![p] = p]
          /\ keys' = [keys EXCEPT ![p] = {request[h].key}]
          /\ bySlug' = TakeOver(p)
  /\ Goes(h, "admitted")
  /\ UNCHANGED <<backend, given, issued, revoking, emptied, faults>>

\* The request goes on to the rate limiter and the queue, or is answered 401.
Answer(h) ==
  /\ request[h].phase \in {"admitted", "refused"}
  /\ request' = [request EXCEPT ![h] = Idle]
  /\ UNCHANGED <<tables, revoking, emptied, faults>>

-----------------------------------------------------------------------------
(* Management.                                                             *)

\* A project is created with its first key, in PostgreSQL under a random id and a
\* slug that is unique, in memory under the next number, which a DSN may have named
\* before, and a slug that is not in the index.
TakenNever(s) == FALSE
Taken(s) == IF backend = "memory" THEN bySlug[s] # None ELSE \E q \in Projects : slug[q] = s

CreateProject(p, s, k) ==
  /\ IF backend = "memory" THEN p \in Numbers \ given ELSE p \in ApiProjects /\ ~Exists(p)
  /\ ~Taken(s)
  /\ k \in ApiKeys \ issued
  /\ slug' = [slug EXCEPT ![p] = s]
  /\ keys' = [keys EXCEPT ![p] = {k}]
  /\ bySlug' = IF backend = "memory" THEN [bySlug EXCEPT ![s] = p] ELSE bySlug
  /\ given' = IF backend = "memory" THEN given \cup {p} ELSE given
  /\ issued' = issued \cup {k}
  /\ UNCHANGED <<backend, request, revoking, emptied, faults>>

CreateProjectKey(p, k) ==
  /\ Exists(p)
  /\ k \in ApiKeys \ issued
  /\ keys' = [keys EXCEPT ![p] = @ \cup {k}]
  /\ issued' = issued \cup {k}
  /\ UNCHANGED <<slug, memory, request, revoking, emptied, faults>>

LastOfAny(p) == Cardinality(KeysOf(p)) < 1
LastKey(p) == Cardinality(KeysOf(p)) <= 1

\* RevokeProjectKey counts the keys and then deletes the row the client named.
RevokeCount(a, p, k) ==
  /\ backend = "postgres" /\ revoking[a].phase = "idle"
  /\ k \in KeysOf(p) /\ ~LastKey(p)
  /\ revoking' = [revoking EXCEPT ![a] = [phase |-> "delete", project |-> p, key |-> k,
                                               overtaken |-> FALSE]]
  /\ UNCHANGED <<tables, request, emptied, faults>>

\* The row named, if it is still there: a row inserted meanwhile with an equal key has
\* another id, so every other revocation of this one now finds nothing.
RevokeDelete(a) ==
  LET p == revoking[a].project
      k == revoking[a].key
      Overtake(r) == IF k = None \/ r.project # p THEN r
                     ELSE [r EXCEPT !.overtaken = TRUE, !.key = IF @ = k THEN None ELSE @] IN
  /\ revoking[a].phase = "delete"
  /\ keys' = [q \in Projects |-> keys[q] \ {k}]
  /\ revoking' = [b \in Admins |-> IF b = a THEN AtRest ELSE Overtake(revoking[b])]
  /\ emptied' = IF KeysOf(p) = {k} THEN emptied \cup {p} ELSE emptied
  /\ UNCHANGED <<slug, issued, memory, request, faults>>

RevokeFails(a) ==
  /\ revoking[a].phase = "delete" /\ Fault
  /\ revoking' = [revoking EXCEPT ![a] = AtRest]
  /\ UNCHANGED <<tables, request, emptied>>

Revoke(p, k) ==
  /\ backend = "memory"
  /\ k \in KeysOf(p) /\ ~LastKey(p)
  /\ keys' = [keys EXCEPT ![p] = @ \ {k}]
  /\ UNCHANGED <<slug, issued, memory, request, revoking, emptied, faults>>

-----------------------------------------------------------------------------
\* What ValidProjectKey would say if it read the table in one statement.
Verdict(table, p, k) == IF k \in table[p] \/ table[p] = {} THEN "admit" ELSE "refuse"

Observe ==
  could' = [h \in Handlers |->
    IF request'[h].phase = "idle" THEN {}
    ELSE could[h] \cup {Verdict(keys', request'[h].project, request'[h].key)}]

Serve(h) ==
  \/ \E p \in Projects, k \in Keys : Receive(h, p, k)
  \/ Count(h) \/ Look(h) \/ Ensure(h) \/ InsertKey(h)
  \/ Judge(h) \/ Provision(h)
  \/ Answer(h)

Manage ==
  \/ \E p, s \in Projects, k \in ApiKeys : CreateProject(p, s, k)
  \/ \E p \in Projects, k \in ApiKeys : CreateProjectKey(p, k)
  \/ \E p \in Projects, k \in Keys : Revoke(p, k)
  \/ \E a \in Admins : \/ \E p \in Projects, k \in Keys : RevokeCount(a, p, k)
                       \/ RevokeDelete(a) \/ RevokeFails(a)

Next ==
  /\ (\E h \in Handlers : Serve(h)) \/ Manage
  /\ Observe

Spec == Init /\ [][Next]_vars

-----------------------------------------------------------------------------
(* Safety.                                                                 *)

\* A request is admitted, or refused, only if one moment of it justified that: the two
\* statements of ValidProjectKey do not mix two states of the table.  Except that a
\* failing statement decides on its own, and so may the loss of the last key.
VerdictsHold ==
  \A h \in Handlers :
    /\ request[h].phase \in Admitted => "admit" \in could[h] \/ request[h].failed
    /\ request[h].phase = "refused" =>
         "refuse" \in could[h] \/ request[h].failed \/ request[h].project \in emptied

\* A project loses one key at a time, by a revocation, and the last one only if another
\* revocation overtook that between its count and its deletion.  Except that in memory
\* a project that a request provisioned is replaced when the counter comes to its id.
KeysKept ==
  [][\A p \in Projects : LET lost == keys[p] \ keys'[p] IN
       lost # {} =>
         \/ backend = "memory" /\ p \in given' \ given /\ slug[p] = p
         \/ /\ Cardinality(lost) = 1
            /\ keys'[p] # {} \/ \E a \in Admins : revoking[a].project = p /\ revoking[a].overtaken]_vars

\* In memory a project is found under its slug, and a slug leads to a project that has
\* it.  The exceptions are slugs that are the id of a project: there the id decides
\* (EnsureProject takes the slug over, CreateProject the number).
SlugsLead ==
  backend = "memory" => \A p, s \in Projects :
    /\ slug[p] = s => bySlug[s] \in {p, s}
    /\ bySlug[s] = p => slug[p] = s \/ p = s

\* A request that was admitted without a failure leaves a project with a key behind,
\* unless its key is another project's or its project id another project's slug.
ProvisionedUnlessTaken ==
  [][\A h \in Handlers :
       LET p == request[h].project
           k == request[h].key IN
       request[h].phase \in {"ensure", "insert"} /\ request'[h].phase = "admitted"
         /\ ~request'[h].failed =>
         \/ keys'[p] # {}
         \/ \E q \in Projects \ {p} : k \in keys'[q]
         \/ \E q \in Projects \ {p} : slug'[q] = p]_vars
=============================================================================
