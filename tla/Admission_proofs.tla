--------------------------- MODULE Admission_proofs ---------------------------
(***************************************************************************)
(* Proofs about the two gates that handleAPI puts a request through before *)
(* it reads the body: the key (ProjectKeys), and the limiter (RateLimiter).*)
(*                                                                         *)
(* Keys, for every set of handlers, admins, projects and keys: the         *)
(* verdicts of requests, the keys a project keeps, and the slugs in        *)
(* memory.  The invariant has a part about the tables and the              *)
(* revocations, which no request can break, and a part about the requests, *)
(* which needs to know of the tables only how they move.                   *)
(*                                                                         *)
(* The limiter, for every limit, window, table size, set of buckets and    *)
(* number of requests: the invariant keeps an account of each period as    *)
(* long as a window, open or over, and of each window in the table.        *)
(***************************************************************************)
EXTENDS ProjectKeys, RateLimiter, FiniteSetTheorems, TLAPS

-----------------------------------------------------------------------------
(* The invariant.                                                          *)

Revocation == [phase : {"idle", "delete"}, project : Projects \cup {None},
               key : Keys \cup {None}, overtaken : BOOLEAN]
Request == [phase : Judging \cup Admitted \cup {"idle", "refused"},
            project : Projects \cup {None}, key : Keys \cup {None}, failed : BOOLEAN]

TablesTyped ==
  /\ slug \in [Projects -> Projects \cup {None}]
  /\ keys \in [Projects -> SUBSET Keys]
  /\ bySlug \in [Projects -> Projects \cup {None}]
  /\ given \subseteq Numbers
  /\ issued \subseteq ApiKeys
  /\ emptied \subseteq Projects
  /\ faults \in 0 .. MaxFaults
  /\ revoking \in [Admins -> Revocation]

\* A key belongs to a project that exists, and was brought along or generated.
Owned ==
  /\ \A p \in Projects : keys[p] # {} => Exists(p)
  /\ \A p \in Projects : keys[p] \subseteq DsnKeys \cup issued

\* What the unique index of PostgreSQL keeps.
Unique == backend = "postgres" =>
  \A p, q \in Projects : \A k \in Keys : k \in keys[p] /\ k \in keys[q] => p = q

\* In memory every project has a key, and one that the counter has not given was
\* provisioned by a request, under its id.
Numbered == backend = "memory" => \A p \in Projects : Exists(p) =>
  /\ keys[p] # {}
  /\ p \notin given => slug[p] = p

\* A revocation under way has its key still in the table unless another was faster; then
\* it knows none.  Until then there is a second key.
Underway ==
  \A a \in Admins : revoking[a].phase = "delete" =>
    LET p == revoking[a].project
        k == revoking[a].key IN
    /\ backend = "postgres" /\ p \in Projects
    /\ k # None => k \in keys[p]
    /\ ~revoking[a].overtaken => \E l \in keys[p] : l # k

TableInv == TablesTyped /\ Owned /\ Unique /\ Numbered /\ SlugsLead /\ Underway

Judged(h) ==
  request[h].phase # "idle" =>
    LET p == request[h].project
        k == request[h].key IN
    /\ p \in Projects /\ k \in DsnKeys \cup issued
    /\ Verdict(keys, p, k) \in could[h]
    /\ request[h].phase \in Admitted => "admit" \in could[h] \/ request[h].failed
    /\ request[h].phase = "refused" => "refuse" \in could[h] \/ request[h].failed \/ p \in emptied
    /\ request[h].phase = "exists" => backend = "postgres" /\ (keys[p] # {} \/ p \in emptied)
    /\ request[h].phase = "insert" => backend = "postgres" /\ Exists(p)

RequestInv ==
  /\ request \in [Handlers -> Request]
  /\ could \in [Handlers -> SUBSET {"admit", "refuse"}]
  /\ \A h \in Handlers : Judged(h)

Inv == TableInv /\ RequestInv

\* All that a request needs to know of a step of others.
Moves ==
  /\ UNCHANGED backend
  /\ issued \subseteq issued' /\ emptied \subseteq emptied'
  /\ \A p \in Projects : backend = "postgres" /\ Exists(p) => slug'[p] # None
  /\ \A p \in Projects : backend = "postgres" /\ keys[p] # {} => keys'[p] # {} \/ p \in emptied'

-----------------------------------------------------------------------------
(* Initial states.                                                         *)

LEMMA InitInv == Init => Inv
<1>. SUFFICES ASSUME Init PROVE Inv
  OBVIOUS
<1>1. TablesTyped
  BY BoundAssumption DEF Init, TablesTyped, Revocation, AtRest
<1>2. Owned /\ Unique /\ Numbered /\ SlugsLead /\ Underway
  BY NoneAssumption DEF Init, Owned, Unique, Numbered, SlugsLead, Underway, Exists, AtRest
<1>3. RequestInv
  BY DEF Init, RequestInv, Judged, Request, Idle
<1>. QED
  BY <1>1, <1>2, <1>3 DEF Inv, TableInv

-----------------------------------------------------------------------------
(* Steps of requests and the tables.                                       *)

LEMMA FaultType ==
  ASSUME TablesTyped, Fault \/ UNCHANGED faults PROVE faults' \in 0 .. MaxFaults
BY BoundAssumption DEF TablesTyped, Fault

\* Where nothing but a fault happens to the tables, all holds on.
LEMMA TablesStay ==
  ASSUME TableInv, UNCHANGED <<tables, revoking, emptied>>, Fault \/ UNCHANGED faults
  PROVE  TableInv' /\ Moves
<1>1. faults' \in 0 .. MaxFaults
  BY FaultType DEF TableInv
<1>2. UNCHANGED <<backend, slug, keys, bySlug, given, issued, revoking, emptied>>
  BY DEF tables, memory
<1>3. TablesTyped'
  BY <1>1, <1>2 DEF TableInv, TablesTyped
<1>4. Owned' /\ Unique' /\ Numbered' /\ SlugsLead' /\ Underway'
  BY <1>2 DEF TableInv, Owned, Unique, Numbered, SlugsLead, Underway, Exists
<1>5. Moves
  BY <1>2 DEF Moves, Exists
<1>. QED
  BY <1>3, <1>4, <1>5 DEF TableInv

\* A key is given to a project in PostgreSQL only if no project has it.
LEMMA GrowPostgres ==
  ASSUME TableInv, backend = "postgres", NEW p \in Projects, NEW k \in Keys,
         slug' \in [Projects -> Projects \cup {None}],
         \A q \in Projects : Exists(q) => slug'[q] = slug[q],
         \/ keys' = keys
         \/ /\ \A q \in Projects : k \notin keys[q]
            /\ keys' = [keys EXCEPT ![p] = @ \cup {k}] /\ slug'[p] # None,
         k \in DsnKeys \cup issued', issued \subseteq issued', issued' \subseteq ApiKeys,
         UNCHANGED <<backend, bySlug, given, revoking, emptied>>, Fault \/ UNCHANGED faults
  PROVE  TableInv' /\ Moves
<1>0. keys \in [Projects -> SUBSET Keys]
  BY DEF TableInv, TablesTyped
<1>1. /\ keys' \in [Projects -> SUBSET Keys]
      /\ \A q \in Projects \ {p} : keys'[q] = keys[q]
      /\ keys[p] \subseteq keys'[p] /\ keys'[p] \subseteq keys[p] \cup {k}
      /\ keys'[p] # keys[p] => slug'[p] # None
  BY <1>0
<1>2. TablesTyped'
  BY <1>1, FaultType DEF TableInv, TablesTyped
<1>3. Owned'
  BY <1>1 DEF TableInv, Owned, Exists
<1>4. Unique'
  BY <1>1 DEF TableInv, Unique
<1>5. Numbered' /\ SlugsLead'
  BY DEF Numbered, SlugsLead
<1>6. Underway'
  BY <1>1 DEF TableInv, Underway
<1>7. Moves
  BY <1>1 DEF Moves, Exists
<1>. QED
  BY <1>2, <1>3, <1>4, <1>5, <1>6, <1>7 DEF TableInv

\* Provisioning gives a project its id as slug, and changes no other.
LEMMA ProvisionedType ==
  ASSUME TablesTyped, NEW p \in Projects, slug' = Provisioned(p)
  PROVE  /\ slug' \in [Projects -> Projects \cup {None}]
         /\ \A q \in Projects : Exists(q) => slug'[q] = slug[q]
BY DEF TablesTyped, Provisioned, Exists

\* What Ensure and InsertKey do with the key.
LEMMA AdoptedKeys ==
  ASSUME NEW p, NEW k, keys' = Adopted(p, k)
  PROVE  \/ keys' = keys
         \/ /\ \A q \in Projects : k \notin keys[q]
            /\ keys' = [keys EXCEPT ![p] = @ \cup {k}] /\ slug'[p] # None
BY DEF Adopted, Holders

LEMMA EnsureTables ==
  ASSUME Inv, NEW h \in Handlers, Ensure(h)
  PROVE  TableInv' /\ Moves
<1>. DEFINE p == request[h].project
            k == request[h].key
<1>0. p \in Projects /\ k \in DsnKeys \cup issued /\ k \in Keys /\ TableInv /\ TablesTyped
  BY DEF Ensure, Inv, RequestInv, Judged, TableInv, TablesTyped, Keys
<1>1. CASE ~Exists(p) /\ slug' = Provisioned(p) /\ keys' = Adopted(p, k) /\ UNCHANGED faults
  BY <1>0, <1>1, AdoptedKeys, ProvisionedType, GrowPostgres DEF Ensure, memory, TablesTyped
<1>2. CASE UNCHANGED <<slug, keys>> /\ (Fault \/ UNCHANGED faults)
  BY <1>0, <1>2, TablesStay DEF Ensure, tables
<1>. QED
  BY <1>1, <1>2 DEF Ensure, Fails

LEMMA InsertKeyTables ==
  ASSUME Inv, NEW h \in Handlers, InsertKey(h)
  PROVE  TableInv' /\ Moves
<1>. DEFINE p == request[h].project
            k == request[h].key
<1>0. /\ p \in Projects /\ k \in DsnKeys \cup issued /\ k \in Keys
      /\ TableInv /\ TablesTyped /\ backend = "postgres"
  BY DEF InsertKey, Inv, RequestInv, Judged, TableInv, TablesTyped, Keys
<1>1. CASE UNCHANGED slug /\ keys' = Adopted(p, k) /\ UNCHANGED faults
  BY <1>0, <1>1, AdoptedKeys, GrowPostgres DEF InsertKey, memory, TablesTyped
<1>2. CASE UNCHANGED <<slug, keys>> /\ (Fault \/ UNCHANGED faults)
  BY <1>0, <1>2, TablesStay DEF InsertKey, tables
<1>. QED
  BY <1>1, <1>2 DEF InsertKey, Fails

\* In memory a project that is not there gets its id as slug, and the slug its project.
LEMMA ProvisionTables ==
  ASSUME Inv, NEW h \in Handlers, Provision(h)
  PROVE  TableInv' /\ Moves
<1>. DEFINE p == request[h].project
            k == request[h].key
<1>0. /\ p \in Projects /\ k \in DsnKeys \cup issued /\ k \in Keys
      /\ TableInv /\ TablesTyped /\ backend = "memory" /\ backend' = "memory"
      /\ UNCHANGED <<given, issued, revoking, emptied, faults>>
  BY DEF Provision, Inv, RequestInv, Judged, TableInv, TablesTyped, Keys
<1>1. CASE UNCHANGED <<slug, keys, bySlug>>
  BY <1>0, <1>1, TablesStay DEF tables, memory
<1>2. CASE ~Exists(p) /\ ~UNCHANGED <<slug, keys, bySlug>>
  <2>1. /\ slug' = [slug EXCEPT ![p] = p] /\ keys' = [keys EXCEPT ![p] = {k}]
        /\ bySlug' = [bySlug EXCEPT ![p] = p]
    BY <1>2 DEF Provision, TakeOver
  <2>2. TablesTyped'
    BY <1>0, <2>1 DEF TablesTyped
  <2>3. p # None /\ slug[p] = None
    BY <1>0, <1>2, NoneAssumption DEF Exists
  <2>4. Owned' /\ Unique' /\ Numbered'
    BY <1>0, <2>1, <2>3 DEF TableInv, TablesTyped, Owned, Unique, Numbered, Exists
  <2>5. SlugsLead'
    <3>1. ASSUME NEW q \in Projects, NEW s \in Projects, slug'[q] = s
          PROVE  bySlug'[s] \in {q, s}
      BY <1>0, <2>1, <3>1 DEF TableInv, TablesTyped, SlugsLead
    <3>2. ASSUME NEW q \in Projects, NEW s \in Projects, bySlug'[s] = q
          PROVE  slug'[q] = s \/ q = s
      BY <1>0, <2>1, <2>3, <3>2, NoneAssumption DEF TableInv, TablesTyped, SlugsLead
    <3>. QED
      BY <3>1, <3>2 DEF SlugsLead
  <2>6. Underway'
    BY <1>0 DEF TableInv, Underway
  <2>7. Moves
    BY <1>0 DEF Moves
  <2>. QED
    BY <2>2, <2>4, <2>5, <2>6, <2>7 DEF TableInv
<1>. QED
  BY <1>1, <1>2 DEF Provision

-----------------------------------------------------------------------------
(* Steps of management and the tables.                                     *)

LEMMA CreateProjectTables ==
  ASSUME TableInv, NEW p \in Projects, NEW s \in Projects, NEW k \in ApiKeys,
         CreateProject(p, s, k)
  PROVE  TableInv' /\ Moves
<1>0. /\ TablesTyped /\ k \in Keys /\ k \notin DsnKeys \cup issued /\ p # None /\ s # None
      /\ \A q \in Projects : k \notin keys[q]
  BY FreshAssumption, NoneAssumption DEF CreateProject, TableInv, Owned, Keys
<1>1. /\ slug' = [slug EXCEPT ![p] = s] /\ keys' = [keys EXCEPT ![p] = {k}]
      /\ issued' = issued \cup {k} /\ UNCHANGED <<backend, revoking, emptied, faults>>
  BY DEF CreateProject
<1>2. TablesTyped'
  BY <1>0, <1>1 DEF CreateProject, TablesTyped
<1>3. Owned'
  BY <1>0, <1>1 DEF TableInv, TablesTyped, Owned, Exists
<1>4. CASE backend # "memory"
  <2>1. ~Exists(p) /\ UNCHANGED <<bySlug, given>>
    BY <1>4 DEF CreateProject
  <2>2. Unique'
    BY <1>0, <1>1, <1>4 DEF TableInv, TablesTyped, Unique
  <2>3. Numbered' /\ SlugsLead'
    BY <1>1, <1>4 DEF Numbered, SlugsLead
  <2>4. \A q \in Projects \ {p} : keys'[q] = keys[q] /\ slug'[q] = slug[q]
    BY <1>0, <1>1 DEF TablesTyped
  <2>5. keys[p] = {}
    BY <2>1 DEF TableInv, Owned
  <2>6. Underway'
    BY <1>0, <1>1, <2>4, <2>5, NoneAssumption DEF TableInv, Underway
  <2>7. Moves
    BY <1>0, <1>1, <2>1, <2>4, <2>5 DEF Moves, Exists, TablesTyped
  <2>. QED
    BY <1>2, <1>3, <2>2, <2>3, <2>6, <2>7 DEF TableInv
<1>5. CASE backend = "memory"
  <2>1. /\ p \notin given /\ bySlug[s] = None
        /\ bySlug' = [bySlug EXCEPT ![s] = p] /\ given' = given \cup {p}
    BY <1>5 DEF CreateProject, Taken
  <2>2. Unique' /\ Underway'
    BY <1>1, <1>5 DEF TableInv, Unique, Underway
  <2>3. Numbered'
    BY <1>0, <1>1, <1>5, <2>1 DEF TableInv, TablesTyped, Numbered, Exists
  <2>4. SlugsLead'
    <3>1. ASSUME NEW q \in Projects, NEW t \in Projects, slug'[q] = t
          PROVE  bySlug'[t] \in {q, t}
      <4>1. CASE q = p
        BY <1>0, <1>1, <2>1, <3>1, <4>1 DEF TablesTyped
      <4>2. CASE q # p
        <5>1. slug[q] = t /\ bySlug[t] \in {q, t}
          BY <1>0, <1>1, <1>5, <3>1, <4>2 DEF TableInv, TablesTyped, SlugsLead
        <5>2. t # s
          BY <2>1, <5>1, NoneAssumption
        <5>. QED
          BY <1>0, <2>1, <5>1, <5>2 DEF TablesTyped
      <4>. QED
        BY <4>1, <4>2
    <3>2. ASSUME NEW q \in Projects, NEW t \in Projects, bySlug'[t] = q
          PROVE  slug'[q] = t \/ q = t
      <4>1. CASE t = s
        BY <1>0, <1>1, <2>1, <3>2, <4>1 DEF TablesTyped
      <4>2. CASE t # s
        <5>1. slug[q] = t \/ q = t
          BY <1>0, <1>5, <2>1, <3>2, <4>2 DEF TableInv, TablesTyped, SlugsLead
        <5>2. CASE q = p /\ slug[p] = t
          BY <1>0, <1>5, <2>1, <5>2, NoneAssumption DEF TableInv, Numbered, Exists
        <5>3. CASE q # p
          BY <1>0, <1>1, <5>1, <5>3 DEF TablesTyped
        <5>. QED
          BY <5>1, <5>2, <5>3
      <4>. QED
        BY <4>1, <4>2
    <3>. QED
      BY <3>1, <3>2 DEF SlugsLead
  <2>5. Moves
    BY <1>1, <1>5 DEF Moves
  <2>. QED
    BY <1>2, <1>3, <2>2, <2>3, <2>4, <2>5 DEF TableInv
<1>. QED
  BY <1>4, <1>5

LEMMA CreateProjectKeyTables ==
  ASSUME TableInv, NEW p \in Projects, NEW k \in ApiKeys, CreateProjectKey(p, k)
  PROVE  TableInv' /\ Moves
<1>0. /\ TablesTyped /\ k \in Keys /\ \A q \in Projects : k \notin keys[q]
  BY FreshAssumption DEF CreateProjectKey, TableInv, Owned, Keys
<1>1. CASE backend = "postgres"
  BY <1>0, <1>1, GrowPostgres DEF CreateProjectKey, memory, TablesTyped, Exists
<1>2. CASE backend # "postgres"
  <2>1. /\ keys' = [keys EXCEPT ![p] = @ \cup {k}] /\ issued' = issued \cup {k} /\ Exists(p)
        /\ UNCHANGED <<backend, slug, bySlug, given, revoking, emptied, faults>>
    BY DEF CreateProjectKey, memory
  <2>2. TablesTyped'
    BY <1>0, <2>1 DEF TablesTyped
  <2>3. Owned' /\ Numbered'
    BY <1>0, <2>1 DEF TableInv, TablesTyped, Owned, Numbered, Exists
  <2>4. Unique' /\ SlugsLead' /\ Underway' /\ Moves
    BY <1>2, <2>1 DEF TableInv, Unique, SlugsLead, Underway, Moves
  <2>. QED
    BY <2>2, <2>3, <2>4 DEF TableInv
<1>. QED
  BY <1>1, <1>2

\* LastKey says no: a second key is there.
LEMMA SecondKey ==
  ASSUME TablesTyped, NEW p \in Projects, NEW k \in keys[p], ~LastKey(p)
  PROVE  \E l \in keys[p] : l # k
<1>1. Cardinality({k}) = 1
  BY FS_Singleton
<1>. SUFFICES ASSUME \A l \in keys[p] : l = k PROVE FALSE
  OBVIOUS
<1>2. keys[p] = {k}
  OBVIOUS
<1>. QED
  BY <1>1, <1>2 DEF LastKey, KeysOf

LEMMA RevokeCountTables ==
  ASSUME TableInv, NEW a \in Admins, NEW p \in Projects, NEW k \in Keys, RevokeCount(a, p, k)
  PROVE  TableInv' /\ Moves
<1>. DEFINE counted == [phase |-> "delete", project |-> p, key |-> k, overtaken |-> FALSE]
<1>0. /\ TablesTyped /\ k \in keys[p] /\ backend = "postgres"
      /\ UNCHANGED <<tables, emptied, faults>>
      /\ UNCHANGED <<backend, slug, keys, bySlug, given, issued>>
  BY DEF TableInv, RevokeCount, KeysOf, tables, memory
<1>1. revoking' = [revoking EXCEPT ![a] = counted]
  BY DEF RevokeCount
<1>2. TablesTyped'
  BY <1>0, <1>1 DEF TablesTyped, Revocation
<1>3. Owned' /\ Unique' /\ Numbered' /\ SlugsLead' /\ Moves
  BY <1>0 DEF TableInv, Owned, Unique, Numbered, SlugsLead, Moves, Exists
<1>4. \E l \in keys[p] : l # k
  BY <1>0, SecondKey DEF RevokeCount
<1>5. Underway'
  BY <1>0, <1>1, <1>4 DEF TableInv, TablesTyped, Underway
<1>. QED
  BY <1>2, <1>3, <1>5 DEF TableInv

\* What a deletion does: only its own project loses the key, and every other
\* revocation of that project learns of it.
LEMMA RevokeDeleteKeys ==
  ASSUME TableInv, NEW a \in Admins, RevokeDelete(a)
  PROVE  LET p == revoking[a].project
             k == revoking[a].key IN
         /\ p \in Projects /\ backend = "postgres"
         /\ keys' \in [Projects -> SUBSET Keys]
         /\ keys'[p] = keys[p] \ {k}
         /\ \A q \in Projects \ {p} : keys'[q] = keys[q]
         /\ k # None => k \in keys[p]
         /\ k = None => keys'[p] = keys[p]
<1>. DEFINE p == revoking[a].project
            k == revoking[a].key
<1>1. /\ p \in Projects /\ backend = "postgres" /\ TablesTyped
      /\ k # None => k \in keys[p]
  BY DEF TableInv, Underway, RevokeDelete
<1>2. keys' = [q \in Projects |-> keys[q] \ {k}]
  BY DEF RevokeDelete
<1>3. keys' \in [Projects -> SUBSET Keys]
  BY <1>1, <1>2 DEF TablesTyped
<1>4. ASSUME NEW q \in Projects, k \in keys[q] PROVE q = p
  BY <1>1, <1>4, NoneAssumption DEF TableInv, TablesTyped, Unique
<1>5. \A q \in Projects \ {p} : keys'[q] = keys[q]
  BY <1>2, <1>4
<1>6. None \notin keys[p]
  BY <1>1, NoneAssumption DEF TablesTyped
<1>. HIDE DEF p, k
<1>7. keys'[p] = keys[p] \ {k}
  BY <1>1, <1>2
<1>8. k = None => keys'[p] = keys[p]
  BY <1>6, <1>7
<1>. QED
  BY <1>1, <1>3, <1>5, <1>7, <1>8, Zenon DEF p, k

LEMMA RevokeDeleteTables ==
  ASSUME TableInv, NEW a \in Admins, RevokeDelete(a)
  PROVE  TableInv' /\ Moves
<1>. DEFINE p == revoking[a].project
            k == revoking[a].key
            Overtake(r) == IF k = None \/ r.project # p THEN r
                           ELSE [r EXCEPT !.overtaken = TRUE, !.key = IF @ = k THEN None ELSE @]
<1>0. /\ TablesTyped /\ p \in Projects /\ backend = "postgres"
      /\ UNCHANGED <<backend, slug, bySlug, given, issued, faults>>
      /\ revoking' = [b \in Admins |-> IF b = a THEN AtRest ELSE Overtake(revoking[b])]
      /\ emptied' = IF keys[p] = {k} THEN emptied \cup {p} ELSE emptied
  BY RevokeDeleteKeys DEF TableInv, RevokeDelete, memory, KeysOf
<1>1. /\ keys' \in [Projects -> SUBSET Keys] /\ keys'[p] = keys[p] \ {k}
      /\ \A q \in Projects \ {p} : keys'[q] = keys[q]
      /\ k # None => k \in keys[p]
      /\ k = None => keys'[p] = keys[p]
  BY RevokeDeleteKeys
<1>2. TablesTyped'
  <2>1. \A r \in Revocation : Overtake(r) \in Revocation
    BY DEF Revocation
  <2>2. revoking' \in [Admins -> Revocation]
    BY <1>0, <2>1 DEF TablesTyped, Revocation, AtRest
  <2>. QED
    BY <1>0, <1>1, <2>2 DEF TablesTyped
<1>3. \A q \in Projects : keys'[q] \subseteq keys[q]
  BY <1>1
<1>4. Owned' /\ Unique' /\ Numbered' /\ SlugsLead'
  <2>1. Owned'
    <3>1. \A q \in Projects : keys[q] \subseteq DsnKeys \cup issued /\ (keys[q] # {} => Exists(q))
      BY DEF TableInv, Owned
    <3>2. \A q \in Projects : keys'[q] # {} => keys[q] # {}
      BY <1>3
    <3>. QED
      BY <1>0, <1>3, <3>1, <3>2 DEF Owned, Exists
  <2>2. Unique'
    BY <1>0, <1>3 DEF TableInv, Unique
  <2>. QED
    BY <1>0, <2>1, <2>2 DEF Numbered, SlugsLead
<1>5. ASSUME NEW b \in Admins, revoking'[b].phase = "delete"
      PROVE  LET r == revoking'[b] IN
             /\ r.project \in Projects
             /\ r.key # None => r.key \in keys'[r.project]
             /\ ~r.overtaken => \E l \in keys'[r.project] : l # r.key
  <2>1. b # a /\ revoking'[b] = Overtake(revoking[b]) /\ revoking[b] \in Revocation
    BY <1>0, <1>5 DEF TablesTyped, AtRest
  <2>2. /\ revoking[b].phase = "delete" /\ revoking[b].project \in Projects
        /\ revoking[b].key # None => revoking[b].key \in keys[revoking[b].project]
        /\ ~revoking[b].overtaken => \E l \in keys[revoking[b].project] : l # revoking[b].key
    BY <1>5, <2>1 DEF TableInv, Underway, Revocation
  <2>3. CASE k = None \/ revoking[b].project # p
    BY <1>1, <2>1, <2>2, <2>3
  <2>4. CASE k # None /\ revoking[b].project = p
    <3>1. /\ revoking'[b].project = p /\ revoking'[b].overtaken
          /\ revoking'[b].key = IF revoking[b].key = k THEN None ELSE revoking[b].key
      BY <2>1, <2>4 DEF Revocation
    <3>. QED
      BY <1>1, <2>2, <2>4, <3>1
  <2>. QED
    BY <2>3, <2>4
<1>6. Underway'
  BY <1>0, <1>5 DEF Underway
<1>7. Moves
  BY <1>0, <1>1 DEF Moves, Exists
<1>. QED
  BY <1>2, <1>4, <1>6, <1>7 DEF TableInv

LEMMA RevokeFailsTables ==
  ASSUME TableInv, NEW a \in Admins, RevokeFails(a)
  PROVE  TableInv' /\ Moves
<1>0. /\ TablesTyped /\ UNCHANGED <<backend, slug, keys, bySlug, given, issued, emptied>>
      /\ revoking' = [revoking EXCEPT ![a] = AtRest]
  BY DEF TableInv, RevokeFails, tables, memory
<1>1. TablesTyped'
  BY <1>0, FaultType DEF TablesTyped, RevokeFails, Revocation, AtRest
<1>2. Owned' /\ Unique' /\ Numbered' /\ SlugsLead' /\ Moves
  BY <1>0 DEF TableInv, Owned, Unique, Numbered, SlugsLead, Moves, Exists
<1>3. Underway'
  BY <1>0 DEF TableInv, TablesTyped, Underway, AtRest
<1>. QED
  BY <1>1, <1>2, <1>3 DEF TableInv

LEMMA RevokeTables ==
  ASSUME TableInv, NEW p \in Projects, NEW k \in Keys, Revoke(p, k)
  PROVE  TableInv' /\ Moves
<1>0. /\ TablesTyped /\ backend = "memory" /\ backend' = "memory"
      /\ UNCHANGED <<slug, bySlug, given, issued, revoking, emptied, faults>>
      /\ keys' = [keys EXCEPT ![p] = @ \ {k}]
      /\ \E l \in keys[p] : l # k
  <2>1. k \in keys[p] /\ ~LastKey(p) /\ TablesTyped
    BY DEF TableInv, Revoke, KeysOf
  <2>. QED
    BY <2>1, SecondKey DEF Revoke, memory
<1>1. TablesTyped'
  BY <1>0 DEF TablesTyped
<1>2. Owned' /\ Numbered'
  BY <1>0 DEF TableInv, TablesTyped, Owned, Numbered, Exists
<1>3. Unique' /\ SlugsLead' /\ Underway' /\ Moves
  BY <1>0 DEF TableInv, Unique, SlugsLead, Underway, Moves
<1>. QED
  BY <1>1, <1>2, <1>3 DEF TableInv

LEMMA ManageTables == ASSUME TableInv, Manage PROVE TableInv' /\ Moves
BY CreateProjectTables, CreateProjectKeyTables, RevokeCountTables, RevokeDeleteTables,
   RevokeFailsTables, RevokeTables DEF Manage

-----------------------------------------------------------------------------
(* Verdicts.                                                               *)

\* A request under way has seen the verdict on the table as it is now.
LEMMA Observed ==
  ASSUME Observe, NEW h \in Handlers, request'[h].phase # "idle"
  PROVE  could'[h] = could[h] \cup {Verdict(keys', request'[h].project, request'[h].key)}
BY DEF Observe

LEMMA CouldType ==
  ASSUME RequestInv, Observe
  PROVE  could' \in [Handlers -> SUBSET {"admit", "refuse"}]
BY DEF RequestInv, Observe, Verdict

\* Where a request stays where it is, its verdict holds on, whatever others do.
LEMMA RequestStays ==
  ASSUME RequestInv, Moves, Observe, NEW h \in Handlers, request'[h] = request[h]
  PROVE  Judged(h)'
<1>. SUFFICES ASSUME request[h].phase # "idle" PROVE Judged(h)'
  BY DEF Judged
<1>. DEFINE p == request[h].project
            k == request[h].key
<1>1. could[h] \subseteq could'[h] /\ Verdict(keys', p, k) \in could'[h]
  BY Observed
<1>2. Judged(h)
  BY DEF RequestInv
<1>3. p \in Projects /\ k \in DsnKeys \cup issued'
  BY <1>2 DEF Judged, Moves
<1>4. request[h].phase = "exists" => backend' = "postgres" /\ (keys'[p] # {} \/ p \in emptied')
  BY <1>2 DEF Judged, Moves
<1>5. request[h].phase = "insert" => backend' = "postgres" /\ slug'[p] # None
  BY <1>2 DEF Judged, Moves
<1>6. /\ request[h].phase \in Admitted => "admit" \in could'[h] \/ request[h].failed
      /\ request[h].phase = "refused" => "refuse" \in could'[h] \/ request[h].failed \/ p \in emptied'
  BY <1>1, <1>2 DEF Judged, Moves
<1>. QED
  BY <1>1, <1>3, <1>4, <1>5, <1>6 DEF Judged, Exists

\* A request goes on to a phase that what it has seen justifies.
LEMMA RequestGoes ==
  ASSUME RequestInv, Moves, Observe, NEW h \in Handlers, request[h].phase # "idle",
         NEW phase \in Judging \cup Admitted \cup {"refused"},
         Goes(h, phase) \/ Fails(h, phase),
         LET p == request[h].project IN
         /\ ~Fails(h, phase) =>
              /\ phase \in Admitted => "admit" \in could[h] \/ request[h].failed
              /\ phase = "refused" =>
                   "refuse" \in could[h] \/ request[h].failed \/ p \in emptied
         /\ phase = "exists" => backend = "postgres" /\ keys[p] # {}
         /\ phase = "insert" => backend = "postgres" /\ Exists(p)
  PROVE  RequestInv'
<1>. DEFINE p == request[h].project
            k == request[h].key
<1>1. /\ request' \in [Handlers -> Request]
      /\ \A g \in Handlers \ {h} : request'[g] = request[g]
      /\ request'[h].phase = phase
      /\ request'[h].project = p /\ request'[h].key = k /\ phase # "idle"
  BY DEF RequestInv, Request, Judging, Admitted, Goes, Fails
<1>2. /\ Goes(h, phase) => request'[h].failed = request[h].failed
      /\ Fails(h, phase) => request'[h].failed
  BY DEF RequestInv, Request, Goes, Fails
<1>3. could[h] \subseteq could'[h] /\ Verdict(keys', p, k) \in could'[h]
  BY <1>1, Observed
<1>4. p \in Projects /\ k \in DsnKeys \cup issued'
  BY DEF RequestInv, Judged, Moves
<1>5. phase = "exists" => backend' = "postgres" /\ (keys'[p] # {} \/ p \in emptied')
  BY <1>4 DEF Moves
<1>6. phase = "insert" => backend' = "postgres" /\ slug'[p] # None
  BY <1>4 DEF Moves
<1>7. phase = "refused" => "refuse" \in could'[h] \/ request'[h].failed \/ p \in emptied'
  BY <1>2, <1>3 DEF Moves
<1>8. phase \in Admitted => "admit" \in could'[h] \/ request'[h].failed
  BY <1>2, <1>3
<1>9. Judged(h)'
  BY <1>1, <1>3, <1>4, <1>5, <1>6, <1>7, <1>8 DEF Judged, Exists
<1>. QED
  BY <1>1, <1>9, RequestStays, CouldType DEF RequestInv

LEMMA ManageRequests == ASSUME Inv, Manage, Observe, Moves PROVE RequestInv'
<1>1. request' = request
  BY DEF Manage, CreateProject, CreateProjectKey, Revoke, RevokeCount, RevokeDelete, RevokeFails
<1>. QED
  BY <1>1, RequestStays, CouldType DEF Inv, RequestInv

LEMMA ServeInv ==
  ASSUME Inv, NEW h \in Handlers, Serve(h), Observe
  PROVE  Inv'
<1>. DEFINE p == request[h].project
            k == request[h].key
<1>0. TableInv /\ RequestInv /\ Judged(h) /\ request[h] \in Request
  BY DEF Inv, RequestInv
<1>1. ASSUME NEW q \in Projects, NEW l \in Keys, Receive(h, q, l) PROVE Inv'
  <2>1. TableInv' /\ Moves
    BY <1>0, <1>1, TablesStay DEF Receive
  <2>2. request' = [request EXCEPT ![h] =
                      [phase |-> "count", project |-> q, key |-> l, failed |-> FALSE]]
    BY <1>1 DEF Receive
  <2>3. /\ request' \in [Handlers -> Request]
        /\ \A g \in Handlers \ {h} : request'[g] = request[g]
        /\ request'[h] = [phase |-> "count", project |-> q, key |-> l, failed |-> FALSE]
    BY <1>0, <2>2 DEF RequestInv, Request, Judging
  <2>4. Judged(h)'
    BY <1>1, <2>1, <2>3, Observed DEF Judged, Receive, Moves, Admitted
  <2>. QED
    BY <1>0, <2>1, <2>3, <2>4, RequestStays, CouldType DEF Inv, RequestInv
<1>2. ASSUME Count(h) PROVE Inv'
  <2>1. TableInv' /\ Moves
    BY <1>0, <1>2, TablesStay DEF Count, Fails
  <2>2. p \in Projects /\ Verdict(keys, p, k) \in could[h] /\ backend = "postgres"
    BY <1>0, <1>2 DEF Judged, Count
  <2>3. CASE KeysOf(p) = {} /\ Goes(h, "ensure")
    BY <1>0, <1>2, <2>1, <2>2, <2>3, RequestGoes
       DEF Inv, KeysOf, Verdict, Admitted, Count
  <2>4. CASE KeysOf(p) # {} /\ Goes(h, "exists")
    <3>1. keys[p] # {} /\ "exists" \in Judging /\ "exists" \notin Admitted
      BY <2>4 DEF KeysOf, Judging, Admitted
    <3>. QED
      BY <1>0, <1>2, <2>1, <2>2, <2>4, <3>1, RequestGoes DEF Inv, Count
  <2>5. CASE Fails(h, "ensure")
    BY <1>0, <1>2, <2>1, <2>2, <2>5, RequestGoes DEF Inv, Admitted, Count
  <2>. QED
    BY <1>2, <2>3, <2>4, <2>5 DEF Count
<1>3. ASSUME Look(h) PROVE Inv'
  <2>1. TableInv' /\ Moves
    BY <1>0, <1>3, TablesStay DEF Look, Fails
  <2>2. p \in Projects /\ Verdict(keys, p, k) \in could[h] /\ (keys[p] # {} \/ p \in emptied)
    BY <1>0, <1>3 DEF Judged, Look
  <2>3. CASE Known(p, k) /\ Goes(h, "ensure")
    BY <1>0, <1>3, <2>1, <2>2, <2>3, RequestGoes
       DEF Inv, Known, Verdict, Admitted, Look
  <2>4. CASE ~Known(p, k) /\ Goes(h, "refused")
    <3>1. "refuse" \in could[h] \/ p \in emptied
      BY <2>2, <2>4 DEF Known, Verdict
    <3>. QED
      BY <1>0, <1>3, <2>1, <2>4, <3>1, RequestGoes DEF Inv, Admitted, Look
  <2>5. CASE Fails(h, "refused")
    BY <1>0, <1>3, <2>1, <2>2, <2>5, RequestGoes DEF Inv, Admitted, Look
  <2>. QED
    BY <1>3, <2>3, <2>4, <2>5 DEF Look
<1>4. ASSUME Ensure(h) PROVE Inv'
  <2>1. TableInv' /\ Moves
    BY <1>4, EnsureTables
  <2>2. p \in Projects /\ ("admit" \in could[h] \/ request[h].failed) /\ backend = "postgres"
    BY <1>0, <1>4 DEF Judged, Ensure, Admitted
  <2>3. CASE Goes(h, "admitted")
    BY <1>0, <1>4, <2>1, <2>2, <2>3, RequestGoes DEF Inv, Admitted, Ensure
  <2>4. CASE Goes(h, "insert") /\ Exists(p)
    BY <1>0, <1>4, <2>1, <2>2, <2>4, RequestGoes DEF Inv, Admitted, Ensure
  <2>5. CASE Fails(h, "admitted")
    BY <1>0, <1>4, <2>1, <2>2, <2>5, RequestGoes DEF Inv, Admitted, Ensure
  <2>. QED
    BY <1>4, <2>3, <2>4, <2>5 DEF Ensure
<1>5. ASSUME InsertKey(h) PROVE Inv'
  <2>1. TableInv' /\ Moves
    BY <1>5, InsertKeyTables
  <2>2. "admit" \in could[h] \/ request[h].failed
    BY <1>0, <1>5 DEF Judged, InsertKey, Admitted
  <2>3. CASE Goes(h, "admitted")
    BY <1>0, <1>5, <2>1, <2>2, <2>3, RequestGoes DEF Inv, Admitted, InsertKey
  <2>4. CASE Fails(h, "admitted")
    BY <1>0, <1>5, <2>1, <2>2, <2>4, RequestGoes DEF Inv, Admitted, InsertKey
  <2>. QED
    BY <1>5, <2>3, <2>4 DEF InsertKey
<1>6. ASSUME Judge(h) PROVE Inv'
  <2>1. TableInv' /\ Moves
    BY <1>0, <1>6, TablesStay DEF Judge
  <2>2. p \in Projects /\ Verdict(keys, p, k) \in could[h]
    BY <1>0, <1>6 DEF Judged, Judge
  <2>3. CASE (KeysOf(p) = {} \/ Known(p, k)) /\ Goes(h, "ensure")
    BY <1>0, <1>6, <2>1, <2>2, <2>3, RequestGoes
       DEF Inv, Known, KeysOf, Verdict, Admitted, Judge
  <2>4. CASE ~(KeysOf(p) = {} \/ Known(p, k)) /\ Goes(h, "refused")
    BY <1>0, <1>6, <2>1, <2>2, <2>4, RequestGoes
       DEF Inv, Known, KeysOf, Verdict, Admitted, Judge
  <2>. QED
    BY <1>6, <2>3, <2>4 DEF Judge
<1>7. ASSUME Provision(h) PROVE Inv'
  <2>1. TableInv' /\ Moves
    BY <1>7, ProvisionTables
  <2>2. "admit" \in could[h] \/ request[h].failed
    BY <1>0, <1>7 DEF Judged, Provision, Admitted
  <2>. QED
    BY <1>0, <1>7, <2>1, <2>2, RequestGoes DEF Inv, Admitted, Provision
<1>8. ASSUME Answer(h) PROVE Inv'
  <2>1. TableInv' /\ Moves
    BY <1>0, <1>8, TablesStay DEF Answer
  <2>2. /\ request' \in [Handlers -> Request] /\ request'[h] = Idle
        /\ \A g \in Handlers \ {h} : request'[g] = request[g]
    BY <1>0, <1>8 DEF Answer, RequestInv, Request, Idle
  <2>3. Judged(h)'
    BY <2>2 DEF Judged, Idle
  <2>. QED
    BY <1>0, <2>1, <2>2, <2>3, RequestStays, CouldType DEF Inv, RequestInv
<1>. QED
  BY <1>1, <1>2, <1>3, <1>4, <1>5, <1>6, <1>7, <1>8 DEF Serve

-----------------------------------------------------------------------------
(* The invariant of the specification.                                     *)

LEMMA StepInv == Inv /\ [Next]_vars => Inv'
<1>. SUFFICES ASSUME Inv, [Next]_vars PROVE Inv'
  OBVIOUS
<1>1. ASSUME NEW h \in Handlers, Serve(h), Observe PROVE Inv'
  BY <1>1, ServeInv
<1>2. CASE Manage /\ Observe
  BY <1>2, ManageTables, ManageRequests DEF Inv
<1>3. CASE UNCHANGED vars
  <2>1. TableInv'
    BY <1>3, TablesStay DEF Inv, vars, tables, memory
  <2>2. UNCHANGED <<backend, slug, keys, issued, emptied, request, could>>
    BY <1>3 DEF vars, memory
  <2>3. RequestInv'
    BY <2>2 DEF Inv, RequestInv, Judged, Exists
  <2>. QED
    BY <2>1, <2>3 DEF Inv
<1>. QED
  BY <1>1, <1>2, <1>3 DEF Next

\* The invariant of ProjectKeys: the types, a key unique in PostgreSQL and owned by a
\* project that exists, the slugs in memory, revocations that know what became of
\* their key, and requests that have seen what they decided by.
THEOREM KeysInvariant == Spec => []Inv
<1>1. Init => Inv
  BY InitInv
<1>2. Inv /\ [Next]_vars => Inv'
  BY StepInv
<1>. QED
  BY <1>1, <1>2, PTL DEF Spec

\* Whatever keys are created and revoked meanwhile, the two statements of
\* ValidProjectKey admit and refuse only what the table justified at one moment, but
\* for failures and the loss of a last key.
THEOREM VerdictsAreJustified == Spec => []VerdictsHold
<1>1. Inv => VerdictsHold
  BY DEF Inv, RequestInv, Judged, VerdictsHold, Admitted
<1>. QED
  BY <1>1, KeysInvariant, PTL

\* In memory, slug and project lead to each other, but for slugs that are the id of a
\* project (EnsureProject and CreateProject of control.go).
THEOREM SlugsLeadToProjects == Spec => []SlugsLead
<1>1. Inv => SlugsLead
  BY DEF Inv, TableInv
<1>. QED
  BY <1>1, KeysInvariant, PTL

\* All variables keep their types; a public key belongs to one project in PostgreSQL,
\* where the table has an index for it.
THEOREM KeysTyped == Spec => []TypeOK
<1>1. ASSUME Inv, NEW k \in Keys, backend = "postgres" PROVE Cardinality(Holders(k)) <= 1
  <2>1. CASE Holders(k) = {}
    <3>1. Cardinality({}) = 0
      BY FS_EmptySet
    <3>. QED
      BY <2>1, <3>1
  <2>2. CASE Holders(k) # {}
    <3>1. PICK p \in Holders(k) : TRUE
      BY <2>2
    <3>2. Holders(k) = {p}
      BY <1>1, <3>1 DEF Inv, TableInv, Unique, Holders
    <3>3. Cardinality({p}) = 1
      BY FS_Singleton
    <3>. QED
      BY <3>2, <3>3
  <2>. QED
    BY <2>1, <2>2
<1>2. Inv => TypeOK
  BY <1>1 DEF Inv, TableInv, TablesTyped, Owned, RequestInv, Request, Revocation, TypeOK
<1>. QED
  BY <1>2, KeysInvariant, PTL

-----------------------------------------------------------------------------
(* The keys a project loses.                                               *)

LossAllowed(p) ==
  LET lost == keys[p] \ keys'[p] IN
  lost # {} =>
    \/ backend = "memory" /\ p \in given' \ given /\ slug[p] = p
    \/ /\ Cardinality(lost) = 1
       /\ keys'[p] # {} \/ \E a \in Admins : revoking[a].project = p /\ revoking[a].overtaken

LEMMA OneLost == ASSUME NEW S, NEW k \in S PROVE Cardinality(S \ (S \ {k})) = 1
<1>1. S \ (S \ {k}) = {k}
  OBVIOUS
<1>2. Cardinality({k}) = 1
  BY FS_Singleton
<1>. QED
  BY <1>1, <1>2

\* Requests take no key away.
LEMMA ServeLoses ==
  ASSUME Inv, NEW h \in Handlers, Serve(h), NEW p \in Projects
  PROVE  keys[p] \subseteq keys'[p]
<1>0. keys \in [Projects -> SUBSET Keys] /\ Owned
  BY DEF Inv, TableInv, TablesTyped
<1>1. CASE UNCHANGED keys
  BY <1>1
<1>2. ASSUME NEW q, NEW k, keys' = Adopted(q, k) PROVE keys[p] \subseteq keys'[p]
  BY <1>0, <1>2 DEF Adopted
<1>3. CASE Provision(h)
  BY <1>0, <1>3 DEF Provision, Owned
<1>. QED
  BY <1>1, <1>2, <1>3 DEF Serve, Receive, Count, Look, Ensure, InsertKey, Judge, Answer, tables

LEMMA ManageLoses ==
  ASSUME Inv, Manage, NEW p \in Projects
  PROVE  LossAllowed(p)
<1>0. keys \in [Projects -> SUBSET Keys] /\ TablesTyped /\ TableInv
  BY DEF Inv, TableInv, TablesTyped
<1>1. ASSUME NEW q \in Projects, NEW s \in Projects, NEW k \in ApiKeys, CreateProject(q, s, k)
      PROVE  LossAllowed(p)
  <2>1. CASE q # p
    BY <1>0, <1>1, <2>1 DEF CreateProject, LossAllowed
  <2>2. CASE q = p /\ backend = "memory"
    BY <1>0, <1>1, <2>2 DEF CreateProject, LossAllowed, TableInv, Numbered, Owned
  <2>3. CASE q = p /\ backend # "memory"
    BY <1>0, <1>1, <2>3 DEF CreateProject, LossAllowed, TableInv, Owned
  <2>. QED
    BY <2>1, <2>2, <2>3
<1>2. ASSUME NEW q \in Projects, NEW k \in ApiKeys, CreateProjectKey(q, k)
      PROVE  LossAllowed(p)
  BY <1>0, <1>2 DEF CreateProjectKey, LossAllowed
<1>3. ASSUME NEW q \in Projects, NEW k \in Keys, Revoke(q, k)
      PROVE  LossAllowed(p)
  <2>1. CASE q # p
    BY <1>0, <1>3, <2>1 DEF Revoke, LossAllowed
  <2>2. CASE q = p
    <3>1. k \in keys[p] /\ keys'[p] = keys[p] \ {k} /\ ~LastKey(p)
      BY <1>0, <1>3, <2>2 DEF Revoke, KeysOf
    <3>2. keys'[p] # {}
      BY <1>0, <3>1, SecondKey
    <3>. QED
      BY <3>1, <3>2, OneLost DEF LossAllowed
  <2>. QED
    BY <2>1, <2>2
<1>4. ASSUME NEW a \in Admins, RevokeDelete(a)
      PROVE  LossAllowed(p)
  <2>. DEFINE k == revoking[a].key
  <2>1. CASE p # revoking[a].project \/ k = None
    BY <1>0, <1>4, <2>1, RevokeDeleteKeys DEF LossAllowed
  <2>2. CASE p = revoking[a].project /\ k # None
    <3>1. k \in keys[p] /\ keys'[p] = keys[p] \ {k}
      BY <1>0, <1>4, <2>2, RevokeDeleteKeys
    <3>2. revoking[a].overtaken \/ \E l \in keys[p] : l # k
      BY <1>0, <1>4, <2>2 DEF TableInv, TablesTyped, Revocation, Underway, RevokeDelete
    <3>3. keys'[p] # {} \/ revoking[a].overtaken
      BY <3>1, <3>2
    <3>. QED
      BY <2>2, <3>1, <3>3, OneLost DEF LossAllowed
  <2>. QED
    BY <2>1, <2>2
<1>5. CASE UNCHANGED keys
  BY <1>5 DEF LossAllowed
<1>. QED
  BY <1>1, <1>2, <1>3, <1>4, <1>5 DEF Manage, RevokeCount, RevokeFails, tables

\* A project loses one key at a time and keeps the last one, unless one revocation
\* overtakes another, or the counter in memory comes to an id that a request took.
THEOREM LastKeysAreKept == Spec => KeysKept
<1>1. Inv /\ [Next]_vars => [\A p \in Projects : LossAllowed(p)]_vars
  <2>. SUFFICES ASSUME Inv, Next, NEW p \in Projects PROVE LossAllowed(p)
    OBVIOUS
  <2>1. ASSUME NEW h \in Handlers, Serve(h) PROVE LossAllowed(p)
    BY <2>1, ServeLoses DEF LossAllowed
  <2>. QED
    BY <2>1, ManageLoses DEF Next
<1>2. Spec => [][\A p \in Projects : LossAllowed(p)]_vars
  BY <1>1, KeysInvariant, PTL DEF Spec
<1>. QED
  BY <1>2 DEF KeysKept, LossAllowed

-----------------------------------------------------------------------------
(* What an admitted request leaves behind.                                 *)

LeavesKey(h) ==
  LET p == request[h].project
      k == request[h].key IN
  request[h].phase \in {"ensure", "insert"} /\ request'[h].phase = "admitted"
    /\ ~request'[h].failed =>
    \/ keys'[p] # {}
    \/ \E q \in Projects \ {p} : k \in keys'[q]
    \/ \E q \in Projects \ {p} : slug'[q] = p

LEMMA AdoptedLeaves ==
  ASSUME Inv, NEW p \in Projects, NEW k \in Keys, keys' = Adopted(p, k), slug'[p] # None
  PROVE  keys'[p] # {} \/ \E q \in Projects \ {p} : k \in keys'[q]
BY DEF Inv, TableInv, TablesTyped, Adopted, Holders

LEMMA ServeLeaves ==
  ASSUME Inv, NEW h \in Handlers, Serve(h), NEW g \in Handlers
  PROVE  LeavesKey(g)
<1>. DEFINE p == request[g].project
            k == request[g].key
<1>. SUFFICES ASSUME request[g].phase \in {"ensure", "insert"}, request'[g].phase = "admitted",
                     ~request'[g].failed
              PROVE  \/ keys'[p] # {}
                     \/ \E q \in Projects \ {p} : k \in keys'[q]
                     \/ \E q \in Projects \ {p} : slug'[q] = p
  BY DEF LeavesKey
<1>0. /\ p \in Projects /\ k \in Keys /\ Judged(g)
      /\ request \in [Handlers -> Request] /\ TablesTyped /\ issued \subseteq ApiKeys
  BY DEF Inv, RequestInv, Judged, TableInv, TablesTyped, Keys
<1>1. /\ Ensure(h) \/ InsertKey(h) \/ Provision(h)
      /\ g = h /\ ~Fails(h, "admitted")
  BY <1>0 DEF Serve, Receive, Count, Look, Ensure, InsertKey, Judge, Provision, Answer,
              Goes, Fails, Request, Idle
<1>2. CASE Ensure(h)
  <2>1. CASE ~Exists(p) /\ slug' = Provisioned(p) /\ keys' = Adopted(p, k)
    <3>1. CASE slug'[p] # None
      BY <1>0, <2>1, <3>1, AdoptedLeaves
    <3>2. CASE slug'[p] = None
      <4>1. slug' = slug /\ \E q \in Projects : slug[q] = p
        BY <1>0, <2>1, <3>2, NoneAssumption DEF Provisioned, TablesTyped, Exists
      <4>. QED
        BY <1>0, <2>1, <4>1, NoneAssumption DEF Exists
    <3>. QED
      BY <3>1, <3>2
  <2>2. CASE keys' = keys /\ KeysOf(p) # {}
    BY <2>2 DEF KeysOf
  <2>3. CASE Goes(h, "insert")
    BY <1>0, <1>1, <2>3 DEF Goes
  <2>. QED
    BY <1>1, <1>2, <2>1, <2>2, <2>3 DEF Ensure
<1>3. CASE InsertKey(h)
  <2>1. Exists(p) /\ UNCHANGED slug /\ keys' = Adopted(p, k)
    BY <1>0, <1>1, <1>3 DEF InsertKey, Judged
  <2>. QED
    BY <1>0, <2>1, AdoptedLeaves DEF Exists
<1>4. CASE Provision(h)
  <2>1. CASE Exists(p) /\ UNCHANGED keys
    BY <1>0, <1>1, <1>4, <2>1 DEF Provision, Inv, TableInv, Numbered
  <2>2. CASE keys' = [keys EXCEPT ![p] = {k}]
    BY <1>0, <2>2 DEF TablesTyped
  <2>. QED
    BY <1>1, <1>4, <2>1, <2>2 DEF Provision
<1>. QED
  BY <1>1, <1>2, <1>3, <1>4

\* A request admitted without a failure leaves its project with a key, unless the key or
\* the slug is taken (EnsureProject).
THEOREM ProvisionedOrTaken == Spec => ProvisionedUnlessTaken
<1>1. Inv /\ [Next]_vars => [\A h \in Handlers : LeavesKey(h)]_vars
  <2>. SUFFICES ASSUME Inv, Next, NEW g \in Handlers PROVE LeavesKey(g)
    OBVIOUS
  <2>1. ASSUME NEW h \in Handlers, Serve(h) PROVE LeavesKey(g)
    BY <2>1, ServeLeaves
  <2>2. CASE Manage
    <3>1. request' = request
      BY <2>2 DEF Manage, CreateProject, CreateProjectKey, Revoke, RevokeCount, RevokeDelete,
                  RevokeFails
    <3>. QED
      BY <3>1 DEF LeavesKey
  <2>. QED
    BY <2>1, <2>2 DEF Next
<1>2. Spec => [][\A h \in Handlers : LeavesKey(h)]_vars
  BY <1>1, KeysInvariant, PTL DEF Spec
<1>. QED
  BY <1>2 DEF ProvisionedUnlessTaken, LeavesKey

-----------------------------------------------------------------------------
(* The limiter: the invariant.                                             *)

\* No request is judged by a time yet to come, nor has a window a later start.
TimesInOrder ==
  /\ latest <= clock
  /\ \A h \in Requests : asked[h] <= clock
  /\ \A x \in passed : x.time <= latest
  /\ \A b \in DOMAIN entries : entries[b].start <= latest

\* No request of a bucket and a time has a number above how many there are, so that the
\* next one is another record.
PassesNumbered ==
  /\ IsFiniteSet(passed)
  /\ \A x \in passed : x.nth <= PassedIn(x.bucket, x.time, x.time)

\* What a request that is judged late, or finds its window thrown away, may cost.
Allowance(n) == limit * n
Lapses == wiped + late
InPeriod(b, t) == PassedIn(b, t, t + window - 1)

PeriodsBounded == \A b \in Buckets, t \in Int : InPeriod(b, t) <= Allowance(Lapses + 2) - 1

\* A period that may still see a request in time has room for it: what its bucket has used
\* up of the window that is open, and at most a window before that one.
OpenPeriodsBounded == \A b \in Buckets, t \in Int : t + window - 1 >= latest =>
  /\ b \notin DOMAIN entries => InPeriod(b, t) <= Allowance(Lapses + 1) - 1
  /\ b \in DOMAIN entries /\ entries[b].start < t =>
       InPeriod(b, t) <= Allowance(Lapses) + entries[b].count - 1
  /\ b \in DOMAIN entries /\ entries[b].start >= t =>
       InPeriod(b, t) <= Allowance(Lapses + 1) + entries[b].count - 1

\* What a window counts has passed since its start, or was late.
WindowsCounted == \A b \in DOMAIN entries :
  entries[b].count <= PassedIn(b, entries[b].start, clock) + late

\* A client was told to come back when its window is over.
ToldToWait == \A b \in DOMAIN entries :
  retry[b] # Never => retry[b] >= entries[b].start + window

LimiterTyped ==
  /\ LimiterTypeOK
  /\ IsFiniteSet(DOMAIN entries)

LimiterInv ==
  /\ LimiterTyped /\ TimesInOrder /\ PassesNumbered
  /\ PeriodsBounded /\ OpenPeriodsBounded /\ WindowsCounted /\ ToldToWait

-----------------------------------------------------------------------------
(* The limiter: arithmetic and counting.                                   *)

LEMMA AllowanceGrows ==
  ASSUME NEW n \in Nat
  PROVE  /\ Allowance(n) \in Nat
         /\ Allowance(n + 1) = Allowance(n) + limit
         /\ Allowance(n + 2) = Allowance(n) + limit + limit
         /\ Allowance(n + 3) = Allowance(n) + limit + limit + limit
         /\ Allowance(n + 4) = Allowance(n) + limit + limit + limit + limit
BY LimiterAssumption, SMT DEF Allowance

\* Retry-After, in whole seconds, reaches the end of the window.
LEMMA RoundedUp ==
  ASSUME NEW x \in Int
  PROVE  /\ (x + Second - 1) \div Second \in Int
         /\ Second * ((x + Second - 1) \div Second) >= x
<1>. DEFINE q == (x + Second - 1) \div Second
            m == (x + Second - 1) % Second
<1>1. q \in Int /\ m \in 0 .. (Second - 1) /\ x + Second - 1 = Second * q + m
  BY LimiterAssumption, SMT
<1>2. Second * q \in Int
  BY <1>1, LimiterAssumption
<1>3. Second * q >= x
  <2>. HIDE DEF q, m
  <2>. QED
    BY <1>1, <1>2, LimiterAssumption
<1>. QED
  BY <1>1, <1>3

LEMMA LargerOfTwo ==
  ASSUME NEW x \in Int, NEW y \in Int
  PROVE  Max({x, y}) = IF x > y THEN x ELSE y
<1>. DEFINE m == IF x > y THEN x ELSE y
<1>1. m \in {x, y} /\ \A z \in {x, y} : m >= z
  OBVIOUS
<1>2. \A n \in {x, y} : (\A z \in {x, y} : n >= z) => n = m
  OBVIOUS
<1>. QED
  BY <1>1, <1>2 DEF Max

LEMMA RetryReaches ==
  ASSUME NEW now \in Time,
         NEW entry, entry.start \in Time
  PROVE  /\ RetryAfter(entry, now) \in Nat
         /\ now + Second * RetryAfter(entry, now) \in Nat
         /\ now + Second * RetryAfter(entry, now) >= entry.start + window
<1>. DEFINE x == entry.start + window - now
            r == (x + Second - 1) \div Second
<1>. USE LimiterAssumption DEF Time
<1>1. x \in Int
  OBVIOUS
<1>2. r \in Int /\ Second * r >= x
  BY <1>1, RoundedUp
<1>3. RetryAfter(entry, now) = IF 1 > r THEN 1 ELSE r
  <2>. HIDE DEF r, x
  <2>1. Max({1, r}) = IF 1 > r THEN 1 ELSE r
    BY <1>2, LargerOfTwo
  <2>. QED
    BY <2>1 DEF RetryAfter, r, x
<1>4. CASE 1 > r
  <2>1. Second * 1 >= Second * r
    <3>. HIDE DEF r
    <3>. QED
      BY <1>2, <1>4
  <2>. QED
    BY <1>1, <1>2, <1>3, <1>4, <2>1
<1>5. CASE ~(1 > r)
  <2>1. r \in Nat /\ Second * r \in Nat
    <3>. HIDE DEF r
    <3>. QED
      BY <1>2, <1>5
  <2>. HIDE DEF r
  <2>. QED
    BY <1>1, <1>2, <1>3, <1>5, <2>1
<1>. QED
  BY <1>4, <1>5

LEMMA CountsOf ==
  ASSUME IsFiniteSet(passed), NEW b, NEW from, NEW to
  PROVE  /\ IsFiniteSet(Passes(b, from, to))
         /\ PassedIn(b, from, to) \in Nat
<1>1. Passes(b, from, to) \in SUBSET passed
  BY DEF Passes
<1>2. IsFiniteSet(Passes(b, from, to))
  BY <1>1, FS_Subset
<1>3. Cardinality(Passes(b, from, to)) \in Nat
  BY <1>2, FS_CardinalityType
<1>. QED
  BY <1>2, <1>3 DEF PassedIn

LEMMA LongerSeesMore ==
  ASSUME IsFiniteSet(passed), NEW b,
         NEW from \in Int, NEW to \in Int, NEW from2 \in Int, NEW to2 \in Int,
         \A x \in Passes(b, from, to) : from2 <= x.time /\ x.time <= to2
  PROVE  PassedIn(b, from, to) <= PassedIn(b, from2, to2)
<1>1. Passes(b, from, to) \in SUBSET Passes(b, from2, to2)
  BY DEF Passes
<1>2. IsFiniteSet(Passes(b, from2, to2))
  BY CountsOf
<1>3. Cardinality(Passes(b, from, to)) <= Cardinality(Passes(b, from2, to2))
  BY <1>1, <1>2, FS_Subset
<1>. QED
  BY <1>3 DEF PassedIn

\* A request let through is counted in each period that its time falls in.
LEMMA PassCounts ==
  ASSUME LimiterTyped, PassesNumbered, NEW b \in Buckets, NEW now \in Time,
         NEW table, NEW entry, Pass(b, now, table, entry)
  PROVE  /\ PassesNumbered'
         /\ passed' # passed
         /\ passed' \subseteq [bucket : Buckets, time : Time, nth : Nat \ {0}]
         /\ \A x \in passed' : x \in passed \/ (x.bucket = b /\ x.time = now)
         /\ \A c \in Buckets, from, to \in Int :
              PassedIn(c, from, to)' = PassedIn(c, from, to)
                + (IF c = b /\ from <= now /\ now <= to THEN 1 ELSE 0)
<1>. DEFINE n == PassedIn(b, now, now)
            new == [bucket |-> b, time |-> now, nth |-> n + 1]
<1>1. n \in Nat
  BY CountsOf DEF PassesNumbered
<1>2. passed' = passed \cup {new}
  BY DEF Pass
<1>3. new.bucket = b /\ new.time = now /\ new.nth = n + 1 /\ now \in Nat
  BY DEF Time
<1>4. new \notin passed
  BY <1>1, <1>3 DEF PassesNumbered
<1>5. IsFiniteSet(passed) /\ IsFiniteSet(passed')
  BY <1>2, FS_AddElement DEF PassesNumbered
<1>6. new \in [bucket : Buckets, time : Time, nth : Nat \ {0}]
  BY <1>1
<1>7. passed \subseteq [bucket : Buckets, time : Time, nth : Nat \ {0}]
  BY DEF LimiterTyped, LimiterTypeOK
<1>. HIDE DEF new
<1>8. ASSUME NEW c \in Buckets, NEW from \in Int, NEW to \in Int
      PROVE  PassedIn(c, from, to)' = PassedIn(c, from, to)
                + (IF c = b /\ from <= now /\ now <= to THEN 1 ELSE 0)
  <2>. DEFINE old == Passes(c, from, to)
  <2>1. IsFiniteSet(old) /\ Cardinality(old) \in Nat /\ new \notin old
    <3>1. new \notin old
      BY <1>4 DEF Passes
    <3>2. IsFiniteSet(old)
      BY <1>5, CountsOf
    <3>. HIDE DEF old
    <3>. QED
      BY <3>1, <3>2, FS_CardinalityType
  <2>2. CASE c = b /\ from <= now /\ now <= to
    <3>1. old' = old \cup {new}
      BY <1>2, <1>3, <2>2 DEF Passes
    <3>2. Cardinality(old \cup {new}) = Cardinality(old) + 1
      <4>. HIDE DEF old
      <4>. QED
        BY <2>1, FS_AddElement
    <3>. QED
      BY <2>2, <3>1, <3>2 DEF PassedIn
  <2>3. CASE ~(c = b /\ from <= now /\ now <= to)
    <3>1. old' = old
      BY <1>2, <1>3, <2>3 DEF Passes
    <3>. QED
      BY <2>1, <2>3, <3>1 DEF PassedIn
  <2>. QED
    BY <2>2, <2>3
<1>9. \A x \in passed' : x.nth <= PassedIn(x.bucket, x.time, x.time)'
  <2>1. ASSUME NEW x \in passed PROVE x.nth <= PassedIn(x.bucket, x.time, x.time)'
    <3>1. x.bucket \in Buckets /\ x.time \in Int /\ x.nth \in Nat
      BY <1>7 DEF Time
    <3>2. x.nth <= PassedIn(x.bucket, x.time, x.time)
          /\ PassedIn(x.bucket, x.time, x.time) \in Nat
      BY <1>5, CountsOf DEF PassesNumbered
    <3>. QED
      BY <1>3, <1>8, <3>1, <3>2
  <2>2. ASSUME NEW x \in passed', x = new
        PROVE  x.nth <= PassedIn(x.bucket, x.time, x.time)'
    <3>1. PassedIn(x.bucket, x.time, x.time)' = n + 1
      BY <1>3, <1>8, <2>2
    <3>. QED
      BY <1>1, <1>3, <2>2, <3>1
  <2>. QED
    BY <1>2, <2>1, <2>2
<1>10. PassesNumbered'
  BY <1>5, <1>9 DEF PassesNumbered
<1>11. passed' # passed /\ \A x \in passed' : x \in passed \/ (x.bucket = b /\ x.time = now)
  BY <1>2, <1>3, <1>4
<1>. QED
  BY <1>2, <1>6, <1>7, <1>8, <1>10, <1>11

-----------------------------------------------------------------------------
(* What Allow works on: the table after a cleanup that is due, and the window of the       *)
(* bucket, which may be a new one.                                                         *)

TableAt(now) == IF CleanupDue(now) THEN Cleaned(now) ELSE entries
EntryAt(b, now) == Entry(TableAt(now), b, now)
WipedAt(now) == CleanupDue(now) /\ Full(Live(now))
Over(b, now) == now >= entries[b].start + window

Judges(b, now) ==
  /\ \/ Pass(b, now, TableAt(now), EntryAt(b, now))
     \/ Refuse(b, now, TableAt(now), EntryAt(b, now))
  /\ latest' = (IF latest > now THEN latest ELSE now)
  /\ late' = late + (IF now < latest THEN 1 ELSE 0)
  /\ wiped' = wiped + (IF WipedAt(now) THEN 1 ELSE 0)
  /\ clock' = clock

LEMMA AllowJudges ==
  ASSUME LimiterTyped, NEW h \in Requests, Allow(h)
  PROVE  \E b \in Buckets, now \in Time :
           /\ b = bucket[h] /\ now = asked[h] /\ Judges(b, now)
           /\ asked' = [asked EXCEPT ![h] = Never]
           /\ lastCleanup' \in Time
           /\ UNCHANGED <<clock, bucket, requests>>
<1>1. asked[h] \in Time /\ bucket[h] \in Buckets /\ lastCleanup \in Time
      /\ latest \in Time
  BY DEF LimiterTyped, LimiterTypeOK, Allow
<1>2. Max({latest, asked[h]}) = IF latest > asked[h] THEN latest ELSE asked[h]
  BY <1>1, LargerOfTwo DEF Time
<1>3. lastCleanup' \in Time
  BY <1>1 DEF Allow
<1>4. Judges(bucket[h], asked[h])
  BY <1>2, Zenon DEF Judges, Allow, TableAt, EntryAt, WipedAt
<1>5. asked' = [asked EXCEPT ![h] = Never] /\ UNCHANGED <<clock, bucket, requests>>
  BY DEF Allow
<1>. QED
  BY <1>1, <1>3, <1>4, <1>5

LEMMA TableKept ==
  ASSUME LimiterTyped, NEW now \in Time
  PROVE  /\ DOMAIN TableAt(now) \subseteq DOMAIN entries
         /\ \A b \in DOMAIN TableAt(now) : TableAt(now)[b] = entries[b]
         /\ \A b \in DOMAIN entries \ DOMAIN TableAt(now) : Over(b, now) \/ WipedAt(now)
         /\ WipedAt(now) => DOMAIN TableAt(now) = {}
         /\ Cardinality(DOMAIN TableAt(now)) \in Nat
         /\ Cardinality(DOMAIN TableAt(now)) < maxEntries
<1>. DEFINE S == {b \in DOMAIN entries : ~Expired(entries[b], now)}
<1>1. DOMAIN Live(now) = S /\ \A b \in S : Live(now)[b] = entries[b]
  BY DEF Live, Restrict
<1>2. \A b \in DOMAIN entries \ S : Over(b, now)
  BY LimiterAssumption DEF LimiterTyped, LimiterTypeOK, rateWindow, Time, Expired, Over
<1>3. DOMAIN Empty = {} /\ Cardinality({}) = 0
  BY FS_EmptySet DEF Empty
<1>4. maxEntries \in Nat \ {0}
  BY LimiterAssumption
<1>5. IsFiniteSet(DOMAIN entries) /\ IsFiniteSet(S)
      /\ Cardinality(DOMAIN entries) \in Nat /\ Cardinality(S) \in Nat
  <2>1. IsFiniteSet(DOMAIN entries) /\ S \in SUBSET (DOMAIN entries)
    BY DEF LimiterTyped
  <2>2. IsFiniteSet(S)
    <3>. HIDE DEF S
    <3>. QED
      BY <2>1, FS_Subset
  <2>. HIDE DEF S
  <2>. QED
    BY <2>1, <2>2, FS_CardinalityType
<1>6. CASE ~CleanupDue(now)
  BY <1>4, <1>5, <1>6 DEF TableAt, WipedAt, CleanupDue, Full
<1>7. CASE WipedAt(now)
  BY <1>3, <1>4, <1>7 DEF TableAt, WipedAt, Cleaned
<1>8. CASE CleanupDue(now) /\ ~Full(Live(now))
  <2>1. TableAt(now) = Live(now)
    BY <1>8 DEF TableAt, Cleaned
  <2>2. Cardinality(S) < maxEntries
    BY <1>1, <1>4, <1>5, <1>8 DEF Full
  <2>. HIDE DEF S
  <2>3. S \subseteq DOMAIN entries
    BY DEF S
  <2>. QED
    BY <1>1, <1>2, <1>5, <1>8, <2>1, <2>2, <2>3 DEF WipedAt
<1>. QED
  BY <1>6, <1>7, <1>8 DEF WipedAt

\* A window that is used is the one in the table, still open, or a new one in the place
\* of one that is over or was thrown away.
LEMMA EntryOf ==
  ASSUME LimiterTyped,
         NEW b \in Buckets, NEW now \in Time
  PROVE  \/ /\ b \in DOMAIN TableAt(now) /\ b \in DOMAIN entries
            /\ EntryAt(b, now) = entries[b] /\ entries[b] \in rateWindow
            /\ ~Over(b, now)
         \/ /\ EntryAt(b, now) = [start |-> now, count |-> 0]
            /\ b \in DOMAIN entries => Over(b, now) \/ WipedAt(now)
<1>1. DOMAIN TableAt(now) \subseteq DOMAIN entries
      /\ (\A c \in DOMAIN TableAt(now) : TableAt(now)[c] = entries[c])
      /\ (\A c \in DOMAIN entries \ DOMAIN TableAt(now) : Over(c, now) \/ WipedAt(now))
  BY TableKept
<1>2. \A c \in DOMAIN entries : entries[c] \in rateWindow
                                /\ (Expired(entries[c], now) <=> Over(c, now))
  BY LimiterAssumption DEF LimiterTyped, LimiterTypeOK, rateWindow, Time, Expired, Over
<1>3. CASE b \in DOMAIN TableAt(now) /\ ~Expired(TableAt(now)[b], now)
  BY <1>1, <1>2, <1>3 DEF EntryAt, Entry
<1>4. CASE ~(b \in DOMAIN TableAt(now) /\ ~Expired(TableAt(now)[b], now))
  <2>1. EntryAt(b, now) = [start |-> now, count |-> 0]
    BY <1>4 DEF EntryAt, Entry
  <2>. QED
    BY <1>1, <1>2, <1>4, <2>1
<1>. QED
  BY <1>3, <1>4

\* What the table holds afterwards, of the bucket that was let through and of the others.
LEMMA TableAfter ==
  ASSUME LimiterTyped, PassesNumbered,
         NEW b \in Buckets, NEW now \in Time, Judges(b, now), NEW c \in Buckets
  PROVE  \/ /\ c \in DOMAIN entries' /\ c \in DOMAIN entries /\ entries'[c] = entries[c]
            /\ c # b \/ passed' = passed
         \/ /\ c \notin DOMAIN entries'
            /\ c # b \/ passed' = passed
            /\ c \in DOMAIN entries => Over(c, now) \/ WipedAt(now)
         \/ /\ c = b /\ passed' # passed
            /\ c \in DOMAIN entries' /\ c \in DOMAIN entries
            /\ entries'[c] = [start |-> entries[c].start, count |-> entries[c].count + 1]
            /\ entries[c].count < limit
         \/ /\ c = b /\ passed' # passed
            /\ c \in DOMAIN entries'
            /\ entries'[c] = [start |-> now, count |-> 1]
            /\ c \in DOMAIN entries => Over(c, now) \/ WipedAt(now)
<1>. DEFINE table == TableAt(now)
            entry == EntryAt(b, now)
<1>1. DOMAIN table \subseteq DOMAIN entries
      /\ (\A d \in DOMAIN table : table[d] = entries[d])
      /\ (\A d \in DOMAIN entries \ DOMAIN table : Over(d, now) \/ WipedAt(now))
  BY TableKept
<1>2. \/ /\ b \in DOMAIN table /\ b \in DOMAIN entries
         /\ entry = entries[b] /\ entries[b] \in rateWindow
         /\ ~Over(b, now)
      \/ /\ entry = [start |-> now, count |-> 0]
         /\ b \in DOMAIN entries => Over(b, now) \/ WipedAt(now)
  BY EntryOf
<1>. HIDE DEF table, entry
<1>3. CASE Refuse(b, now, table, entry)
  <2>1. entries' = table /\ passed' = passed
    BY <1>3 DEF Refuse
  <2>. QED
    BY <1>1, <2>1
<1>4. CASE Pass(b, now, table, entry)
  <2>1. DOMAIN entries' = DOMAIN table \cup {b}
        /\ \A d \in DOMAIN table : d # b => entries'[d] = entries[d]
    BY <1>1, <1>4 DEF Pass
  <2>2. entries'[b] = [entry EXCEPT !.count = @ + 1]
    BY <1>4 DEF Pass
  <2>3. passed' # passed
    BY <1>4, PassCounts
  <2>4. CASE c # b
    BY <1>1, <2>1, <2>4
  <2>5. CASE /\ b \in DOMAIN table /\ b \in DOMAIN entries
             /\ entry = entries[b] /\ entries[b] \in rateWindow
             /\ ~Over(b, now)
    <3>1. entries'[b] = [start |-> entries[b].start, count |-> entries[b].count + 1]
      BY <2>2, <2>5 DEF rateWindow
    <3>2. entries[b].count < limit
      BY <1>4, <2>5, LimiterAssumption DEF Pass, Spent, rateWindow
    <3>. QED
      BY <2>1, <2>3, <2>4, <2>5, <3>1, <3>2
  <2>6. CASE /\ entry = [start |-> now, count |-> 0]
             /\ b \in DOMAIN entries => Over(b, now) \/ WipedAt(now)
    <3>1. entries'[b] = [start |-> now, count |-> 1]
      BY <2>2, <2>6
    <3>. QED
      BY <2>1, <2>3, <2>4, <2>6, <3>1
  <2>. QED
    BY <1>2, <2>5, <2>6
<1>. QED
  BY <1>3, <1>4 DEF Judges, table, entry

LEMMA PassedOrNot ==
  ASSUME LimiterTyped, PassesNumbered,
         NEW b \in Buckets, NEW now \in Time, Judges(b, now)
  PROVE  /\ PassesNumbered'
         /\ passed' \subseteq [bucket : Buckets, time : Time, nth : Nat \ {0}]
         /\ \A x \in passed' : x \in passed \/ (x.bucket = b /\ x.time = now)
         /\ \A c \in Buckets, from, to \in Int :
              /\ PassedIn(c, from, to) \in Nat
              /\ \/ PassedIn(c, from, to)' = PassedIn(c, from, to)
                 \/ /\ c = b /\ from <= now /\ now <= to /\ passed' # passed
                    /\ PassedIn(c, from, to)' = PassedIn(c, from, to) + 1
              /\ passed' # passed /\ c = b /\ from <= now /\ now <= to =>
                   PassedIn(c, from, to)' = PassedIn(c, from, to) + 1
<1>1. \A c \in Buckets, from, to \in Int : PassedIn(c, from, to) \in Nat
  BY CountsOf DEF PassesNumbered
<1>2. CASE passed' = passed
  <2>1. \A c \in Buckets, from, to \in Int :
          PassedIn(c, from, to)' = PassedIn(c, from, to)
    BY <1>2 DEF PassedIn, Passes
  <2>2. PassesNumbered'
    BY <1>2 DEF PassesNumbered, PassedIn, Passes
  <2>. QED
    BY <1>1, <1>2, <2>1, <2>2 DEF LimiterTyped, LimiterTypeOK
<1>3. CASE Pass(b, now, TableAt(now), EntryAt(b, now))
  BY <1>1, <1>3, PassCounts
<1>4. Refuse(b, now, TableAt(now), EntryAt(b, now)) => passed' = passed
  BY DEF Refuse
<1>. QED
  BY <1>2, <1>3, <1>4 DEF Judges

-----------------------------------------------------------------------------
(* The account of a period, when Allow judges a request of bucket b.                       *)

\* How the allowance grows: by a window for a table that is emptied, and one for a request
\* that is late.
LEMMA LapsesGrow ==
  ASSUME LimiterTyped,
         NEW b \in Buckets, NEW now \in Time, Judges(b, now)
  PROVE  \E k, l \in Nat :
           /\ k = Lapses /\ l = Lapses' /\ k <= l
           /\ limit \in Nat \ {0}
           /\ Allowance(k) \in Nat /\ Allowance(l) \in Nat /\ Allowance(k) <= Allowance(l)
           /\ WipedAt(now) \/ now < latest => Allowance(k) + limit <= Allowance(l)
           /\ WipedAt(now) /\ now < latest => Allowance(k) + limit + limit <= Allowance(l)
           /\ \A n \in {k, l} : /\ Allowance(n + 1) = Allowance(n) + limit
                                /\ Allowance(n + 2) = Allowance(n) + limit + limit
<1>1. wiped \in Nat /\ late \in Nat /\ Lapses \in Nat
  BY DEF LimiterTyped, LimiterTypeOK, Lapses
<1>2. Lapses' = Lapses + (IF WipedAt(now) THEN 1 ELSE 0) + (IF now < latest THEN 1 ELSE 0)
  BY <1>1 DEF Judges, Lapses
<1>3. PICK k \in Nat : k = Lapses
  BY <1>1
<1>4. PICK l \in Nat : l = Lapses'
  BY <1>1, <1>2
<1>5. limit \in Nat \ {0}
  BY LimiterAssumption
<1>6. /\ Allowance(k) \in Nat /\ Allowance(k + 1) = Allowance(k) + limit
      /\ Allowance(k + 2) = Allowance(k) + limit + limit
      /\ Allowance(l) \in Nat /\ Allowance(l + 1) = Allowance(l) + limit
      /\ Allowance(l + 2) = Allowance(l) + limit + limit
  BY AllowanceGrows
<1>7. \/ l = k /\ ~WipedAt(now) /\ ~(now < latest)
      \/ l = k + 1 /\ ~(WipedAt(now) /\ now < latest)
      \/ l = k + 2
  BY <1>2, <1>3, <1>4
<1>8. /\ Allowance(k) <= Allowance(l)
      /\ WipedAt(now) \/ now < latest => Allowance(k) + limit <= Allowance(l)
      /\ WipedAt(now) /\ now < latest => Allowance(k) + limit + limit <= Allowance(l)
  BY <1>5, <1>6, <1>7
<1>9. k <= l
  BY <1>7
<1>. QED
  BY <1>3, <1>4, <1>5, <1>6, <1>8, <1>9

\* A period that is over sees no more, except a request that is late.
LEMMA PeriodsStep ==
  ASSUME LimiterInv,
         NEW b \in Buckets, NEW now \in Time, Judges(b, now),
         NEW c \in Buckets, NEW t \in Int, t + window - 1 < latest'
  PROVE  InPeriod(c, t)' <= Allowance(Lapses' + 2) - 1
<1>1. LimiterTyped /\ PassesNumbered /\ PeriodsBounded
  BY DEF LimiterInv
<1>2. PICK k, l \in Nat :
           /\ k = Lapses /\ l = Lapses'
           /\ limit \in Nat \ {0}
           /\ Allowance(k) \in Nat /\ Allowance(l) \in Nat /\ Allowance(k) <= Allowance(l)
           /\ now < latest => Allowance(k) + limit <= Allowance(l)
           /\ \A n \in {k, l} : Allowance(n + 2) = Allowance(n) + limit + limit
  BY <1>1, LapsesGrow
<1>3. window \in Nat /\ latest \in Nat /\ now \in Nat
      /\ latest' = IF latest > now THEN latest ELSE now
  BY <1>1, LimiterAssumption DEF LimiterTyped, LimiterTypeOK, Time, Judges
<1>4. /\ InPeriod(c, t) \in Nat
      /\ \/ InPeriod(c, t)' = InPeriod(c, t)
         \/ now <= t + window - 1 /\ InPeriod(c, t)' = InPeriod(c, t) + 1
  BY <1>1, <1>3, PassedOrNot DEF InPeriod
<1>5. InPeriod(c, t) <= Allowance(k) + limit + limit - 1
  BY <1>1, <1>2 DEF PeriodsBounded
<1>6. InPeriod(c, t)' <= Allowance(l) + limit + limit - 1
  BY <1>2, <1>3, <1>4, <1>5
<1>. QED
  BY <1>2, <1>6

LEMMA OpenPeriodsStep ==
  ASSUME LimiterInv,
         NEW b \in Buckets, NEW now \in Time, Judges(b, now),
         NEW c \in Buckets, NEW t \in Int, t + window - 1 >= latest'
  PROVE  /\ c \notin DOMAIN entries' => InPeriod(c, t)' <= Allowance(Lapses' + 1) - 1
         /\ c \in DOMAIN entries' /\ entries'[c].start < t =>
              InPeriod(c, t)' <= Allowance(Lapses') + entries'[c].count - 1
         /\ c \in DOMAIN entries' /\ entries'[c].start >= t =>
              InPeriod(c, t)' <= Allowance(Lapses' + 1) + entries'[c].count - 1
         /\ InPeriod(c, t)' <= Allowance(Lapses' + 2) - 1
<1>1. LimiterTyped /\ PassesNumbered /\ PeriodsBounded /\ OpenPeriodsBounded /\ TimesInOrder
  BY DEF LimiterInv
<1>2. PICK k, l \in Nat :
           /\ k = Lapses /\ l = Lapses' /\ k <= l
           /\ limit \in Nat \ {0}
           /\ Allowance(k) \in Nat /\ Allowance(l) \in Nat /\ Allowance(k) <= Allowance(l)
           /\ WipedAt(now) \/ now < latest => Allowance(k) + limit <= Allowance(l)
           /\ WipedAt(now) /\ now < latest => Allowance(k) + limit + limit <= Allowance(l)
           /\ \A n \in {k, l} : /\ Allowance(n + 1) = Allowance(n) + limit
                                /\ Allowance(n + 2) = Allowance(n) + limit + limit
  BY <1>1, LapsesGrow
<1>3. window \in Nat \ {0} /\ latest \in Nat /\ now \in Nat
      /\ latest' = IF latest > now THEN latest ELSE now
  BY <1>1, LimiterAssumption DEF LimiterTyped, LimiterTypeOK, Time, Judges
<1>4. /\ InPeriod(c, t) \in Nat
      /\ \/ InPeriod(c, t)' = InPeriod(c, t)
         \/ /\ c = b /\ t <= now /\ passed' # passed
            /\ InPeriod(c, t)' = InPeriod(c, t) + 1
  BY <1>1, <1>3, PassedOrNot DEF InPeriod
<1>5. InPeriod(c, t) <= Allowance(k) + limit + limit - 1
  BY <1>1, <1>2 DEF PeriodsBounded
<1>6. /\ c \notin DOMAIN entries => InPeriod(c, t) <= Allowance(k) + limit - 1
      /\ c \in DOMAIN entries /\ entries[c].start < t =>
           InPeriod(c, t) <= Allowance(k) + entries[c].count - 1
      /\ c \in DOMAIN entries /\ entries[c].start >= t =>
           InPeriod(c, t) <= Allowance(k) + limit + entries[c].count - 1
  BY <1>1, <1>2, <1>3 DEF OpenPeriodsBounded
<1>7. /\ c \in DOMAIN entries => entries[c].start \in Nat /\ entries[c].count \in 1 .. limit
      /\ c \in DOMAIN entries /\ Over(c, now) => entries[c].start < t
  <2>1. c \in DOMAIN entries => entries[c].start \in Nat /\ entries[c].count \in 1 .. limit
    BY <1>1 DEF LimiterTyped, LimiterTypeOK, rateWindow, Time
  <2>. QED
    BY <1>3, <2>1 DEF Over
<1>8. \/ /\ c \in DOMAIN entries' /\ c \in DOMAIN entries /\ entries'[c] = entries[c]
         /\ c # b \/ passed' = passed
      \/ /\ c \notin DOMAIN entries'
         /\ c # b \/ passed' = passed
         /\ c \in DOMAIN entries => Over(c, now) \/ WipedAt(now)
      \/ /\ c = b /\ passed' # passed
         /\ c \in DOMAIN entries' /\ c \in DOMAIN entries
         /\ entries'[c] = [start |-> entries[c].start, count |-> entries[c].count + 1]
         /\ entries[c].count < limit
      \/ /\ c = b /\ passed' # passed
         /\ c \in DOMAIN entries'
         /\ entries'[c] = [start |-> now, count |-> 1]
         /\ c \in DOMAIN entries => Over(c, now) \/ WipedAt(now)
  BY <1>1, TableAfter, Zenon
<1>9. /\ Allowance(Lapses') = Allowance(l)
      /\ Allowance(Lapses' + 1) = Allowance(l) + limit
      /\ Allowance(Lapses' + 2) = Allowance(l) + limit + limit
  BY <1>2
<1>. DEFINE A == Allowance(Lapses')
            A1 == Allowance(Lapses' + 1)
            A2 == Allowance(Lapses' + 2)
<1>. HIDE DEF A, A1, A2
<1>. SUFFICES
       /\ c \notin DOMAIN entries' => InPeriod(c, t)' <= A1 - 1
       /\ c \in DOMAIN entries' /\ entries'[c].start < t =>
            InPeriod(c, t)' <= A + entries'[c].count - 1
       /\ c \in DOMAIN entries' /\ entries'[c].start >= t =>
            InPeriod(c, t)' <= A1 + entries'[c].count - 1
       /\ InPeriod(c, t)' <= A2 - 1
  BY Zenon DEF A, A1, A2
<1>10. A = Allowance(l) /\ A1 = Allowance(l) + limit /\ A2 = Allowance(l) + limit + limit
  BY <1>9 DEF A, A1, A2
<1>11. CASE /\ c \in DOMAIN entries' /\ c \in DOMAIN entries /\ entries'[c] = entries[c]
            /\ c # b \/ passed' = passed
  BY <1>2, <1>3, <1>4, <1>5, <1>6, <1>7, <1>10, <1>11
<1>12. CASE /\ c \notin DOMAIN entries'
            /\ c # b \/ passed' = passed
            /\ c \in DOMAIN entries => Over(c, now) \/ WipedAt(now)
  BY <1>2, <1>3, <1>4, <1>5, <1>6, <1>7, <1>10, <1>12
<1>13. CASE /\ c = b /\ c \in DOMAIN entries' /\ c \in DOMAIN entries
            /\ entries'[c] = [start |-> entries[c].start, count |-> entries[c].count + 1]
            /\ entries[c].count < limit
  BY <1>2, <1>3, <1>4, <1>5, <1>6, <1>7, <1>10, <1>13
<1>14. CASE /\ c = b /\ c \in DOMAIN entries'
            /\ entries'[c] = [start |-> now, count |-> 1]
            /\ c \in DOMAIN entries => Over(c, now) \/ WipedAt(now)
  <2>1. entries'[c].start = now /\ entries'[c].count = 1
    BY <1>14
  <2>2. InPeriod(c, t) <= Allowance(l) + limit - 1
    BY <1>2, <1>3, <1>4, <1>5, <1>6, <1>7, <1>14
  <2>3. CASE t <= now
    BY <1>2, <1>3, <1>4, <1>14, <1>10, <2>1, <2>2, <2>3
  <2>4. CASE now < t /\ now < latest
    \* Late: nothing of the period is in the new window.
    <3>1. InPeriod(c, t) <= Allowance(l)
      BY <1>2, <1>3, <1>4, <1>5, <1>6, <1>7, <1>14, <2>4
    <3>. QED
      BY <1>2, <1>3, <1>4, <1>10, <2>1, <2>4, <3>1
  <2>5. CASE now < t /\ ~(now < latest)
    \* The period is still to come.
    <3>1. \A x \in passed : x.time \in Nat /\ x.time <= now
      BY <1>1, <1>3, <2>5 DEF TimesInOrder, LimiterTyped, LimiterTypeOK, Time
    <3>2. Passes(c, t, t + window - 1) = {}
      BY <1>3, <2>5, <3>1 DEF Passes
    <3>3. InPeriod(c, t) = 0
      BY <3>2, FS_EmptySet DEF InPeriod, PassedIn
    <3>. QED
      BY <1>2, <1>3, <1>4, <1>10, <2>1, <2>5, <3>3
  <2>. QED
    BY <1>3, <2>3, <2>4, <2>5
<1>. QED
  BY <1>8, <1>11, <1>12, <1>13, <1>14

-----------------------------------------------------------------------------
(* The other conjuncts, when Allow judges a request.                                       *)

LEMMA TableStaysSmall ==
  ASSUME LimiterTyped,
         NEW b \in Buckets, NEW now \in Time, Judges(b, now)
  PROVE  /\ DOMAIN entries' \subseteq DOMAIN entries \cup {b}
         /\ IsFiniteSet(DOMAIN entries')
         /\ Cardinality(DOMAIN entries') <= maxEntries
<1>. DEFINE D == DOMAIN TableAt(now)
<1>1. D \subseteq DOMAIN entries /\ Cardinality(D) \in Nat /\ Cardinality(D) < maxEntries
      /\ IsFiniteSet(D)
  <2>1. D \subseteq DOMAIN entries /\ Cardinality(D) \in Nat /\ Cardinality(D) < maxEntries
    BY TableKept
  <2>. HIDE DEF D
  <2>. QED
    BY <2>1, FS_Subset DEF LimiterTyped
<1>. HIDE DEF D
<1>2. DOMAIN entries' = D \/ DOMAIN entries' = D \cup {b}
  BY DEF Judges, Pass, Refuse, D
<1>3. IsFiniteSet(D \cup {b}) /\ Cardinality(D \cup {b}) <= Cardinality(D) + 1
      /\ Cardinality(D \cup {b}) \in Nat
  <2>1. IsFiniteSet(D \cup {b})
        /\ Cardinality(D \cup {b}) = IF b \in D THEN Cardinality(D) ELSE Cardinality(D) + 1
    BY <1>1, FS_AddElement
  <2>. QED
    BY <1>1, <2>1
<1>4. maxEntries \in Nat
  BY LimiterAssumption
<1>5. IsFiniteSet(DOMAIN entries') /\ Cardinality(DOMAIN entries') <= maxEntries
  BY <1>1, <1>2, <1>3, <1>4
<1>6. DOMAIN entries' \subseteq DOMAIN entries \cup {b}
  BY <1>1, <1>2
<1>. QED
  BY <1>5, <1>6

LEMMA TimesStep ==
  ASSUME LimiterInv,
         NEW b \in Buckets, NEW now \in Time, Judges(b, now), now <= clock
  PROVE  /\ latest' \in Time /\ latest' <= clock'
         /\ \A x \in passed' : x.time <= latest'
         /\ \A c \in DOMAIN entries' :
              entries'[c] \in rateWindow /\ entries'[c].start <= latest'
<1>1. LimiterTyped /\ TimesInOrder /\ PassesNumbered
  BY DEF LimiterInv
<1>2. latest \in Nat /\ clock \in Nat /\ now \in Nat /\ latest <= clock /\ limit \in Nat \ {0}
      /\ clock' = clock /\ latest' = IF latest > now THEN latest ELSE now
  BY <1>1, LimiterAssumption DEF LimiterTyped, LimiterTypeOK, Time, TimesInOrder, Judges
<1>3. latest' \in Time
  BY <1>1, <1>2 DEF LimiterTyped, LimiterTypeOK
<1>4. ASSUME NEW x \in passed' PROVE x.time <= latest'
  <2>1. x \in passed \/ x.time = now
    BY <1>1, PassedOrNot
  <2>2. x \in passed => x.time \in Nat /\ x.time <= latest
    BY <1>1 DEF TimesInOrder, LimiterTyped, LimiterTypeOK, Time
  <2>. QED
    BY <1>2, <2>1, <2>2
<1>5. ASSUME NEW c \in DOMAIN entries'
      PROVE  entries'[c] \in rateWindow /\ entries'[c].start <= latest'
  <2>1. c \in Buckets
    BY <1>1, TableStaysSmall DEF LimiterTyped, LimiterTypeOK
  <2>2. c \in DOMAIN entries =>
          /\ entries[c] \in rateWindow /\ entries[c].start <= latest
          /\ entries[c].start \in Time /\ entries[c].count \in 1 .. limit
    BY <1>1 DEF TimesInOrder, LimiterTyped, LimiterTypeOK, rateWindow
  <2>3. \/ c \in DOMAIN entries /\ entries'[c] = entries[c]
        \/ /\ c \in DOMAIN entries /\ entries[c].count < limit
           /\ entries'[c] = [start |-> entries[c].start, count |-> entries[c].count + 1]
        \/ entries'[c] = [start |-> now, count |-> 1]
    BY <1>1, <2>1, TableAfter, Zenon
  <2>. QED
    BY <1>2, <2>2, <2>3 DEF rateWindow, Time
<1>. QED
  BY <1>2, <1>3, <1>4, <1>5

LEMMA CountsStep ==
  ASSUME LimiterInv,
         NEW b \in Buckets, NEW now \in Time, Judges(b, now), now <= clock,
         NEW c \in DOMAIN entries'
  PROVE  \E s, top \in Int : /\ s = entries'[c].start /\ top = clock'
                             /\ entries'[c].count <= PassedIn(c, s, top)' + late'
<1>1. LimiterTyped /\ TimesInOrder /\ PassesNumbered /\ WindowsCounted
  BY DEF LimiterInv
<1>2. latest \in Nat /\ clock \in Nat /\ now \in Nat /\ late \in Nat /\ latest <= clock
      /\ clock' = clock /\ late' = late + (IF now < latest THEN 1 ELSE 0)
  BY <1>1 DEF LimiterTyped, LimiterTypeOK, Time, TimesInOrder, Judges
<1>3. c \in Buckets
  BY <1>1, TableStaysSmall DEF LimiterTyped, LimiterTypeOK
<1>4. PICK s \in Int, n \in Int : s = entries'[c].start /\ n = entries'[c].count
  BY <1>1, TimesStep DEF rateWindow, Time, LimiterInv
<1>5. PICK top \in Int : top = clock
  BY <1>2
<1>6. /\ PassedIn(c, s, top) \in Nat
      /\ \/ PassedIn(c, s, top)' = PassedIn(c, s, top)
         \/ PassedIn(c, s, top)' = PassedIn(c, s, top) + 1
      /\ passed' # passed /\ c = b /\ s <= now /\ now <= top =>
           PassedIn(c, s, top)' = PassedIn(c, s, top) + 1
  BY <1>1, <1>3, PassedOrNot
<1>7. c \in DOMAIN entries =>
        /\ entries[c].start \in Nat /\ entries[c].count \in Nat
        /\ entries[c].start <= latest
        /\ entries[c].count <= PassedIn(c, entries[c].start, top) + late
  BY <1>1, <1>5 DEF WindowsCounted, TimesInOrder, LimiterTyped, LimiterTypeOK,
                    rateWindow, Time
<1>8. \/ c \in DOMAIN entries /\ entries'[c] = entries[c]
      \/ /\ c = b /\ passed' # passed /\ c \in DOMAIN entries
         /\ entries'[c] = [start |-> entries[c].start, count |-> entries[c].count + 1]
      \/ /\ c = b /\ passed' # passed
         /\ entries'[c] = [start |-> now, count |-> 1]
  BY <1>1, <1>3, TableAfter, Zenon
<1>9. n <= PassedIn(c, s, top)' + late'
  <2>1. CASE c \in DOMAIN entries /\ entries'[c] = entries[c]
    BY <1>2, <1>4, <1>6, <1>7, <2>1
  <2>2. CASE /\ c = b /\ passed' # passed /\ c \in DOMAIN entries
             /\ entries'[c] = [start |-> entries[c].start, count |-> entries[c].count + 1]
    <3>1. s = entries[c].start /\ n = entries[c].count + 1
      BY <1>4, <2>2
    <3>2. n <= PassedIn(c, s, top) + late + 1
      BY <1>2, <1>6, <1>7, <2>2, <3>1
    <3>. QED
      BY <1>2, <1>5, <1>6, <1>7, <2>2, <3>1, <3>2
  <2>3. CASE /\ c = b /\ passed' # passed
             /\ entries'[c] = [start |-> now, count |-> 1]
    <3>1. s = now /\ n = 1
      BY <1>4, <2>3
    <3>. QED
      BY <1>2, <1>5, <1>6, <2>3, <3>1
  <2>. QED
    BY <1>8, <2>1, <2>2, <2>3
<1>. QED
  BY <1>2, <1>4, <1>5, <1>9

LEMMA RetryStep ==
  ASSUME LimiterInv,
         NEW b \in Buckets, NEW now \in Time, Judges(b, now)
  PROVE  /\ retry' \in [Buckets -> Nat \cup {Never}]
         /\ \A c \in DOMAIN entries' :
              retry'[c] # Never => retry'[c] >= entries'[c].start + window
<1>1. LimiterTyped /\ PassesNumbered /\ ToldToWait
  BY DEF LimiterInv
<1>2. retry \in [Buckets -> Nat \cup {Never}]
  BY <1>1 DEF LimiterTyped, LimiterTypeOK
<1>3. ASSUME NEW c \in DOMAIN entries'
      PROVE  /\ c \in Buckets
             /\ passed' = passed => c \in DOMAIN entries /\ entries'[c] = entries[c]
             /\ c # b => c \in DOMAIN entries /\ entries'[c] = entries[c]
  <2>1. c \in Buckets
    BY <1>1, TableStaysSmall DEF LimiterTyped, LimiterTypeOK
  <2>. QED
    BY <1>1, <2>1, TableAfter, Zenon
<1>4. CASE Pass(b, now, TableAt(now), EntryAt(b, now))
  <2>1. retry' = [retry EXCEPT ![b] = Never]
    BY <1>4 DEF Pass
  <2>. QED
    BY <1>1, <1>2, <1>3, <2>1 DEF ToldToWait
<1>5. CASE Refuse(b, now, TableAt(now), EntryAt(b, now))
  <2>. DEFINE entry == EntryAt(b, now)
              when == now + Second * RetryAfter(entry, now)
  <2>1. passed' = passed /\ retry' = [retry EXCEPT ![b] = when]
        /\ Spent(entry)
    BY <1>5 DEF Refuse
  <2>2. b \in DOMAIN entries /\ entry = entries[b] /\ entry.start \in Time
    <3>1. ~Spent([start |-> now, count |-> 0])
      BY LimiterAssumption DEF Spent
    <3>. HIDE DEF entry
    <3>. QED
      BY <1>1, <2>1, <3>1, EntryOf DEF entry, rateWindow
  <2>3. when \in Nat /\ when >= entry.start + window
    <3>. HIDE DEF entry
    <3>. QED
      BY <2>2, RetryReaches
  <2>. HIDE DEF when, entry
  <2>. QED
    BY <1>1, <1>2, <1>3, <2>1, <2>2, <2>3 DEF ToldToWait
<1>. QED
  BY <1>4, <1>5 DEF Judges

-----------------------------------------------------------------------------
(* The invariant.                                                          *)

LEMMA LimiterStarts == LimiterInit => LimiterInv
<1>. SUFFICES ASSUME LimiterInit PROVE LimiterInv
  OBVIOUS
<1>. USE DEF LimiterInit
<1>1. DOMAIN entries = {} /\ passed = {}
  BY DEF Empty
<1>2. IsFiniteSet({}) /\ Cardinality({}) = 0
  BY FS_EmptySet
<1>3. 0 \in Time
  BY LimiterAssumption DEF Time
<1>4. LimiterTyped
  BY <1>1, <1>2, <1>3, LimiterAssumption DEF LimiterTyped, LimiterTypeOK, Never
<1>5. \A b, from, to : PassedIn(b, from, to) = 0
  <2>1. \A b, from, to : Passes(b, from, to) = {}
    BY <1>1 DEF Passes
  <2>. QED
    BY <1>2, <2>1 DEF PassedIn
<1>6. Lapses = 0 /\ Allowance(0 + 1) - 1 >= 0 /\ Allowance(0 + 2) - 1 >= 0
  BY AllowanceGrows, LimiterAssumption DEF Lapses
<1>7. PeriodsBounded /\ OpenPeriodsBounded
  BY <1>1, <1>5, <1>6 DEF PeriodsBounded, OpenPeriodsBounded, InPeriod
<1>8. TimesInOrder /\ PassesNumbered /\ WindowsCounted /\ ToldToWait
  BY <1>1, <1>2 DEF TimesInOrder, PassesNumbered, WindowsCounted, ToldToWait, Never
<1>. QED
  BY <1>4, <1>7, <1>8 DEF LimiterInv

LEMMA AllowKeeps ==
  ASSUME LimiterInv, NEW h \in Requests, Allow(h)
  PROVE  LimiterInv'
<1>1. LimiterTyped /\ TimesInOrder /\ PassesNumbered
  BY DEF LimiterInv
<1>2. PICK b \in Buckets, now \in Time :
        /\ now = asked[h] /\ Judges(b, now)
        /\ asked' = [asked EXCEPT ![h] = Never]
        /\ lastCleanup' \in Time
        /\ UNCHANGED <<clock, bucket, requests>>
  BY <1>1, AllowJudges
<1>3. now <= clock
  BY <1>1, <1>2 DEF TimesInOrder
<1>4. PassesNumbered'
      /\ passed' \subseteq [bucket : Buckets, time : Time, nth : Nat \ {0}]
  BY <1>1, <1>2, PassedOrNot
<1>5. TimesInOrder'
  <2>1. latest' <= clock' /\ (\A x \in passed' : x.time <= latest')
        /\ \A c \in DOMAIN entries' : entries'[c].start <= latest'
    BY <1>2, <1>3, TimesStep
  <2>2. \A g \in Requests : asked'[g] <= clock'
    BY <1>1, <1>2 DEF TimesInOrder, LimiterTyped, LimiterTypeOK, Never, Time
  <2>. QED
    BY <2>1, <2>2 DEF TimesInOrder
<1>6. LimiterTyped'
  <2>1. /\ latest' \in Time
        /\ \A c \in DOMAIN entries' : entries'[c] \in rateWindow
    BY <1>2, <1>3, TimesStep
  <2>2. /\ DOMAIN entries' \subseteq Buckets /\ IsFiniteSet(DOMAIN entries')
        /\ Cardinality(DOMAIN entries') <= maxEntries
    BY <1>1, <1>2, TableStaysSmall DEF LimiterTyped, LimiterTypeOK
  <2>3. retry' \in [Buckets -> Nat \cup {Never}]
    BY <1>2, RetryStep
  <2>4. asked' \in [Requests -> Time \cup {Never}]
        /\ wiped' \in Nat /\ late' \in Nat
    BY <1>1, <1>2 DEF LimiterTyped, LimiterTypeOK, Judges
  <2>. QED
    BY <1>1, <1>2, <1>4, <2>1, <2>2, <2>3, <2>4 DEF LimiterTyped, LimiterTypeOK
<1>7. latest' \in Int /\ window \in Int
  BY <1>6, LimiterAssumption DEF LimiterTyped, LimiterTypeOK, Time
<1>8. PeriodsBounded'
  <2>1. \A c \in Buckets, t \in Int : InPeriod(c, t)' <= Allowance(Lapses' + 2) - 1
    BY <1>2, <1>7, PeriodsStep, OpenPeriodsStep
  <2>. QED
    BY <2>1 DEF PeriodsBounded, Allowance
<1>9. OpenPeriodsBounded'
  <2>1. \A c \in Buckets, t \in Int : t + window - 1 >= latest' =>
          /\ c \notin DOMAIN entries' => InPeriod(c, t)' <= Allowance(Lapses' + 1) - 1
          /\ c \in DOMAIN entries' /\ entries'[c].start < t =>
               InPeriod(c, t)' <= Allowance(Lapses') + entries'[c].count - 1
          /\ c \in DOMAIN entries' /\ entries'[c].start >= t =>
               InPeriod(c, t)' <= Allowance(Lapses' + 1) + entries'[c].count - 1
    BY <1>2, OpenPeriodsStep
  <2>. QED
    BY <2>1 DEF OpenPeriodsBounded, Allowance
<1>10. WindowsCounted'
  <2>1. \A c \in DOMAIN entries' : \E s, top \in Int :
          /\ s = entries'[c].start /\ top = clock'
          /\ entries'[c].count <= PassedIn(c, s, top)' + late'
    BY <1>2, <1>3, CountsStep
  <2>. QED
    BY <2>1 DEF WindowsCounted, PassedIn, Passes
<1>11. ToldToWait'
  BY <1>2, RetryStep DEF ToldToWait, Never
<1>. QED
  BY <1>4, <1>5, <1>6, <1>8, <1>9, <1>10, <1>11 DEF LimiterInv

LEMMA TickKeeps ==
  ASSUME LimiterInv, Tick PROVE LimiterInv'
<1>. USE DEF Tick, LimiterInv
<1>1. clock \in Nat /\ clock' = clock + 1 /\ clock' \in Time
  BY LimiterAssumption DEF LimiterTyped, LimiterTypeOK, Time
<1>2. LimiterTyped'
  BY <1>1 DEF LimiterTyped, LimiterTypeOK
<1>3. TimesInOrder'
  <2>1. latest \in Nat /\ \A h \in Requests : asked[h] \in Int
    BY DEF LimiterTyped, LimiterTypeOK, Time, Never
  <2>. QED
    BY <1>1, <2>1 DEF TimesInOrder
<1>4. PassesNumbered' /\ ToldToWait'
  BY DEF PassesNumbered, ToldToWait, PassedIn, Passes, Never
<1>5. PeriodsBounded' /\ OpenPeriodsBounded'
  BY DEF PeriodsBounded, OpenPeriodsBounded, InPeriod, Lapses, Allowance,
         PassedIn, Passes
<1>6. ASSUME NEW b \in DOMAIN entries
      PROVE  entries[b].count <= PassedIn(b, entries[b].start, clock + 1) + late
  <2>1. b \in Buckets /\ entries[b].start \in Int /\ entries[b].count \in Int /\ late \in Nat
    BY DEF LimiterTyped, LimiterTypeOK, rateWindow, Time
  <2>2. \A x \in Passes(b, entries[b].start, clock) : x.time \in entries[b].start .. clock
    BY DEF Passes
  <2>3. PassedIn(b, entries[b].start, clock)
          <= PassedIn(b, entries[b].start, clock + 1)
    BY <1>1, <2>1, <2>2, LongerSeesMore DEF PassesNumbered
  <2>4. PassedIn(b, entries[b].start, clock) \in Nat
        /\ PassedIn(b, entries[b].start, clock + 1) \in Nat
    BY CountsOf DEF PassesNumbered
  <2>. QED
    BY <2>1, <2>3, <2>4 DEF WindowsCounted
<1>7. WindowsCounted'
  BY <1>1, <1>6 DEF WindowsCounted, PassedIn, Passes
<1>. QED
  BY <1>2, <1>3, <1>4, <1>5, <1>7

LEMMA AskKeeps ==
  ASSUME LimiterInv,
         NEW h \in Requests, NEW b \in Buckets, Ask(h, b)
  PROVE  LimiterInv'
<1>. USE DEF Ask, LimiterInv
<1>1. LimiterTyped'
  BY LimiterAssumption DEF LimiterTyped, LimiterTypeOK
<1>2. TimesInOrder'
  <2>1. \A g \in Requests : asked'[g] = clock \/ asked'[g] = asked[g]
    BY DEF LimiterTyped, LimiterTypeOK
  <2>2. clock \in Int
    BY DEF LimiterTyped, LimiterTypeOK, Time
  <2>. QED
    BY <2>1, <2>2 DEF TimesInOrder
<1>3. PassesNumbered' /\ ToldToWait' /\ WindowsCounted'
  BY DEF PassesNumbered, ToldToWait, WindowsCounted, PassedIn, Passes,
         Never
<1>4. PeriodsBounded' /\ OpenPeriodsBounded'
  BY DEF PeriodsBounded, OpenPeriodsBounded, InPeriod, Lapses, Allowance,
         PassedIn, Passes
<1>. QED
  BY <1>1, <1>2, <1>3, <1>4

LEMMA LimiterSteps ==
  ASSUME LimiterInv, [LimiterNext]_limiterVars
  PROVE  LimiterInv'
<1>1. CASE UNCHANGED limiterVars
  <2>. USE <1>1 DEF limiterVars, LimiterInv
  <2>1. LimiterTyped' /\ TimesInOrder'
    BY DEF LimiterTyped, LimiterTypeOK, TimesInOrder
  <2>2. PassesNumbered' /\ ToldToWait' /\ WindowsCounted'
    BY DEF PassesNumbered, ToldToWait, WindowsCounted, PassedIn, Passes,
           Never
  <2>3. PeriodsBounded' /\ OpenPeriodsBounded'
    BY DEF PeriodsBounded, OpenPeriodsBounded, InPeriod, Lapses, Allowance,
           PassedIn, Passes
  <2>. QED
    BY <2>1, <2>2, <2>3
<1>2. CASE Tick
  BY <1>2, TickKeeps
<1>3. CASE \E h \in Requests : Allow(h) \/ \E b \in Buckets : Ask(h, b)
  BY <1>3, AllowKeeps, AskKeeps
<1>. QED
  BY <1>1, <1>2, <1>3 DEF LimiterNext

\* The limiter's tables and records have their types, the table is never larger than
\* maxEntries (Allow), and every period keeps its account.
THEOREM LimiterInvariant ==
  LimiterSpec => []LimiterInv
<1>. QED
  BY LimiterStarts, LimiterSteps, PTL DEF LimiterSpec

\* No period as long as a window sees more requests of a bucket let through than two
\* windows allow, less one, and a window's worth for each time the table was emptied and
\* for each request that was judged after one with a later time (Allow).
THEOREM PassesAreBounded ==
  LimiterSpec => []PassesBounded
<1>1. ASSUME LimiterInv PROVE PassesBounded
  <2>1. wiped \in Nat /\ late \in Nat /\ Time \subseteq Int
    BY <1>1 DEF LimiterInv, LimiterTyped, LimiterTypeOK, Time
  <2>2. 2 + wiped + late = wiped + late + 2
    BY <2>1
  <2>. QED
    BY <1>1, <2>1, <2>2 DEF LimiterInv, PeriodsBounded, InPeriod, Lapses, Allowance,
                            PassesBounded
<1>. QED
  BY <1>1, LimiterInvariant, PTL

LEMMA RefusalIsJustified ==
  ASSUME LimiterInv, NEW h \in Requests,
         [LimiterNext]_limiterVars, Refused(h)
  PROVE  /\ PassedIn(bucket[h], asked[h] - window + 1, clock) + late >= limit
         /\ retry[bucket[h]] = Never \/ asked[h] < retry[bucket[h]]
<1>1. LimiterTyped /\ TimesInOrder /\ PassesNumbered /\ WindowsCounted /\ ToldToWait
  BY DEF LimiterInv
<1>2. Allow(h)
  <2>1. asked[h] # Never /\ asked'[h] = Never
    BY DEF Refused
  <2>2. ~UNCHANGED limiterVars /\ ~Tick
    BY <2>1 DEF limiterVars, Tick
  <2>3. \A g \in Requests, b \in Buckets : ~Ask(g, b)
    BY <1>1, <2>1 DEF Ask, LimiterTyped, LimiterTypeOK, Time, Never
  <2>4. \A g \in Requests : Allow(g) => g = h
    BY <1>1, <2>1 DEF Allow, LimiterTyped, LimiterTypeOK
  <2>. QED
    BY <2>2, <2>3, <2>4 DEF LimiterNext
<1>3. PICK b \in Buckets, now \in Time : b = bucket[h] /\ now = asked[h] /\ Judges(b, now)
  BY <1>1, <1>2, AllowJudges
<1>4. Refuse(b, now, TableAt(now), EntryAt(b, now))
  <2>1. ~Pass(b, now, TableAt(now), EntryAt(b, now))
    BY <1>1, <1>3, PassCounts DEF Refused
  <2>. QED
    BY <1>3, <2>1 DEF Judges
<1>5. /\ b \in DOMAIN entries /\ ~Over(b, now)
      /\ entries[b] \in rateWindow /\ entries[b].count >= limit
  <2>1. ~Spent([start |-> now, count |-> 0])
    BY LimiterAssumption DEF Spent
  <2>2. Spent(EntryAt(b, now))
    BY <1>4 DEF Refuse
  <2>. QED
    BY <1>1, <2>1, <2>2, EntryOf DEF Spent
<1>6. entries[b].start \in Int /\ entries[b].count \in Int /\ clock \in Int /\ now \in Int
      /\ window \in Nat /\ limit \in Nat /\ late \in Nat
  BY <1>1, <1>5, LimiterAssumption DEF rateWindow, Time, LimiterTyped, LimiterTypeOK
<1>7. now < entries[b].start + window
  BY <1>5, <1>6 DEF Over
<1>8. PassedIn(b, entries[b].start, clock) <= PassedIn(b, now - window + 1, clock)
  <2>1. \A x \in Passes(b, entries[b].start, clock) : x.time \in entries[b].start .. clock
    BY DEF Passes
  <2>2. \A x \in Passes(b, entries[b].start, clock) :
          now - window + 1 <= x.time /\ x.time <= clock
    BY <1>6, <1>7, <2>1
  <2>3. now - window + 1 \in Int
    BY <1>6
  <2>. QED
    BY <1>1, <1>6, <2>2, <2>3, LongerSeesMore DEF PassesNumbered
<1>9. PassedIn(b, now - window + 1, clock) + late >= limit
  <2>1. PassedIn(b, entries[b].start, clock) \in Nat
        /\ PassedIn(b, now - window + 1, clock) \in Nat
    BY <1>1, CountsOf DEF PassesNumbered
  <2>2. entries[b].count <= PassedIn(b, entries[b].start, clock) + late
    BY <1>1, <1>5 DEF WindowsCounted
  <2>. QED
    BY <1>5, <1>6, <1>8, <2>1, <2>2
<1>10. retry[b] = Never \/ now < retry[b]
  <2>1. retry[b] # Never => retry[b] \in Int /\ retry[b] >= entries[b].start + window
    BY <1>1, <1>5 DEF ToldToWait, LimiterTyped, LimiterTypeOK
  <2>. QED
    BY <1>6, <1>7, <2>1
<1>. QED
  BY <1>3, <1>9, <1>10

\* A request is refused (Allow) only when its bucket used up its limit within a window's
\* length, counting those judged late, and never when the client comes back as Retry-After
\* told it to, unless another request of its bucket passed meanwhile.
THEOREM RefusalsAreJustified ==
  LimiterSpec => RefusalsJustified
<1>1. LimiterInv /\ [LimiterNext]_limiterVars =>
        [\A h \in Requests : Refused(h) =>
           /\ PassedIn(bucket[h], asked[h] - window + 1, clock) + late >= limit
           /\ retry[bucket[h]] = Never \/ asked[h] < retry[bucket[h]]]_limiterVars
  BY RefusalIsJustified
<1>. QED
  BY <1>1, LimiterInvariant, PTL DEF LimiterSpec, RefusalsJustified
=============================================================================
