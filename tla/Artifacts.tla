------------------------------- MODULE Artifacts -------------------------------
(***************************************************************************)
(* Source maps (sourcemap.go, blob.go): requests of the API upload and      *)
(* delete them, symbolication of Events looks them up.  Each process keeps  *)
(* the maps it has parsed in a cache of its own; the blob store and the     *)
(* table sentryx_artifacts are shared.                                      *)
(*                                                                          *)
(* The INSERT of Upload is not valid SQL (`NULLIF($7, )`, sourcemap.go:84   *)
(* and 91) and its error is dropped, so the table only ever holds rows that *)
(* versions before the column debug_id have written.                        *)
(*                                                                          *)
(* One project and one release.  A map is the number of its upload; the     *)
(* maps of former versions are number 0.                                    *)
(***************************************************************************)
EXTENDS Integers, Sequences, FiniteSets, SequencesExt, FiniteSetsExt

CONSTANTS
  Processes,    \* server processes, of any role
  Handlers,     \* handlers of API requests
  Workers,      \* workers, which process Events
  Home,         \* the process of each
  Dists,        \* values of dist, NoDist among them
  NoDist,
  Names,        \* normalized file names
  Base,         \* path.Base of each name
  DebugIds,
  NoDebugId,
  DebugIdOf,    \* the debug ID inside each map
  Covers,       \* the maps that have a mapping for the position looked up
  HasBlob,      \* a blob store is configured: SENTRYX_BLOB_BACKEND is file or s3
  OldRows,      \* where former versions left a row with a source_map
  OldBlobs,     \* where former versions left a row with a blob_key
  Places,       \* where clients upload to and delete from
  Wanted,       \* the coordinates of the frames of Events
  MaxUploads,   \* bounds on what happens
  MaxDeletes,
  MaxLookups,
  MaxFaults

Threads == Handlers \cup Workers
Coordinates == [dist : Dists, name : Names]
Maps == 0 .. MaxUploads
None == -1

ASSUME ArtifactsAssumption ==
  /\ Home \in [Threads -> Processes] /\ Handlers \cap Workers = {}
  /\ NoDist \in Dists /\ NoDebugId \notin DebugIds
  /\ Base \in [Names -> Names] /\ \A n \in Names : Base[Base[n]] = Base[n]
  /\ MaxUploads \in Nat /\ MaxDeletes \in Nat /\ MaxLookups \in Nat /\ MaxFaults \in Nat
  /\ DebugIdOf \in [Maps -> DebugIds \cup {NoDebugId}] /\ Covers \subseteq Maps
  /\ HasBlob \in BOOLEAN /\ Places \cup Wanted \subseteq Coordinates
  /\ OldRows \subseteq Coordinates /\ OldBlobs \subseteq Coordinates
  /\ OldRows \cap OldBlobs = {} /\ (OldBlobs # {} => HasBlob)

VARIABLES
  cached,   \* the maps of each process: ArtifactStore.artifacts
  blob,     \* the blob store
  rows,     \* sentryx_artifacts
  op,       \* what each thread is doing
  count,    \* how much has happened of what is bounded
  \* what happened, for the properties
  origin,   \* the coordinates each map was uploaded to
  mine,     \* the latest map each process has acknowledged at each place, if not deleted
  spoilt    \* places of each process where threads have met or reads have failed

vars == <<cached, blob, rows, op, count, origin, mine, spoilt>>

----------------------------------------------------------------------------

Near(dist, n) ==
  IF dist = NoDist THEN <<[dist |-> NoDist, name |-> n]>>
  ELSE <<[dist |-> dist, name |-> n], [dist |-> NoDist, name |-> n]>>

\* Broken on purpose, as UploadedOnce, KeptWithoutDist and AfterMissing below: the
\* variants the checks must refute.
BaseNameFirst(c) ==
  (IF Base[c.name] = c.name THEN <<>> ELSE Near(c.dist, Base[c.name])) \o Near(c.dist, c.name)

\* artifactCandidates: the exact place, then without dist, then both of them
\* for the base name.
Candidates(c) ==
  Near(c.dist, c.name) \o IF Base[c.name] = c.name THEN <<>> ELSE Near(c.dist, Base[c.name])

Acknowledged == [k \in Coordinates |-> Max({mine[p][k] : p \in Processes})]

Idle == [pc |-> "idle"]

\* What a lookup carries: what it asks for, how far it is, the map it has found
\* and where, whether a read has failed, and what was acknowledged as it began.
lookup == [pc : {"names", "blobs", "rows", "keep", "done"},
           want : Coordinates, id : DebugIds \cup {NoDebugId}, at : 1 .. 5,
           found : Maps \cup {None}, key : Coordinates, from : {"none", "cache", "blob", "row"},
           failed : BOOLEAN, known : [Coordinates -> Maps \cup {None}]]

\* The maps that were uploaded to k, by this version or former ones.
Here(k) == {None} \cup {m \in DOMAIN origin : origin[m] = k}
           \cup IF k \in OldRows \cup OldBlobs THEN {0} ELSE {}

TypeOK ==
  /\ cached \in [Processes -> [Coordinates -> Maps \cup {None}]]
  /\ blob \in [Coordinates -> Maps \cup {None}]
  /\ rows \in [Coordinates -> {"none", "source_map", "blob_key"}]
  /\ \A t \in Threads :
       \/ op[t] = Idle
       \/ /\ t \in Handlers
          /\ op[t] \in [pc : {"stored"}, key : Coordinates, map : Maps]
                       \cup [pc : {"evicted"}, key : Coordinates]
       \/ t \in Workers /\ op[t] \in lookup
  /\ count \in [uploads : 0 .. MaxUploads, deletes : 0 .. MaxDeletes,
                lookups : 0 .. MaxLookups, faults : 0 .. MaxFaults]
  /\ origin \in [1 .. count.uploads -> Coordinates]
  /\ mine \in [Processes -> [Coordinates -> Maps \cup {None}]]
  /\ spoilt \in [Processes -> SUBSET Coordinates]
  \* A map is only ever stored or cached where it was uploaded.
  /\ \A k \in Coordinates : blob[k] \in Here(k) /\ \A p \in Processes : cached[p][k] \in Here(k)
  \* Only a blob store that is configured has blobs.
  /\ HasBlob \/ \A k \in Coordinates : blob[k] = None

Init ==
  /\ cached = [p \in Processes |-> [k \in Coordinates |-> None]]
  /\ blob = [k \in Coordinates |-> IF k \in OldBlobs THEN 0 ELSE None]
  /\ rows = [k \in Coordinates |-> IF k \in OldRows THEN "source_map"
                                   ELSE IF k \in OldBlobs THEN "blob_key" ELSE "none"]
  /\ op = [t \in Threads |-> Idle]
  /\ count = [uploads |-> 0, deletes |-> 0, lookups |-> 0, faults |-> 0]
  /\ origin = <<>>
  /\ mine = [p \in Processes |-> [k \in Coordinates |-> None]]
  /\ spoilt = [p \in Processes |-> {}]

----------------------------------------------------------------------------
(* Uploads and deletions. *)

Fault == /\ count.faults < MaxFaults
         /\ count' = [count EXCEPT !.faults = @ + 1]

\* A body that parses is written to the blob store, if there is one.
StoreBlob(t, k) ==
  LET n == count.uploads + 1 IN
  /\ op[t] = Idle /\ n <= MaxUploads
  /\ count' = [count EXCEPT !.uploads = n]
  /\ origin' = Append(origin, k)
  /\ blob' = IF HasBlob THEN [blob EXCEPT ![k] = n] ELSE blob
  /\ op' = [op EXCEPT ![t] = [pc |-> "stored", key |-> k, map |-> n]]
  /\ UNCHANGED <<cached, rows, mine, spoilt>>

\* The store took the body but its answer was an error: the upload is refused.
RefuseUpload(t, k) ==
  LET n == count.uploads + 1 IN
  /\ op[t] = Idle /\ HasBlob /\ n <= MaxUploads /\ count.faults < MaxFaults
  /\ count' = [count EXCEPT !.uploads = n, !.faults = @ + 1]
  /\ origin' = Append(origin, k)
  /\ blob' = [blob EXCEPT ![k] = n]
  /\ UNCHANGED <<cached, rows, op, mine, spoilt>>

\* Another thread of the process is uploading to k or reading what is there.
Meeting(t, k) ==
  \E u \in Threads \ {t} :
    /\ Home[u] = Home[t]
    /\ \/ op[u].pc \in {"stored", "keep"} /\ op[u].key = k
       \/ op[u].pc \in {"blobs", "rows"} /\ k \in ToSet(Candidates(op[u].want))

UploadedOnce(p, k, map) == [cached EXCEPT ![p][k] = IF @ = None THEN map ELSE @]
Uploaded(p, k, map) == [cached EXCEPT ![p][k] = map]

\* The map is cached, the INSERT fails unnoticed and the client is answered 200.
CacheUpload(t) ==
  LET p == Home[t] IN
  /\ op[t].pc = "stored"
  /\ cached' = Uploaded(p, op[t].key, op[t].map)
  /\ mine' = [mine EXCEPT ![p][op[t].key] = Max({@, op[t].map})]
  /\ spoilt' = IF Meeting(t, op[t].key)
              THEN [spoilt EXCEPT ![p] = @ \cup {op[t].key}] ELSE spoilt
  /\ op' = [op EXCEPT ![t] = Idle]
  /\ UNCHANGED <<blob, rows, count, origin>>

\* Delete forgets every candidate of the place it is asked to delete (from here
\* on nothing is promised of what was uploaded there) ...
Evict(t, k) ==
  /\ op[t] = Idle /\ count.deletes < MaxDeletes
  /\ count' = [count EXCEPT !.deletes = @ + 1]
  /\ cached' = [cached EXCEPT ![Home[t]] =
                  [c \in Coordinates |-> IF c \in ToSet(Candidates(k)) THEN None ELSE @[c]]]
  /\ op' = [op EXCEPT ![t] = [pc |-> "evicted", key |-> k]]
  /\ mine' = [p \in Processes |-> [mine[p] EXCEPT ![k] = None]]
  /\ UNCHANGED <<blob, rows, origin, spoilt>>

\* ... and then the row of that place; an error is dropped, the blob stays.
DeleteRow(t) ==
  /\ op[t].pc = "evicted"
  /\ \/ /\ rows' = [rows EXCEPT ![op[t].key] = "none"]
        /\ UNCHANGED count
     \/ Fault /\ UNCHANGED rows
  /\ op' = [op EXCEPT ![t] = Idle]
  /\ UNCHANGED <<cached, blob, origin, mine, spoilt>>

----------------------------------------------------------------------------
(* Symbolication of a frame: LookupDebugID, then Lookup. *)

Begun(c, id) ==
  [pc |-> "names", want |-> c, id |-> id, at |-> 1, found |-> None, key |-> c,
   from |-> "none", failed |-> FALSE, known |-> Acknowledged]

\* The places of process p with a map of the given debug ID.
WithDebugId(p, id) ==
  {k \in Coordinates : cached[p][k] # None /\ DebugIdOf[cached[p][k]] = id}

\* LookupDebugID takes whichever cached map of that ID comes first (its query
\* finds no row, as no row has a debug ID); without a mapping Lookup follows.
BeginLookup(t, c, id) ==
  LET p == Home[t] IN
  /\ op[t] = Idle /\ count.lookups < MaxLookups
  /\ count' = [count EXCEPT !.lookups = @ + 1]
  /\ \/ /\ id # NoDebugId
        /\ \E k \in WithDebugId(p, id) :
             op' = [op EXCEPT ![t] =
                      IF cached[p][k] \in Covers
                      THEN [Begun(c, id) EXCEPT !.pc = "done", !.found = cached[p][k],
                                                !.key = k, !.from = "cache"]
                      ELSE Begun(c, id)]
     \/ /\ id = NoDebugId \/ WithDebugId(p, id) = {}
        /\ op' = [op EXCEPT ![t] = Begun(c, id)]
  /\ UNCHANGED <<cached, blob, rows, origin, mine, spoilt>>

\* The first candidate that is cached answers.
ReadCache(t) ==
  LET seq  == Candidates(op[t].want)
      hits == {i \in DOMAIN seq : cached[Home[t]][seq[i]] # None}
  IN
  /\ op[t].pc = "names"
  /\ op' = [op EXCEPT ![t] =
              IF hits = {} THEN [@ EXCEPT !.pc = IF HasBlob THEN "blobs" ELSE "rows"]
              ELSE [@ EXCEPT !.pc = "done", !.key = seq[Min(hits)],
                             !.found = cached[Home[t]][seq[Min(hits)]], !.from = "cache"]]
  /\ UNCHANGED <<cached, blob, rows, count, origin, mine, spoilt>>

Found(t, map, from) ==
  op' = [op EXCEPT ![t] = [@ EXCEPT !.pc = "keep", !.key = Candidates(op[t].want)[op[t].at],
                                    !.found = map, !.from = from]]

AfterMissing(o, last) == [o EXCEPT !.at = 1, !.pc = IF @ = "blobs" THEN "rows" ELSE "done"]
After(o, last) ==
  [o EXCEPT !.at = IF last THEN 1 ELSE @ + 1,
            !.pc = IF ~last THEN @ ELSE IF @ = "blobs" THEN "rows" ELSE "done"]

\* The candidate at hand has no map: the next one is tried, in the end nothing is found.
NextCandidate(t, failed) ==
  LET o == op[t] IN
  op' = [op EXCEPT ![t] =
           After([o EXCEPT !.failed = @ \/ failed], o.at = Len(Candidates(o.want)))]

\* Candidates are read from the blob store, whether or not they have a row; a
\* read that fails counts as no blob.
GetBlob(t) ==
  LET k == Candidates(op[t].want)[op[t].at] IN
  /\ op[t].pc = "blobs"
  /\ \/ /\ IF blob[k] # None THEN Found(t, blob[k], "blob") ELSE NextCandidate(t, FALSE)
        /\ UNCHANGED count
     \/ Fault /\ NextCandidate(t, TRUE)
  /\ UNCHANGED <<cached, blob, rows, origin, mine, spoilt>>

\* Then the rows are read, in the same order, and the blob one names.
ReadRow(t) ==
  LET k == Candidates(op[t].want)[op[t].at] IN
  /\ op[t].pc = "rows"
  /\ \/ /\ \/ rows[k] = "none" /\ NextCandidate(t, FALSE)
           \/ rows[k] = "source_map" /\ Found(t, 0, "row")
           \/ rows[k] = "blob_key" /\ Found(t, blob[k], "row")
        /\ UNCHANGED count
     \/ Fault /\ NextCandidate(t, TRUE)
  /\ UNCHANGED <<cached, blob, rows, origin, mine, spoilt>>

KeptWithoutDist(p, k, map) == [cached EXCEPT ![p][[k EXCEPT !.dist = NoDist]] = map]
Kept(p, k, map) == [cached EXCEPT ![p][k] = map]

\* The map is cached for the candidate it was found at, over what is there.
Keep(t) ==
  /\ op[t].pc = "keep"
  /\ cached' = Kept(Home[t], op[t].key, op[t].found)
  /\ spoilt' = [spoilt EXCEPT ![Home[t]] = @ \cup IF op[t].failed THEN {op[t].key} ELSE {}]
  /\ op' = [op EXCEPT ![t].pc = "done"]
  /\ UNCHANGED <<blob, rows, count, origin, mine>>

\* The frame is mapped, or left as it is.
Return(t) ==
  /\ op[t].pc = "done"
  /\ op' = [op EXCEPT ![t] = Idle]
  /\ UNCHANGED <<cached, blob, rows, count, origin, mine, spoilt>>

----------------------------------------------------------------------------

\* A process dies and is started again.
Restart(p) ==
  /\ Fault
  /\ cached' = [cached EXCEPT ![p] = [k \in Coordinates |-> None]]
  /\ op' = [t \in Threads |-> IF Home[t] = p THEN Idle ELSE op[t]]
  /\ spoilt' = [spoilt EXCEPT ![p] = {}]
  /\ UNCHANGED <<blob, rows, origin, mine>>

Next ==
  \/ \E t \in Handlers, k \in Places : StoreBlob(t, k) \/ RefuseUpload(t, k) \/ Evict(t, k)
  \/ \E t \in Handlers : CacheUpload(t) \/ DeleteRow(t)
  \/ \E t \in Workers, c \in Wanted, id \in DebugIds \cup {NoDebugId} : BeginLookup(t, c, id)
  \/ \E t \in Workers : ReadCache(t) \/ GetBlob(t) \/ ReadRow(t) \/ Keep(t) \/ Return(t)
  \/ \E p \in Processes : Restart(p)

Spec == Init /\ [][Next]_vars

----------------------------------------------------------------------------
(* Properties. *)

\* How far a map at k is from a frame of c, in the order the design fixes: with
\* the dist before without, the full name before its base.  0 if it is none of its.
Distance(c, k) ==
  LET name == IF k.name = c.name THEN 1 ELSE 3 IN
  IF k.name \notin {c.name, Base[c.name]} \/ k.dist \notin {c.dist, NoDist} THEN 0
  ELSE IF k.dist = c.dist THEN name ELSE name + 1

Ended == {t \in Workers : op[t].pc = "done"}

\* The places a map was uploaded to.
Origins(m) == IF m = 0 THEN OldRows \cup OldBlobs ELSE {origin[m]}

\* A frame is only ever mapped by a map that was uploaded for its name and dist,
\* or that has its debug ID, whatever went through the caches in between.
ServedBelongs ==
  \A t \in Ended : op[t].found # None =>
    \/ \E k \in Origins(op[t].found) : Distance(op[t].want, k) > 0
    \/ op[t].id # NoDebugId /\ DebugIdOf[op[t].found] = op[t].id

\* An acknowledged upload is found: a lookup that begins after the answer to it,
\* in any process and after any restart, ends with some map unless a read failed.
AcknowledgedIsFound ==
  \A t \in Ended : op[t].found = None /\ ~op[t].failed =>
    \A k \in Coordinates : Distance(op[t].want, k) > 0 => op[t].known[k] = None

\* A lookup that no cache answers keeps the order: it does not pass over a
\* closer map that was acknowledged before it began, nor over a newer one at the
\* place where it ends.
ColdLookupKeepsOrder ==
  \A t \in Ended : op[t].from \in {"blob", "row"} /\ ~op[t].failed =>
    \A k \in Coordinates :
      /\ Distance(op[t].want, k) > 0
      /\ Distance(op[t].want, k) <= Distance(op[t].want, op[t].key)
      => op[t].known[k] <= IF k = op[t].key THEN op[t].found ELSE None

\* A process uses what it has acknowledged itself: its cache has no older map at
\* that place, except where another of its threads was at work as the upload ended, or
\* a lookup had to go on after a read that failed and found an old row.
OwnUploadIsUsed ==
  \A p \in Processes, k \in Coordinates :
    \/ cached[p][k] = None
    \/ cached[p][k] >= mine[p][k]
    \/ k \in spoilt[p]
=============================================================================
