--------------------------- MODULE Artifacts_proofs ---------------------------
(***************************************************************************)
(* Proofs about Artifacts, for any processes, threads, names, dists, maps   *)
(* and numbers of uploads, deletions, lookups and failures: which maps      *)
(* frames get.  The promises to clients hold with a blob store; that a      *)
(* frame only gets maps that belong to it holds without one, too.           *)
(***************************************************************************)
EXTENDS Artifacts, FiniteSetTheorems, WellFoundedInduction, SequenceTheorems, TLAPS

-----------------------------------------------------------------------------
(* The invariant.                                                          *)

\* Rows are those former versions left, and a blob one of them names stays.
OldTables == \A k \in Coordinates :
  /\ rows[k] = "source_map" => k \in OldRows
  /\ rows[k] = "blob_key" => blob[k] # None

Place(t, j) == Candidates(op[t].want)[j]
LastPlace(t) == Len(Candidates(op[t].want))

\* What a lookup has found belongs to its frame.
Belongs(t) ==
  /\ op[t].pc = "names" => op[t].at = 1
  /\ op[t].pc \in {"blobs", "rows"} => op[t].at \in 1 .. LastPlace(t)
  /\ op[t].pc \in {"names", "blobs", "rows"} => op[t].found = None /\ op[t].from = "none"
  /\ op[t].pc = "keep" => op[t].found # None
  /\ op[t].pc = "stored" => op[t].map \in Here(op[t].key)
  /\ op[t].pc \in {"keep", "done"} /\ op[t].found # None =>
       \/ op[t].found \in Here(op[t].key) /\ Distance(op[t].want, op[t].key) > 0
       \/ op[t].pc = "done" /\ op[t].id # NoDebugId /\ DebugIdOf[op[t].found] = op[t].id

\* With a blob store the newest map that was acknowledged at a place, or that a
\* lookup knows of, is there or an even newer one is.
Stored == \A k \in Coordinates :
  /\ \A p \in Processes : mine[p][k] <= blob[k]
  /\ \A t \in Threads : op[t].pc = "stored" /\ op[t].key = k => op[t].map <= blob[k]
  /\ \A t \in Threads : op[t].pc \notin {"idle", "stored", "evicted"} => op[t].known[k] <= blob[k]

\* A lookup whose reads have not failed passes over a place only if it knew of no map there.
Ordered(t) == op[t].pc # "idle" /\ ~op[t].failed =>
  /\ op[t].pc = "blobs" => \A j \in 1 .. op[t].at - 1 : op[t].known[Place(t, j)] = None
  /\ \/ op[t].pc = "rows"
     \/ op[t].pc = "done" /\ op[t].found = None
     \/ op[t].pc \in {"keep", "done"} /\ op[t].from = "row"
     => \A j \in 1 .. LastPlace(t) : op[t].known[Place(t, j)] = None
  /\ op[t].pc \in {"keep", "done"} /\ op[t].from = "blob" =>
       /\ op[t].at \in 1 .. LastPlace(t) /\ op[t].key = Place(t, op[t].at)
       /\ op[t].known[op[t].key] <= op[t].found
       /\ \A j \in 1 .. op[t].at - 1 : op[t].known[Place(t, j)] = None

\* Its process has acknowledged no map at k, or k is spoilt.
Free(t, k) == op[t].failed \/ mine[Home[t]][k] = None \/ k \in spoilt[Home[t]]

\* What a thread is about to cache is not older than what its process has acknowledged
\* there, unless the place is spoilt.
Fresh(t) ==
  /\ op[t].pc = "stored" =>
       mine[Home[t]][op[t].key] <= op[t].map \/ op[t].key \in spoilt[Home[t]]
  /\ op[t].pc = "blobs" => \A j \in 1 .. op[t].at - 1 : Free(t, Place(t, j))
  /\ op[t].pc = "rows" => \A j \in 1 .. LastPlace(t) : Free(t, Place(t, j))
  /\ op[t].pc = "keep" =>
       op[t].failed \/ mine[Home[t]][op[t].key] <= op[t].found \/ op[t].key \in spoilt[Home[t]]

Typed == TypeOK /\ DOMAIN op = Threads

\* Without a blob store, and what holds with one.
Inv == Typed /\ OldTables /\ \A t \in Threads : Belongs(t)
BlobInv == /\ Stored /\ OwnUploadIsUsed
           /\ \A t \in Workers : Ordered(t)
           /\ \A t \in Threads : Fresh(t)

-----------------------------------------------------------------------------
(* Numbers.                                                                *)

\* A finite set that is not empty has a last element in every strict total order.
LEMMA LastExists ==
  ASSUME NEW T, IsFiniteSet(T), T # {}, NEW R,
         \A i, j, k \in T : <<i, j>> \in R /\ <<j, k>> \in R => <<i, k>> \in R,
         \A i \in T : <<i, i>> \notin R,
         \A i, j \in T : i = j \/ <<i, j>> \in R \/ <<j, i>> \in R
  PROVE  \E l \in T : \A j \in T \ {l} : <<j, l>> \in R
<1>. DEFINE Later(i) == {j \in T : <<i, j>> \in R}
            Sets == {Later(i) : i \in T}
<1>1. \A i \in T : Later(i) \in FiniteSubsetsOf(T)
  <2>. SUFFICES ASSUME NEW i \in T PROVE Later(i) \in FiniteSubsetsOf(T)
    OBVIOUS
  <2>1. Later(i) \subseteq T
    OBVIOUS
  <2>2. IsFiniteSet(Later(i))
    BY <2>1, FS_Subset
  <2>. QED
    BY <2>1, <2>2 DEF FiniteSubsetsOf
<1>2. Sets \subseteq FiniteSubsetsOf(T)
  BY <1>1
<1>3. Sets # {}
  <2>1. PICK i \in T : TRUE
    OBVIOUS
  <2>2. Later(i) \in Sets
    BY <2>1
  <2>. QED
    BY <2>2
<1>4. PICK A \in Sets : \A B \in Sets : ~(<<B, A>> \in StrictSubsetOrdering(T))
  <2>1. IsWellFoundedOn(StrictSubsetOrdering(T), FiniteSubsetsOf(T))
    BY FS_StrictSubsetOrderingWellFounded
  <2>. QED
    BY <1>2, <1>3, <2>1, WFMin, Zenon
<1>5. PICK l \in T : A = Later(l)
  BY <1>4
<1>6. ASSUME NEW j \in T \ {l}, <<j, l>> \notin R PROVE FALSE
  <2>1. j \in Later(l) /\ j \notin Later(j)
    BY <1>6
  <2>2. Later(j) \subseteq Later(l)
    BY <2>1
  <2>3. <<Later(j), Later(l)>> \in StrictSubsetOrdering(T)
    BY <2>1, <2>2 DEF StrictSubsetOrdering
  <2>. QED
    BY <2>3, <1>4, <1>5
<1>. QED
  BY <1>6

LEMMA GreatestExists ==
  ASSUME NEW S, IsFiniteSet(S), S # {}, S \subseteq Int
  PROVE  \E m \in S : \A n \in S : m >= n
<1>. DEFINE R == {p \in S \X S : p[1] < p[2]}
<1>1. /\ \A i, j, k \in S : <<i, j>> \in R /\ <<j, k>> \in R => <<i, k>> \in R
      /\ \A i \in S : <<i, i>> \notin R
      /\ \A i, j \in S : i = j \/ <<i, j>> \in R \/ <<j, i>> \in R
  OBVIOUS
<1>2. \E m \in S : \A n \in S \ {m} : <<n, m>> \in R
  <2>. HIDE DEF R
  <2>. QED
    BY <1>1, LastExists
<1>3. PICK m \in S : \A n \in S \ {m} : <<n, m>> \in R
  BY <1>2
<1>. QED
  <2>1. \A n \in S : m = n \/ m > n
    BY <1>3
  <2>. QED
    BY <2>1

LEMMA LeastExists ==
  ASSUME NEW S, IsFiniteSet(S), S # {}, S \subseteq Int
  PROVE  \E m \in S : \A n \in S : m <= n
<1>. DEFINE R == {p \in S \X S : p[1] > p[2]}
<1>1. /\ \A i, j, k \in S : <<i, j>> \in R /\ <<j, k>> \in R => <<i, k>> \in R
      /\ \A i \in S : <<i, i>> \notin R
      /\ \A i, j \in S : i = j \/ <<i, j>> \in R \/ <<j, i>> \in R
  OBVIOUS
<1>2. \E m \in S : \A n \in S \ {m} : <<n, m>> \in R
  <2>. HIDE DEF R
  <2>. QED
    BY <1>1, LastExists
<1>3. PICK m \in S : \A n \in S \ {m} : <<n, m>> \in R
  BY <1>2
<1>. QED
  <2>1. \A n \in S : m = n \/ m < n
    BY <1>3
  <2>. QED
    BY <2>1

Values == Maps \cup {None}

LEMMA ValueFacts ==
  /\ Values \subseteq Int /\ None \in Values /\ None \in Int
  /\ \A v \in Values : v >= None /\ (v <= None => v = None) /\ v \in 0 - 1 .. MaxUploads
BY ArtifactsAssumption DEF Values, Maps, None

LEMMA MaxOfTwo ==
  ASSUME NEW m \in Values, NEW n \in Values
  PROVE  Max({m, n}) \in {m, n} /\ m <= Max({m, n}) /\ n <= Max({m, n})
BY ValueFacts DEF Max

LEMMA MaxOfValues ==
  ASSUME NEW S, S \subseteq Values, S # {}
  PROVE  Max(S) \in S
<1>1. IsFiniteSet(0 - 1 .. MaxUploads)
  BY FS_Interval, ArtifactsAssumption
<1>2. IsFiniteSet(S) /\ S \subseteq Int
  BY <1>1, ValueFacts, FS_Subset
<1>3. \E m \in S : \A n \in S : m >= n
  BY <1>2, GreatestExists
<1>. QED
  BY <1>3 DEF Max

-----------------------------------------------------------------------------
(* Candidates.                                                             *)

LEMMA ConcatPairs ==
  ASSUME NEW S, NEW a \in S, NEW b \in S, NEW c \in S, NEW d \in S, NEW s,
         s = <<a, b>> \o <<c, d>>
  PROVE  s \in Seq(S) /\ Len(s) = 4 /\ s[1] = a /\ s[2] = b /\ s[3] = c /\ s[4] = d
<1>1. <<a, b>> \in Seq(S) /\ <<c, d>> \in Seq(S) /\ Len(<<a, b>>) = 2 /\ Len(<<c, d>>) = 2
  OBVIOUS
<1>2. /\ s \in Seq(S) /\ Len(s) = 4
      /\ \A i \in 1 .. 4 : s[i] = IF i <= 2 THEN <<a, b>>[i] ELSE <<c, d>>[i - 2]
  BY <1>1, ConcatProperties
<1>. QED
  BY <1>2

LEMMA ConcatOnes ==
  ASSUME NEW S, NEW a \in S, NEW c \in S, NEW s, s = <<a>> \o <<c>>
  PROVE  s \in Seq(S) /\ Len(s) = 2 /\ s[1] = a /\ s[2] = c
<1>1. <<a>> \in Seq(S) /\ <<c>> \in Seq(S) /\ Len(<<a>>) = 1 /\ Len(<<c>>) = 1
  OBVIOUS
<1>2. /\ s \in Seq(S) /\ Len(s) = 2
      /\ \A i \in 1 .. 2 : s[i] = IF i <= 1 THEN <<a>>[i] ELSE <<c>>[i - 1]
  BY <1>1, ConcatProperties
<1>. QED
  BY <1>2

\* The candidates are the places at a distance, in the order of the distance.
LEMMA CandidateFacts ==
  ASSUME NEW c \in Coordinates
  PROVE  /\ Candidates(c) \in Seq(Coordinates) /\ Len(Candidates(c)) \in 1 .. 4
         /\ \A i \in 1 .. Len(Candidates(c)) :
              Candidates(c)[i] \in Coordinates /\ Distance(c, Candidates(c)[i]) > 0
         /\ \A i, j \in 1 .. Len(Candidates(c)) :
              i < j => Distance(c, Candidates(c)[i]) < Distance(c, Candidates(c)[j])
         /\ \A k \in Coordinates : Distance(c, k) > 0 =>
              \E i \in 1 .. Len(Candidates(c)) : Candidates(c)[i] = k
<1>. DEFINE a == [dist |-> c.dist, name |-> c.name]
            b == [dist |-> NoDist, name |-> c.name]
            d == [dist |-> c.dist, name |-> Base[c.name]]
            e == [dist |-> NoDist, name |-> Base[c.name]]
<1>1. /\ c.dist \in Dists /\ c.name \in Names /\ Base[c.name] \in Names /\ NoDist \in Dists
      /\ a \in Coordinates /\ b \in Coordinates /\ d \in Coordinates /\ e \in Coordinates
  BY ArtifactsAssumption DEF Coordinates
<1>2. \A k \in Coordinates : k.dist \in Dists /\ k.name \in Names /\ k = [dist |-> k.dist, name |-> k.name]
  BY DEF Coordinates
<1>3. CASE c.dist = NoDist /\ Base[c.name] = c.name
  <2>1. Candidates(c) \in Seq(Coordinates) /\ Len(Candidates(c)) = 1 /\ Candidates(c)[1] = b
    <3>1. Candidates(c) = <<b>> \o <<>>
      BY <1>3 DEF Candidates, Near
    <3>2. <<b>> \in Seq(Coordinates)
      BY <1>1
    <3>. QED
      BY <3>1, <3>2, ConcatEmptySeq
  <2>2. \A k \in Coordinates : Distance(c, k) > 0 => k = b
    BY <1>2, <1>3 DEF Distance
  <2>3. Distance(c, b) = 1
    BY <1>3 DEF Distance
  <2>. QED
    BY <1>1, <2>1, <2>2, <2>3
<1>4. CASE c.dist = NoDist /\ Base[c.name] # c.name
  <2>1. /\ Candidates(c) \in Seq(Coordinates) /\ Len(Candidates(c)) = 2
        /\ Candidates(c)[1] = b /\ Candidates(c)[2] = e
    <3>1. Candidates(c) = <<b>> \o <<e>>
      BY <1>4 DEF Candidates, Near
    <3>. QED
      BY <1>1, <3>1, ConcatOnes
  <2>2. \A k \in Coordinates : Distance(c, k) > 0 => k = b \/ k = e
    BY <1>2, <1>4 DEF Distance
  <2>3. Distance(c, b) = 1 /\ Distance(c, e) = 3
    BY <1>4 DEF Distance
  <2>. QED
    BY <1>1, <2>1, <2>2, <2>3
<1>5. CASE c.dist # NoDist /\ Base[c.name] = c.name
  <2>1. /\ Candidates(c) \in Seq(Coordinates) /\ Len(Candidates(c)) = 2
        /\ Candidates(c)[1] = a /\ Candidates(c)[2] = b
    <3>1. Candidates(c) = <<a, b>> \o <<>>
      BY <1>5 DEF Candidates, Near
    <3>2. <<a, b>> \in Seq(Coordinates)
      BY <1>1
    <3>. QED
      BY <3>1, <3>2, ConcatEmptySeq
  <2>2. \A k \in Coordinates : Distance(c, k) > 0 => k = a \/ k = b
    BY <1>2, <1>5 DEF Distance
  <2>3. Distance(c, a) = 1 /\ Distance(c, b) = 2
    BY <1>5 DEF Distance
  <2>. QED
    BY <1>1, <2>1, <2>2, <2>3
<1>6. CASE c.dist # NoDist /\ Base[c.name] # c.name
  <2>1. /\ Candidates(c) \in Seq(Coordinates) /\ Len(Candidates(c)) = 4
        /\ Candidates(c)[1] = a /\ Candidates(c)[2] = b
        /\ Candidates(c)[3] = d /\ Candidates(c)[4] = e
    <3>1. Candidates(c) = <<a, b>> \o <<d, e>>
      BY <1>6 DEF Candidates, Near
    <3>. QED
      BY <1>1, <3>1, ConcatPairs
  <2>2. \A k \in Coordinates : Distance(c, k) > 0 => k \in {a, b, d, e}
    BY <1>2, <1>6 DEF Distance
  <2>3. Distance(c, a) = 1 /\ Distance(c, b) = 2 /\ Distance(c, d) = 3 /\ Distance(c, e) = 4
    BY <1>6 DEF Distance
  <2>. QED
    BY <1>1, <2>1, <2>2, <2>3
<1>. QED
  BY <1>3, <1>4, <1>5, <1>6

-----------------------------------------------------------------------------
(* What threads do.                                                        *)

\* What a thread may carry.
Carries(t, o) ==
  \/ o = Idle
  \/ t \in Handlers /\ o \in [pc : {"stored"}, key : Coordinates, map : Maps]
                             \cup [pc : {"evicted"}, key : Coordinates]
  \/ t \in Workers /\ o \in lookup

LEMMA ThreadTypes ==
  ASSUME Typed, NEW t \in Threads
  PROVE  /\ Carries(t, op[t]) /\ Home[t] \in Processes
         /\ t \in Handlers => op[t].pc \in {"idle", "stored", "evicted"}
         /\ t \in Workers => op[t].pc \in {"idle", "names", "blobs", "rows", "keep", "done"}
         /\ op[t].pc = "idle" => op[t] = Idle
         /\ op[t].pc \in {"stored", "evicted"} => op[t].key \in Coordinates
         /\ op[t].pc = "stored" => op[t].map \in Maps
<1>1. Carries(t, op[t])
  BY DEF Typed, TypeOK, Carries
<1>2. Home[t] \in Processes /\ (t \in Handlers \/ t \in Workers) /\ ~(t \in Handlers /\ t \in Workers)
  BY ArtifactsAssumption DEF Threads
<1>3. CASE op[t] = Idle
  BY <1>1, <1>2, <1>3 DEF Idle
<1>4. CASE t \in Handlers /\ op[t] # Idle
  <2>1. op[t] \in [pc : {"stored"}, key : Coordinates, map : Maps]
                  \cup [pc : {"evicted"}, key : Coordinates]
    BY <1>1, <1>2, <1>4 DEF Carries
  <2>. QED
    BY <1>1, <1>2, <1>4, <2>1
<1>5. CASE t \in Workers /\ op[t] # Idle
  <2>1. op[t] \in lookup
    BY <1>1, <1>2, <1>5 DEF Carries
  <2>2. op[t].pc \in {"names", "blobs", "rows", "keep", "done"}
    BY <2>1 DEF lookup
  <2>. QED
    BY <1>1, <1>2, <1>5, <2>2
<1>. QED
  BY <1>2, <1>3, <1>4, <1>5

LEMMA LookupTypes ==
  ASSUME Typed, NEW t \in Threads, op[t].pc \in {"names", "blobs", "rows", "keep", "done"}
  PROVE  /\ t \in Workers /\ op[t] \in lookup
         /\ op[t].want \in Coordinates /\ op[t].id \in DebugIds \cup {NoDebugId}
         /\ op[t].at \in 1 .. 5 /\ op[t].found \in Values /\ op[t].key \in Coordinates
         /\ op[t].from \in {"none", "cache", "blob", "row"} /\ op[t].failed \in BOOLEAN
         /\ op[t].known \in [Coordinates -> Values]
<1>1. op[t] \in lookup /\ t \in Workers
  BY ThreadTypes DEF Carries, Idle, Threads
<1>. QED
  BY <1>1 DEF lookup, Values

LEMMA OpMoves ==
  ASSUME Typed, NEW t \in Threads, NEW o, op' = [op EXCEPT ![t] = o]
  PROVE  /\ DOMAIN op' = Threads /\ op'[t] = o
         /\ \A u \in Threads \ {t} : op'[u] = op[u]
BY DEF Typed

\* What is at a place or cached for it, and what numbers these are.
LEMMA TableTypes ==
  ASSUME Typed, NEW k \in Coordinates
  PROVE  /\ Here(k) \subseteq Values /\ None \in Here(k)
         /\ \A m \in Here(k) : m <= count.uploads
         /\ blob[k] \in Here(k) /\ \A p \in Processes : cached[p][k] \in Here(k)
         /\ \A p \in Processes : mine[p][k] \in Values
         /\ count.uploads \in Nat /\ count.uploads <= MaxUploads
<1>1. /\ count.uploads \in 0 .. MaxUploads /\ origin \in [1 .. count.uploads -> Coordinates]
  BY DEF Typed, TypeOK
<1>2. \A m \in 1 .. count.uploads : m \in Values /\ m <= count.uploads
  BY <1>1, ArtifactsAssumption DEF Values, Maps
<1>3. 0 \in Values /\ 0 <= count.uploads /\ None \in Values /\ None <= count.uploads
  BY <1>1, ArtifactsAssumption DEF Values, Maps, None
<1>4. \A m \in Here(k) : m \in Values /\ m <= count.uploads
  BY <1>1, <1>2, <1>3 DEF Here
<1>5. /\ blob[k] \in Here(k) /\ \A p \in Processes : cached[p][k] \in Here(k)
      /\ \A p \in Processes : mine[p][k] \in Values
  BY DEF Typed, TypeOK, Values
<1>6. None \in Here(k)
  BY DEF Here
<1>. QED
  BY <1>1, <1>4, <1>5, <1>6, ArtifactsAssumption

\* A new upload gets the next number.
LEMMA Uploads ==
  ASSUME Typed, NEW k \in Coordinates, NEW n, n = count.uploads + 1, n <= MaxUploads,
         count'.uploads = n, origin' = Append(origin, k)
  PROVE  /\ n \in Maps /\ n \in Values /\ n \in 0 .. MaxUploads
         /\ origin' \in [1 .. count'.uploads -> Coordinates]
         /\ \A c \in Coordinates : Here(c) \subseteq Here(c)'
         /\ n \in Here(k)'
<1>1. /\ count.uploads \in Nat /\ origin \in [1 .. count.uploads -> Coordinates]
  BY ArtifactsAssumption DEF Typed, TypeOK
<1>2. origin \in Seq(Coordinates)
  BY <1>1, SeqDef
<1>3. Len(origin) = count.uploads
  BY <1>1, <1>2, LenProperties
<1>4. n \in Nat \ {0}
  BY <1>1
<1>5. /\ origin' \in Seq(Coordinates) /\ Len(origin') = n
      /\ \A i \in 1 .. count.uploads : origin'[i] = origin[i]
      /\ origin'[n] = k
  BY <1>2, <1>3, AppendProperties
<1>6. origin' \in [1 .. n -> Coordinates] /\ DOMAIN origin' = 1 .. n /\ DOMAIN origin = 1 .. count.uploads
  BY <1>1, <1>5, LenProperties
<1>7. 1 .. count.uploads \subseteq 1 .. n /\ n \in 1 .. n
  BY <1>1, <1>4
<1>8. \A c \in Coordinates : Here(c) \subseteq Here(c)'
  BY <1>5, <1>6, <1>7 DEF Here
<1>9. n \in Here(k)'
  BY <1>5, <1>6, <1>7 DEF Here
<1>10. n \in Maps /\ n \in Values /\ n \in 0 .. MaxUploads
  BY <1>4, ArtifactsAssumption DEF Maps, Values
<1>. QED
  BY <1>6, <1>8, <1>9, <1>10

\* A thread that does nothing is as good as it was.
LEMMA BelongsStays ==
  ASSUME Typed, NEW t \in Threads, Belongs(t), op'[t] = op[t],
         \A c \in Coordinates : Here(c) \subseteq Here(c)'
  PROVE  Belongs(t)'
<1>1. op[t].pc = "stored" => op[t].key \in Coordinates
  BY ThreadTypes
<1>2. op[t].pc \in {"keep", "done"} => op[t].key \in Coordinates
  BY LookupTypes
<1>3. LastPlace(t)' = LastPlace(t)
  BY DEF LastPlace
<1>. QED
  BY <1>1, <1>2, <1>3 DEF Belongs

\* All that a thread needs to know of what others do.
LEMMA FreshStays ==
  ASSUME Typed, NEW t \in Threads, Belongs(t), Fresh(t), op'[t] = op[t],
         spoilt[Home[t]] \subseteq spoilt'[Home[t]],
         \A k \in Coordinates :
           \/ mine'[Home[t]][k] = mine[Home[t]][k] \/ mine'[Home[t]][k] = None
           \/ (\/ op[t].pc \in {"stored", "keep"} /\ op[t].key = k
               \/ op[t].pc \in {"blobs", "rows"} /\ k \in ToSet(Candidates(op[t].want)))
              => k \in spoilt'[Home[t]]
  PROVE  Fresh(t)'
<1>0. /\ \A j : Place(t, j)' = Place(t, j)
      /\ LastPlace(t)' = LastPlace(t)
  BY DEF Place, LastPlace
<1>1. CASE op[t].pc = "stored"
  <2>1. op[t].key \in Coordinates /\ op[t].map \in Values /\ None <= op[t].map
    BY <1>1, ThreadTypes, ValueFacts DEF Values
  <2>. QED
    BY <1>1, <2>1 DEF Fresh
<1>2. CASE op[t].pc = "keep"
  <2>1. op[t].key \in Coordinates /\ op[t].found \in Values /\ None <= op[t].found
    BY <1>2, LookupTypes, ValueFacts
  <2>. QED
    BY <1>2, <2>1 DEF Fresh
<1>3. CASE op[t].pc \in {"blobs", "rows"}
  <2>1. ASSUME NEW j \in 1 .. LastPlace(t), Free(t, Place(t, j)) PROVE Free(t, Place(t, j))'
    <3>1. op[t].want \in Coordinates
      BY <1>3, LookupTypes
    <3>2. Candidates(op[t].want) \in Seq(Coordinates) /\ Place(t, j) \in Coordinates
      BY <3>1, CandidateFacts DEF Place, LastPlace
    <3>3. j \in DOMAIN Candidates(op[t].want)
      BY <3>2, LenProperties DEF LastPlace
    <3>4. Place(t, j) \in ToSet(Candidates(op[t].want))
      BY <3>3 DEF Place, ToSet
    <3>5. Free(t, Place(t, j))' <=> op[t].failed \/ mine'[Home[t]][Place(t, j)] = None
                                    \/ Place(t, j) \in spoilt'[Home[t]]
      BY <1>0 DEF Free
    <3>. QED
      BY <1>3, <2>1, <3>2, <3>4, <3>5 DEF Free
  <2>2. op[t].at \in Int /\ LastPlace(t) \in Int /\ op[t].at - 1 <= LastPlace(t)
    <3>1. op[t].want \in Coordinates
      BY <1>3, LookupTypes
    <3>2. LastPlace(t) \in 1 .. 4 /\ op[t].at \in 1 .. LastPlace(t)
      BY <1>3, <3>1, CandidateFacts DEF Belongs, LastPlace
    <3>. QED
      BY <3>2
  <2>3. 1 .. op[t].at - 1 \subseteq 1 .. LastPlace(t)
    BY <2>2
  <2>. QED
    BY <1>0, <1>3, <2>1, <2>3 DEF Fresh
<1>4. CASE op[t].pc \notin {"stored", "keep", "blobs", "rows"}
  BY <1>4 DEF Fresh
<1>. QED
  BY <1>1, <1>2, <1>3, <1>4

\* What a lookup found does not depend on anything that happens later.
LEMMA OrderedStays ==
  ASSUME NEW t, Ordered(t), op'[t] = op[t] PROVE Ordered(t)'
BY DEF Ordered, Place, LastPlace

-----------------------------------------------------------------------------
(* Lookups.                                                                *)

Counts == [uploads : 0 .. MaxUploads, deletes : 0 .. MaxDeletes,
           lookups : 0 .. MaxLookups, faults : 0 .. MaxFaults]

LEMMA FaultCounts ==
  ASSUME Typed, Fault
  PROVE  count' \in Counts /\ count'.uploads = count.uploads
<1>1. count \in Counts
  BY DEF Typed, TypeOK, Counts
<1>2. count.faults + 1 \in 0 .. MaxFaults
  BY <1>1, ArtifactsAssumption DEF Fault, Counts
<1>. QED
  BY <1>1, <1>2 DEF Fault, Counts

LEMMA SameCounts ==
  ASSUME Typed, UNCHANGED count PROVE count' \in Counts /\ count'.uploads = count.uploads
BY DEF Typed, TypeOK, Counts

\* Types, where no map is uploaded.
LEMMA TypesStay ==
  ASSUME Typed, UNCHANGED <<blob, origin>>,
         count' \in Counts, count'.uploads = count.uploads,
         cached' \in [Processes -> [Coordinates -> Values]],
         \A p \in Processes, k \in Coordinates : cached'[p][k] \in Here(k),
         rows' \in [Coordinates -> {"none", "source_map", "blob_key"}],
         mine' \in [Processes -> [Coordinates -> Values]],
         spoilt' \in [Processes -> SUBSET Coordinates],
         DOMAIN op' = Threads, \A t \in Threads : Carries(t, op'[t])
  PROVE  Typed' /\ \A k \in Coordinates : Here(k)' = Here(k)
<1>1. \A k \in Coordinates : Here(k)' = Here(k)
  BY DEF Here
<1>2. \A t \in Threads :
         \/ op'[t] = Idle
         \/ /\ t \in Handlers
            /\ op'[t] \in [pc : {"stored"}, key : Coordinates, map : Maps]
                         \cup [pc : {"evicted"}, key : Coordinates]
         \/ t \in Workers /\ op'[t] \in lookup
  BY DEF Carries
<1>3. TypeOK'
  BY <1>1, <1>2 DEF Typed, TypeOK, Counts, Values
<1>. QED
  BY <1>1, <1>3 DEF Typed

\* A worker goes on with its lookup and the stores stay as they are.
LEMMA WorkerMoves ==
  ASSUME Inv, NEW t \in Workers, NEW o, o = Idle \/ o \in lookup,
         op' = [op EXCEPT ![t] = o],
         UNCHANGED <<cached, blob, rows, origin, mine, spoilt>>,
         count' \in Counts, count'.uploads = count.uploads,
         Belongs(t)'
  PROVE  Inv'
<1>1. Typed /\ OldTables /\ \A u \in Threads : Belongs(u)
  BY DEF Inv
<1>2. /\ t \in Threads /\ DOMAIN op' = Threads /\ op'[t] = o
      /\ \A u \in Threads \ {t} : op'[u] = op[u]
  BY <1>1, OpMoves DEF Threads
<1>3. \A u \in Threads : Carries(u, op'[u])
  BY <1>1, <1>2, ThreadTypes DEF Carries
<1>4. Typed' /\ \A k \in Coordinates : Here(k)' = Here(k)
  <2>1. /\ cached \in [Processes -> [Coordinates -> Values]]
        /\ rows \in [Coordinates -> {"none", "source_map", "blob_key"}]
        /\ mine \in [Processes -> [Coordinates -> Values]]
        /\ spoilt \in [Processes -> SUBSET Coordinates]
    BY <1>1 DEF Typed, TypeOK, Values
  <2>. QED
    BY <1>1, <1>2, <1>3, <2>1, TableTypes, TypesStay
<1>5. OldTables'
  BY <1>1 DEF OldTables
<1>6. ASSUME NEW u \in Threads \ {t} PROVE Belongs(u)'
  BY <1>1, <1>2, <1>4, BelongsStays
<1>. QED
  BY <1>4, <1>5, <1>6 DEF Inv

LEMMA WorkerKeeps ==
  ASSUME Inv, BlobInv, NEW t \in Workers, NEW o,
         op' = [op EXCEPT ![t] = o],
         UNCHANGED <<cached, blob, mine, spoilt>>,
         o.pc \notin {"stored", "evicted"},
         o.pc # "idle" => \A k \in Coordinates : o.known[k] <= blob[k],
         Ordered(t)', Fresh(t)'
  PROVE  BlobInv'
<1>1. /\ Typed /\ (\A u \in Threads : Belongs(u)) /\ Stored /\ OwnUploadIsUsed
      /\ (\A u \in Workers : Ordered(u)) /\ (\A u \in Threads : Fresh(u))
  BY DEF Inv, BlobInv
<1>2. /\ t \in Threads /\ op'[t] = o /\ \A u \in Threads \ {t} : op'[u] = op[u]
  BY <1>1, OpMoves DEF Threads
<1>3. Stored'
  BY <1>1, <1>2 DEF Stored
<1>4. OwnUploadIsUsed'
  BY <1>1 DEF OwnUploadIsUsed
<1>5. ASSUME NEW u \in Workers \ {t} PROVE Ordered(u)'
  BY <1>1, <1>2, OrderedStays DEF Threads
<1>6. ASSUME NEW u \in Threads \ {t} PROVE Fresh(u)'
  BY <1>1, <1>2, FreshStays
<1>. QED
  BY <1>3, <1>4, <1>5, <1>6 DEF BlobInv

LEMMA KnownIsStored ==
  ASSUME Typed, Stored, NEW t \in Threads, op[t].pc \in {"names", "blobs", "rows", "keep", "done"}
  PROVE  \A k \in Coordinates : op[t].known[k] <= blob[k]
BY DEF Stored

\* What has been acknowledged as a lookup begins.
LEMMA AcknowledgedFacts ==
  ASSUME Typed, Processes # {}
  PROVE  /\ Acknowledged \in [Coordinates -> Values]
         /\ Stored => \A k \in Coordinates : Acknowledged[k] <= blob[k]
<1>. SUFFICES ASSUME NEW k \in Coordinates
              PROVE  /\ Max({mine[p][k] : p \in Processes}) \in Values
                     /\ Stored => Max({mine[p][k] : p \in Processes}) <= blob[k]
  BY DEF Acknowledged
<1>1. {mine[p][k] : p \in Processes} \subseteq Values /\ {mine[p][k] : p \in Processes} # {}
  BY TableTypes
<1>2. Max({mine[p][k] : p \in Processes}) \in {mine[p][k] : p \in Processes}
  BY <1>1, MaxOfValues
<1>. QED
  BY <1>1, <1>2 DEF Stored

LEMMA StepBegin ==
  ASSUME Inv, NEW t \in Workers, NEW c \in Wanted, NEW id \in DebugIds \cup {NoDebugId},
         BeginLookup(t, c, id)
  PROVE  Inv' /\ (BlobInv => BlobInv')
<1>1. Typed /\ t \in Threads /\ Home[t] \in Processes /\ c \in Coordinates
  BY ThreadTypes, ArtifactsAssumption DEF Inv, Threads
<1>2. Acknowledged \in [Coordinates -> Values]
      /\ (Stored => \A k \in Coordinates : Acknowledged[k] <= blob[k])
  BY <1>1, AcknowledgedFacts
<1>3. count' \in Counts /\ count'.uploads = count.uploads
  <2>1. count \in Counts
    BY <1>1 DEF Typed, TypeOK, Counts
  <2>2. count.lookups < MaxLookups /\ count' = [count EXCEPT !.lookups = @ + 1]
    BY DEF BeginLookup
  <2>3. count.lookups + 1 \in 0 .. MaxLookups
    BY <2>1, <2>2, ArtifactsAssumption DEF Counts
  <2>. QED
    BY <2>1, <2>2, <2>3 DEF Counts
<1>4. Begun(c, id) \in lookup
  BY <1>1, <1>2, ValueFacts DEF Begun, lookup, Values
<1>5. UNCHANGED <<cached, blob, rows, origin, mine, spoilt>>
  BY DEF BeginLookup
<1>6. CASE op' = [op EXCEPT ![t] = Begun(c, id)]
  <2>1. op'[t] = Begun(c, id)
    BY <1>1, <1>6, OpMoves
  <2>2. /\ op'[t].pc = "names" /\ op'[t].known = Acknowledged
        /\ op'[t].at = 1 /\ op'[t].found = None /\ op'[t].from = "none"
    BY <2>1 DEF Begun
  <2>3. Belongs(t)' /\ Ordered(t)' /\ Fresh(t)'
    BY <2>2 DEF Belongs, Ordered, Fresh
  <2>4. Inv'
    BY <1>3, <1>4, <1>5, <1>6, <2>3, WorkerMoves
  <2>5. BlobInv => BlobInv'
    BY <1>2, <1>5, <1>6, <2>1, <2>2, <2>3, WorkerKeeps DEF BlobInv
  <2>. QED
    BY <2>4, <2>5
<1>7. ASSUME id # NoDebugId, NEW k \in WithDebugId(Home[t], id),
             op' = [op EXCEPT ![t] = [Begun(c, id) EXCEPT !.pc = "done",
                      !.found = cached[Home[t]][k], !.key = k, !.from = "cache"]]
      PROVE  Inv' /\ (BlobInv => BlobInv')
  <2>. DEFINE o == [Begun(c, id) EXCEPT !.pc = "done",
                      !.found = cached[Home[t]][k], !.key = k, !.from = "cache"]
  <2>1. k \in Coordinates /\ cached[Home[t]][k] # None /\ DebugIdOf[cached[Home[t]][k]] = id
    BY DEF WithDebugId
  <2>2. cached[Home[t]][k] \in Values
    BY <1>1, <2>1, TableTypes
  <2>3. /\ o.pc = "done" /\ o.found = cached[Home[t]][k] /\ o.key = k /\ o.from = "cache"
        /\ o.id = id /\ o.known = Acknowledged
    BY DEF Begun
  <2>4. o \in lookup
    BY <1>4, <2>1, <2>2 DEF lookup, Values
  <2>5. op'[t] = o
    BY <1>1, <1>7, OpMoves
  <2>6. Belongs(t)' /\ Ordered(t)' /\ Fresh(t)'
    BY <1>7, <2>1, <2>3, <2>5 DEF Belongs, Ordered, Fresh
  <2>. HIDE DEF o
  <2>7. Inv'
    BY <1>3, <1>5, <1>7, <2>4, <2>6, WorkerMoves DEF o
  <2>8. BlobInv => BlobInv'
    <3>1. op' = [op EXCEPT ![t] = o]
      BY <1>7 DEF o
    <3>. QED
      BY <1>2, <1>5, <2>3, <2>5, <2>6, <3>1, WorkerKeeps DEF BlobInv
  <2>. QED
    BY <2>7, <2>8
<1>. QED
  BY <1>6, <1>7 DEF BeginLookup

LEMMA StepReturn ==
  ASSUME Inv, NEW t \in Workers, Return(t)
  PROVE  Inv' /\ (BlobInv => BlobInv')
<1>1. Typed /\ t \in Threads
  BY DEF Inv, Threads
<1>2. op' = [op EXCEPT ![t] = Idle] /\ UNCHANGED <<cached, blob, rows, count, origin, mine, spoilt>>
  BY DEF Return
<1>3. op'[t].pc = "idle"
  BY <1>1, <1>2, OpMoves DEF Idle
<1>4. Belongs(t)' /\ Ordered(t)' /\ Fresh(t)'
  BY <1>3 DEF Belongs, Ordered, Fresh
<1>5. Inv'
  BY <1>1, <1>2, <1>4, SameCounts, WorkerMoves
<1>6. Idle.pc = "idle"
  BY DEF Idle
<1>7. BlobInv => BlobInv'
  BY <1>2, <1>4, <1>6, WorkerKeeps
<1>. QED
  BY <1>5, <1>7

LEMMA StepReadCache ==
  ASSUME Inv, NEW t \in Workers, ReadCache(t)
  PROVE  Inv' /\ (BlobInv /\ HasBlob => BlobInv')
<1>. DEFINE seq == Candidates(op[t].want)
            hits == {i \in DOMAIN seq : cached[Home[t]][seq[i]] # None}
<1>1. Typed /\ t \in Threads /\ Home[t] \in Processes /\ op[t].pc = "names"
  BY ThreadTypes DEF Inv, Threads, ReadCache
<1>2. op[t] \in lookup /\ op[t].want \in Coordinates
  BY <1>1, LookupTypes
<1>3. /\ seq \in Seq(Coordinates) /\ Len(seq) \in 1 .. 4 /\ DOMAIN seq = 1 .. Len(seq)
      /\ \A i \in 1 .. Len(seq) : seq[i] \in Coordinates /\ Distance(op[t].want, seq[i]) > 0
  BY <1>2, CandidateFacts, LenProperties
<1>4. UNCHANGED <<cached, blob, rows, count, origin, mine, spoilt>>
  BY DEF ReadCache
<1>5. count' \in Counts /\ count'.uploads = count.uploads
  BY <1>1, <1>4, SameCounts
<1>6. ASSUME hits = {} PROVE Inv' /\ (BlobInv /\ HasBlob => BlobInv')
  <2>. DEFINE o == [op[t] EXCEPT !.pc = IF HasBlob THEN "blobs" ELSE "rows"]
  <2>1. op' = [op EXCEPT ![t] = o]
    BY <1>6 DEF ReadCache
  <2>2. op'[t] = o
    BY <1>1, <2>1, OpMoves
  <2>3. /\ o.pc \in {"blobs", "rows"} /\ (HasBlob => o.pc = "blobs")
        /\ o.want = op[t].want /\ o.at = op[t].at /\ o.known = op[t].known
        /\ o.found = op[t].found /\ o.from = op[t].from
    BY <1>2 DEF lookup
  <2>4. o \in lookup
    BY <1>2 DEF lookup
  <2>. HIDE DEF o
  <2>5. op[t].at = 1 /\ op[t].found = None /\ op[t].from = "none"
    BY <1>1 DEF Inv, Belongs
  <2>6. Belongs(t)'
    <3>1. 1 \in 1 .. LastPlace(t)'
      <4>1. LastPlace(t)' = LastPlace(t)
        BY <2>2, <2>3 DEF LastPlace
      <4>2. LastPlace(t) \in 1 .. 4
        BY <1>2, CandidateFacts DEF LastPlace
      <4>. QED
        BY <4>1, <4>2
    <3>. QED
      BY <2>2, <2>3, <2>5, <3>1 DEF Belongs
  <2>7. HasBlob => Ordered(t)' /\ Fresh(t)'
    BY <2>2, <2>3, <2>5 DEF Ordered, Fresh
  <2>8. Inv'
    BY <1>4, <1>5, <2>1, <2>4, <2>6, WorkerMoves
  <2>9. BlobInv /\ HasBlob => BlobInv'
    BY <1>1, <1>4, <2>1, <2>3, <2>7, WorkerKeeps, KnownIsStored DEF BlobInv
  <2>. QED
    BY <2>8, <2>9
<1>7. ASSUME hits # {} PROVE Inv' /\ (BlobInv /\ HasBlob => BlobInv')
  <2>. DEFINE o == [op[t] EXCEPT !.pc = "done", !.key = seq[Min(hits)],
                             !.found = cached[Home[t]][seq[Min(hits)]], !.from = "cache"]
  <2>1. op' = [op EXCEPT ![t] = o]
    BY <1>7 DEF ReadCache
  <2>2. op'[t] = o
    BY <1>1, <2>1, OpMoves
  <2>3. Min(hits) \in hits
    <3>1. IsFiniteSet(1 .. Len(seq))
      BY <1>3, FS_Interval
    <3>2. IsFiniteSet(hits) /\ hits \subseteq Int
      BY <1>3, <3>1, FS_Subset
    <3>3. \E m \in hits : \A n \in hits : m <= n
      BY <1>7, <3>2, LeastExists
    <3>. QED
      BY <3>3, Zenon DEF Min
  <2>4. PICK k \in Coordinates : /\ k = seq[Min(hits)] /\ Distance(op[t].want, k) > 0
                                 /\ cached[Home[t]][k] # None
    BY <1>3, <2>3
  <2>5. cached[Home[t]][k] \in Here(k) /\ cached[Home[t]][k] \in Values
    BY <1>1, TableTypes
  <2>6. /\ o.pc = "done" /\ o.key = k /\ o.found = cached[Home[t]][k] /\ o.from = "cache"
        /\ o.want = op[t].want /\ o.known = op[t].known
    BY <1>2, <2>4 DEF lookup
  <2>7. o \in lookup
    BY <1>2, <2>4, <2>5 DEF lookup, Values
  <2>. HIDE DEF o
  <2>8. \A c : Here(c)' = Here(c)
    BY <1>4 DEF Here
  <2>9. Belongs(t)'
    BY <2>2, <2>4, <2>5, <2>6, <2>8 DEF Belongs
  <2>10. Ordered(t)' /\ Fresh(t)'
    BY <2>2, <2>4, <2>6 DEF Ordered, Fresh
  <2>11. Inv'
    BY <1>4, <1>5, <2>1, <2>7, <2>9, WorkerMoves
  <2>12. BlobInv => BlobInv'
    BY <1>1, <1>4, <2>1, <2>6, <2>10, WorkerKeeps, KnownIsStored DEF BlobInv
  <2>. QED
    BY <2>11, <2>12
<1>. QED
  BY <1>6, <1>7

\* A lookup goes on to the next candidate, the next store or its end: what it leaves
\* behind is free and, unless the read failed, unknown.
LEMMA GoesOn ==
  ASSUME Inv, NEW t \in Workers, NEW failed \in BOOLEAN, op[t].pc \in {"blobs", "rows"},
         NextCandidate(t, failed),
         UNCHANGED <<cached, blob, rows, origin, mine, spoilt>>,
         count' \in Counts, count'.uploads = count.uploads
  PROVE  /\ Inv'
         /\ (/\ BlobInv /\ HasBlob
             /\ failed \/ (/\ op[t].pc = "rows" \/ op[t].known[Place(t, op[t].at)] = None
                           /\ op[t].pc = "rows" \/ Free(t, Place(t, op[t].at))))
            => BlobInv'
<1>1. Typed /\ t \in Threads /\ Home[t] \in Processes /\ Belongs(t)
  BY ThreadTypes DEF Inv, Threads
<1>2. op[t] \in lookup /\ op[t].want \in Coordinates /\ op[t].at \in 1 .. 5 /\ op[t].failed \in BOOLEAN
  BY <1>1, LookupTypes
<1>3. LastPlace(t) \in 1 .. 4 /\ op[t].at \in 1 .. LastPlace(t)
  BY <1>1, <1>2, CandidateFacts DEF LastPlace, Belongs
<1>. DEFINE seen == [op[t] EXCEPT !.failed = @ \/ failed]
            o == After(seen, op[t].at = Len(Candidates(op[t].want)))
<1>4. op' = [op EXCEPT ![t] = o]
  BY DEF NextCandidate
<1>5. /\ seen \in lookup /\ seen.pc = op[t].pc /\ seen.want = op[t].want /\ seen.at = op[t].at
      /\ seen.known = op[t].known /\ seen.found = op[t].found /\ seen.from = op[t].from
      /\ (seen.failed <=> op[t].failed \/ failed)
  BY <1>2 DEF lookup
<1>. HIDE DEF seen
<1>6. CASE op[t].at # LastPlace(t)
  <2>1. o = [seen EXCEPT !.at = op[t].at + 1]
    BY <1>2, <1>5, <1>6 DEF After, LastPlace, lookup
  <2>2. /\ o \in lookup /\ o.pc = op[t].pc /\ o.want = op[t].want /\ o.at = op[t].at + 1
        /\ o.known = op[t].known /\ (o.failed <=> op[t].failed \/ failed)
        /\ o.found = op[t].found /\ o.from = op[t].from
    BY <1>3, <1>5, <1>6, <2>1 DEF lookup
  <2>. HIDE DEF o
  <2>3. op'[t] = o
    BY <1>1, <1>4, OpMoves
  <2>4. /\ \A j : Place(t, j)' = Place(t, j)
        /\ LastPlace(t)' = LastPlace(t)
    BY <2>2, <2>3 DEF Place, LastPlace
  <2>5. Belongs(t)'
    <3>1. op[t].at + 1 \in 1 .. LastPlace(t)
      BY <1>3, <1>6
    <3>2. op[t].found = None /\ op[t].from = "none"
      BY <1>1 DEF Belongs
    <3>. QED
      BY <2>2, <2>3, <2>4, <3>1, <3>2 DEF Belongs
  <2>6. Inv'
    BY <1>4, <2>2, <2>5, WorkerMoves
  <2>7. ASSUME BlobInv, HasBlob,
               failed \/ (/\ op[t].pc = "rows" \/ op[t].known[Place(t, op[t].at)] = None
                          /\ op[t].pc = "rows" \/ Free(t, Place(t, op[t].at)))
        PROVE  BlobInv'
    <3>1. Ordered(t) /\ Fresh(t)
      BY <1>1, <2>7 DEF BlobInv
    <3>2. \A j \in 1 .. op[t].at : j \in 1 .. op[t].at - 1 \/ j = op[t].at
      BY <1>3
    <3>3. \A j : Free(t, Place(t, j)) => Free(t, Place(t, j))'
      BY <2>2, <2>3, <2>4 DEF Free
    <3>4. op'[t].at - 1 = op[t].at
      <4>1. op'[t].at = op[t].at + 1
        BY <2>2, <2>3
      <4>2. op[t].at \in Int
        BY <1>3
      <4>. QED
        BY <4>1, <4>2
    <3>5. Ordered(t)'
      <4>1. CASE op[t].pc = "blobs"
        <5>1. op[t].failed \/ \A j \in 1 .. op[t].at - 1 : op[t].known[Place(t, j)] = None
          BY <3>1, <4>1 DEF Ordered
        <5>2. o.failed \/ \A j \in 1 .. op[t].at : op[t].known[Place(t, j)] = None
          BY <2>2, <2>7, <3>2, <4>1, <5>1
        <5>. QED
          BY <2>2, <2>3, <2>4, <3>4, <4>1, <5>2 DEF Ordered
      <4>2. CASE op[t].pc = "rows"
        BY <2>2, <2>3, <2>4, <3>1, <4>2 DEF Ordered
      <4>. QED
        BY <4>1, <4>2
    <3>6. Fresh(t)'
      <4>1. failed => \A j : Free(t, Place(t, j))'
        BY <2>2, <2>3 DEF Free
      <4>2. CASE op[t].pc = "blobs"
        <5>1. \A j \in 1 .. op[t].at - 1 : Free(t, Place(t, j))
          BY <3>1, <4>2 DEF Fresh
        <5>2. \A j \in 1 .. op[t].at : Free(t, Place(t, j))'
          BY <2>7, <3>2, <3>3, <4>1, <4>2, <5>1
        <5>. QED
          BY <2>2, <2>3, <2>4, <3>4, <4>2, <5>2 DEF Fresh
      <4>3. CASE op[t].pc = "rows"
        BY <2>2, <2>3, <2>4, <3>1, <3>3, <4>3 DEF Fresh
      <4>. QED
        BY <4>2, <4>3
    <3>7. \A k \in Coordinates : op[t].known[k] <= blob[k]
      BY <1>1, <2>7, KnownIsStored DEF BlobInv
    <3>. QED
      BY <1>4, <2>2, <2>7, <3>5, <3>6, <3>7, WorkerKeeps
  <2>. QED
    BY <2>6, <2>7
<1>7. CASE op[t].at = LastPlace(t)
  <2>0. op[t].pc = "blobs" \/ op[t].pc = "rows"
    OBVIOUS
  <2>1. o = [seen EXCEPT !.at = 1, !.pc = IF op[t].pc = "blobs" THEN "rows" ELSE "done"]
    BY <1>2, <1>5, <1>7 DEF After, LastPlace, lookup
  <2>2. /\ o \in lookup /\ o.pc = (IF op[t].pc = "blobs" THEN "rows" ELSE "done")
        /\ o.want = op[t].want /\ o.at = 1 /\ o.known = op[t].known
        /\ o.found = op[t].found /\ o.from = op[t].from
        /\ (o.failed <=> op[t].failed \/ failed)
    <3>. DEFINE pc == IF op[t].pc = "blobs" THEN "rows" ELSE "done"
    <3>1. pc \in {"names", "blobs", "rows", "keep", "done"}
      OBVIOUS
    <3>2. o = [seen EXCEPT !.at = 1, !.pc = pc]
      BY <2>1
    <3>. HIDE DEF pc, o
    <3>3. o \in lookup /\ o.pc = pc /\ o.at = 1
      <4>1. 1 \in 1 .. 5
        OBVIOUS
      <4>. QED
        BY <1>5, <3>1, <3>2, <4>1 DEF lookup
    <3>4. /\ o.want = seen.want /\ o.known = seen.known /\ o.found = seen.found
          /\ o.from = seen.from /\ o.failed = seen.failed
      BY <1>5, <3>2 DEF lookup
    <3>. QED
      BY <1>5, <3>3, <3>4 DEF pc
  <2>. HIDE DEF o
  <2>3. op'[t] = o
    BY <1>1, <1>4, OpMoves
  <2>4. /\ \A j : Place(t, j)' = Place(t, j)
        /\ LastPlace(t)' = LastPlace(t)
    BY <2>2, <2>3 DEF Place, LastPlace
  <2>5. op[t].found = None /\ op[t].from = "none"
    BY <1>1 DEF Belongs
  <2>6. Belongs(t)'
    <3>1. 1 \in 1 .. LastPlace(t)
      BY <1>3
    <3>. QED
      BY <2>0, <2>2, <2>3, <2>4, <2>5, <3>1 DEF Belongs
  <2>7. Inv'
    BY <1>4, <2>2, <2>6, WorkerMoves
  <2>8. ASSUME BlobInv, HasBlob,
               failed \/ (/\ op[t].pc = "rows" \/ op[t].known[Place(t, op[t].at)] = None
                          /\ op[t].pc = "rows" \/ Free(t, Place(t, op[t].at)))
        PROVE  BlobInv'
    <3>1. Ordered(t) /\ Fresh(t)
      BY <1>1, <2>8 DEF BlobInv
    <3>2. \A j \in 1 .. LastPlace(t) : j \in 1 .. op[t].at - 1 \/ j = op[t].at
      BY <1>3, <1>7
    <3>3. \A j : Free(t, Place(t, j)) => Free(t, Place(t, j))'
      BY <2>2, <2>3, <2>4 DEF Free
    <3>4. op[t].from # "blob"
      BY <1>1 DEF Belongs
    <3>5. Ordered(t)'
      BY <2>0, <2>2, <2>3, <2>4, <2>8, <3>1, <3>2, <3>4 DEF Ordered
    <3>6. Fresh(t)'
      <4>1. failed => \A j : Free(t, Place(t, j))'
        BY <2>2, <2>3 DEF Free
      <4>. QED
        BY <2>0, <2>2, <2>3, <2>4, <2>8, <3>1, <3>2, <3>3, <4>1 DEF Fresh
    <3>7. \A k \in Coordinates : op[t].known[k] <= blob[k]
      BY <1>1, <2>8, KnownIsStored DEF BlobInv
    <3>8. o.pc \notin {"stored", "evicted"}
      BY <2>2
    <3>. QED
      BY <1>4, <2>2, <2>8, <3>5, <3>6, <3>7, <3>8, WorkerKeeps
  <2>. QED
    BY <2>7, <2>8
<1>. QED
  BY <1>6, <1>7

\* A lookup finds a map at the candidate at hand.
LEMMA FindsMap ==
  ASSUME Inv, NEW t \in Workers, NEW map, NEW from \in {"blob", "row"},
         op[t].pc = (IF from = "blob" THEN "blobs" ELSE "rows"),
         Found(t, map, from), UNCHANGED <<cached, blob, rows, count, origin, mine, spoilt>>,
         map \in Here(Place(t, op[t].at)), map # None
  PROVE  /\ Inv'
         /\ BlobInv /\ (from = "blob" => map = blob[Place(t, op[t].at)]) => BlobInv'
<1>. DEFINE k == Place(t, op[t].at)
            o == [op[t] EXCEPT !.pc = "keep", !.key = k, !.found = map, !.from = from]
<1>1. Typed /\ t \in Threads /\ Home[t] \in Processes /\ Belongs(t)
  BY ThreadTypes DEF Inv, Threads
<1>2. /\ op[t] \in lookup /\ op[t].want \in Coordinates /\ op[t].failed \in BOOLEAN
      /\ op[t].pc \in {"blobs", "rows"}
  BY <1>1, LookupTypes
<1>3. LastPlace(t) \in 1 .. 4 /\ op[t].at \in 1 .. LastPlace(t)
  BY <1>1, <1>2, CandidateFacts DEF LastPlace, Belongs
<1>4. k \in Coordinates /\ Distance(op[t].want, k) > 0
  BY <1>2, <1>3, CandidateFacts DEF LastPlace, Place
<1>5. map \in Values /\ None <= map
  BY <1>1, <1>4, TableTypes, ValueFacts
<1>6. op' = [op EXCEPT ![t] = o]
  BY DEF Found, Place
<1>. HIDE DEF k
<1>7. /\ o \in lookup /\ o.pc = "keep" /\ o.key = k /\ o.found = map /\ o.from = from
      /\ o.want = op[t].want /\ o.at = op[t].at /\ o.known = op[t].known
      /\ o.failed = op[t].failed
  BY <1>2, <1>4, <1>5 DEF lookup, Values
<1>. HIDE DEF o
<1>8. op'[t] = o
  BY <1>1, <1>6, OpMoves
<1>9. /\ \A j : Place(t, j)' = Place(t, j)
      /\ LastPlace(t)' = LastPlace(t)
      /\ \A c : Here(c)' = Here(c)
  BY <1>7, <1>8 DEF Place, LastPlace, Here
<1>10. Belongs(t)'
  BY <1>4, <1>7, <1>8, <1>9 DEF Belongs, k
<1>11. Inv'
  BY <1>1, <1>6, <1>7, <1>10, SameCounts, WorkerMoves
<1>12. ASSUME BlobInv, from = "blob" => map = blob[k] PROVE BlobInv'
  <2>1. Ordered(t) /\ Fresh(t) /\ Stored
    BY <1>1, <1>12 DEF BlobInv
  <2>2. \A c \in Coordinates : op[t].known[c] <= blob[c]
    BY <1>1, <1>2, <2>1, KnownIsStored
  <2>3. Ordered(t)' /\ Fresh(t)'
    <3>1. CASE from = "blob"
      <4>1. Ordered(t)'
        <5>1. op[t].failed \/ \A j \in 1 .. op[t].at - 1 : op[t].known[Place(t, j)] = None
          BY <2>1, <3>1 DEF Ordered
        <5>2. op[t].known[k] <= map
          BY <1>4, <1>12, <2>2, <3>1
        <5>. QED
          BY <1>3, <1>7, <1>8, <1>9, <3>1, <5>1, <5>2 DEF Ordered, k
      <4>2. Fresh(t)'
        <5>1. mine[Home[t]][k] <= map
          BY <1>1, <1>4, <1>12, <2>1, <3>1 DEF Stored
        <5>. QED
          BY <1>7, <1>8, <5>1 DEF Fresh
      <4>. QED
        BY <4>1, <4>2
    <3>2. CASE from = "row"
      <4>1. Ordered(t)'
        <5>1. op[t].failed \/ \A j \in 1 .. LastPlace(t) : op[t].known[Place(t, j)] = None
          BY <2>1, <3>2 DEF Ordered
        <5>. QED
          BY <1>7, <1>8, <1>9, <3>2, <5>1 DEF Ordered
      <4>2. Fresh(t)'
        <5>1. op[t].failed \/ mine[Home[t]][k] = None \/ k \in spoilt[Home[t]]
          BY <1>3, <2>1, <3>2 DEF Fresh, Free, k
        <5>. QED
          BY <1>5, <1>7, <1>8, <5>1 DEF Fresh
      <4>. QED
        BY <4>1, <4>2
    <3>. QED
      BY <3>1, <3>2
  <2>. QED
    BY <1>6, <1>7, <1>12, <2>2, <2>3, WorkerKeeps
<1>. QED
  BY <1>11, <1>12 DEF k

LEMMA StepGetBlob ==
  ASSUME Inv, NEW t \in Workers, GetBlob(t)
  PROVE  Inv' /\ (BlobInv /\ HasBlob => BlobInv')
<1>. DEFINE k == Place(t, op[t].at)
<1>1. Typed /\ t \in Threads /\ Home[t] \in Processes /\ Belongs(t) /\ op[t].pc = "blobs"
  BY ThreadTypes DEF Inv, Threads, GetBlob
<1>2. UNCHANGED <<cached, blob, rows, origin, mine, spoilt>>
  BY DEF GetBlob
<1>3. op[t].want \in Coordinates /\ op[t].at \in 1 .. LastPlace(t)
  BY <1>1, LookupTypes DEF Belongs
<1>4. k \in Coordinates
  BY <1>3, CandidateFacts DEF Place, LastPlace
<1>5. blob[k] \in Here(k)
  BY <1>1, <1>4, TableTypes
<1>6. CASE blob[k] # None /\ Found(t, blob[k], "blob") /\ UNCHANGED count
  BY <1>1, <1>2, <1>5, <1>6, FindsMap
<1>7. CASE blob[k] = None /\ NextCandidate(t, FALSE) /\ UNCHANGED count
  <2>1. count' \in Counts /\ count'.uploads = count.uploads
    BY <1>1, <1>7, SameCounts
  <2>2. Inv'
    BY <1>1, <1>2, <1>7, <2>1, GoesOn
  <2>3. ASSUME BlobInv, HasBlob PROVE BlobInv'
    <3>1. op[t].known[k] \in Values /\ mine[Home[t]][k] \in Values
      BY <1>1, <1>4, LookupTypes, TableTypes
    <3>2. op[t].known[k] <= None /\ mine[Home[t]][k] <= None
      BY <1>1, <1>4, <1>7, <2>3, KnownIsStored DEF BlobInv, Stored
    <3>3. op[t].known[k] = None /\ Free(t, k)
      BY <3>1, <3>2, ValueFacts DEF Free
    <3>. QED
      BY <1>1, <1>2, <1>7, <2>1, <2>3, <3>3, GoesOn
  <2>. QED
    BY <2>2, <2>3
<1>8. CASE Fault /\ NextCandidate(t, TRUE)
  <2>1. count' \in Counts /\ count'.uploads = count.uploads
    BY <1>1, <1>8, FaultCounts
  <2>. QED
    BY <1>1, <1>2, <1>8, <2>1, GoesOn
<1>. QED
  BY <1>6, <1>7, <1>8 DEF GetBlob, Place

LEMMA StepReadRow ==
  ASSUME Inv, NEW t \in Workers, ReadRow(t)
  PROVE  Inv' /\ (BlobInv /\ HasBlob => BlobInv')
<1>. DEFINE k == Place(t, op[t].at)
<1>1. /\ Typed /\ OldTables /\ t \in Threads /\ Belongs(t) /\ op[t].pc = "rows"
  BY ThreadTypes DEF Inv, Threads, ReadRow
<1>2. UNCHANGED <<cached, blob, rows, origin, mine, spoilt>>
  BY DEF ReadRow
<1>3. op[t].want \in Coordinates /\ op[t].at \in 1 .. LastPlace(t)
  BY <1>1, LookupTypes DEF Belongs
<1>4. k \in Coordinates
  BY <1>3, CandidateFacts DEF Place, LastPlace
<1>5. CASE rows[k] = "none" /\ NextCandidate(t, FALSE) /\ UNCHANGED count
  <2>1. count' \in Counts /\ count'.uploads = count.uploads
    BY <1>1, <1>5, SameCounts
  <2>. QED
    BY <1>1, <1>2, <1>5, <2>1, GoesOn
<1>6. CASE rows[k] = "source_map" /\ Found(t, 0, "row") /\ UNCHANGED count
  <2>1. 0 \in Here(k) /\ 0 # None
    BY <1>1, <1>4, <1>6 DEF OldTables, Here, None
  <2>. QED
    BY <1>1, <1>2, <1>6, <2>1, FindsMap
<1>7. CASE rows[k] = "blob_key" /\ Found(t, blob[k], "row") /\ UNCHANGED count
  <2>1. blob[k] \in Here(k) /\ blob[k] # None
    BY <1>1, <1>4, <1>7, TableTypes DEF OldTables
  <2>. QED
    BY <1>1, <1>2, <1>7, <2>1, FindsMap
<1>8. CASE Fault /\ NextCandidate(t, TRUE)
  <2>1. count' \in Counts /\ count'.uploads = count.uploads
    BY <1>1, <1>8, FaultCounts
  <2>. QED
    BY <1>1, <1>2, <1>8, <2>1, GoesOn
<1>. QED
  BY <1>5, <1>6, <1>7, <1>8 DEF ReadRow, Place

-----------------------------------------------------------------------------
(* Steps that change the caches, or the rows.                              *)

LEMMA TablesMove ==
  ASSUME Inv, UNCHANGED <<blob, origin>>,
         count' \in Counts, count'.uploads = count.uploads,
         cached' \in [Processes -> [Coordinates -> Values]],
         \A p \in Processes, k \in Coordinates : cached'[p][k] \in Here(k),
         rows' \in [Coordinates -> {"none", "source_map", "blob_key"}],
         \A k \in Coordinates : rows'[k] = rows[k] \/ rows'[k] = "none",
         mine' \in [Processes -> [Coordinates -> Values]],
         spoilt' \in [Processes -> SUBSET Coordinates],
         DOMAIN op' = Threads, \A t \in Threads : Carries(t, op'[t]),
         \A t \in Threads : op'[t] = op[t] \/ Belongs(t)'
  PROVE  Inv'
<1>1. Typed /\ OldTables /\ \A t \in Threads : Belongs(t)
  BY DEF Inv
<1>2. Typed' /\ \A k \in Coordinates : Here(k)' = Here(k)
  BY <1>1, TypesStay
<1>3. OldTables'
  BY <1>1 DEF OldTables
<1>4. ASSUME NEW t \in Threads PROVE Belongs(t)'
  BY <1>1, <1>2, BelongsStays
<1>. QED
  BY <1>2, <1>3, <1>4 DEF Inv

LEMMA StepKeep ==
  ASSUME Inv, NEW t \in Workers, Keep(t)
  PROVE  Inv' /\ (BlobInv => BlobInv')
<1>. DEFINE p == Home[t]
            k == op[t].key
            m == op[t].found
            o == [op[t] EXCEPT !.pc = "done"]
            soiled == IF op[t].failed THEN {k} ELSE {}
<1>1. Typed /\ t \in Threads /\ p \in Processes /\ Belongs(t) /\ op[t].pc = "keep"
  BY ThreadTypes DEF Inv, Threads, Keep
<1>2. op[t] \in lookup /\ op[t].want \in Coordinates /\ k \in Coordinates /\ m \in Values
  BY <1>1, LookupTypes
<1>3. m \in Here(k) /\ m # None /\ Distance(op[t].want, k) > 0
  BY <1>1 DEF Belongs
<1>4. /\ cached \in [Processes -> [Coordinates -> Values]]
      /\ rows \in [Coordinates -> {"none", "source_map", "blob_key"}]
      /\ mine \in [Processes -> [Coordinates -> Values]]
      /\ spoilt \in [Processes -> SUBSET Coordinates]
  BY <1>1 DEF Typed, TypeOK, Values
<1>5. /\ cached' = [cached EXCEPT ![p][k] = m]
      /\ spoilt' = [spoilt EXCEPT ![p] = @ \cup soiled]
      /\ UNCHANGED <<blob, rows, count, origin, mine>>
  BY DEF Keep, Kept
<1>6. op' = [op EXCEPT ![t] = o]
  <2>1. op' = [op EXCEPT ![t].pc = "done"]
    BY DEF Keep
  <2>. QED
    BY <1>1, <2>1 DEF Typed
<1>7. soiled \subseteq Coordinates
  BY <1>2
<1>8. op[t].failed => k \in soiled
  OBVIOUS
<1>9. /\ o \in lookup /\ o.pc = "done" /\ o.key = k /\ o.found = m /\ o.from = op[t].from
      /\ o.want = op[t].want /\ o.at = op[t].at /\ o.known = op[t].known
      /\ o.failed = op[t].failed
  BY <1>2 DEF lookup
<1>. HIDE DEF o, k, m, p, soiled
<1>10. /\ DOMAIN op' = Threads /\ op'[t] = o
       /\ \A u \in Threads \ {t} : op'[u] = op[u]
  BY <1>1, <1>6, OpMoves
<1>11. /\ \A j : Place(t, j)' = Place(t, j)
       /\ LastPlace(t)' = LastPlace(t)
       /\ \A c : Here(c)' = Here(c)
  BY <1>5, <1>9, <1>10 DEF Place, LastPlace, Here
<1>12. Inv'
  <2>1. count' \in Counts /\ count'.uploads = count.uploads
    BY <1>1, <1>5, SameCounts
  <2>2. cached' \in [Processes -> [Coordinates -> Values]]
    BY <1>1, <1>2, <1>4, <1>5
  <2>3. ASSUME NEW q \in Processes, NEW c \in Coordinates PROVE cached'[q][c] \in Here(c)
    <3>1. (cached'[q][c] = m /\ c = k) \/ cached'[q][c] = cached[q][c]
      BY <1>1, <1>2, <1>4, <1>5
    <3>. QED
      BY <1>1, <1>3, <3>1, TableTypes
  <2>4. spoilt' \in [Processes -> SUBSET Coordinates]
    BY <1>1, <1>4, <1>5, <1>7
  <2>5. \A u \in Threads : Carries(u, op'[u])
    BY <1>1, <1>9, <1>10, ThreadTypes DEF Carries
  <2>6. Belongs(t)'
    BY <1>3, <1>9, <1>10, <1>11 DEF Belongs
  <2>. QED
    BY <1>4, <1>5, <1>10, <2>1, <2>2, <2>3, <2>4, <2>5, <2>6, TablesMove
<1>13. ASSUME BlobInv PROVE BlobInv'
  <2>1. /\ Stored /\ OwnUploadIsUsed /\ Ordered(t) /\ Fresh(t)
        /\ (\A u \in Workers : Ordered(u)) /\ (\A u \in Threads : Fresh(u) /\ Belongs(u))
    BY <1>1, <1>13 DEF BlobInv, Inv
  <2>2. Stored'
    BY <1>1, <1>5, <1>9, <1>10, <2>1 DEF Stored
  <2>3. \A q \in Processes : spoilt[q] \subseteq spoilt'[q]
    BY <1>1, <1>4, <1>5
  <2>4. op[t].failed => k \in spoilt'[p]
    BY <1>1, <1>4, <1>5, <1>8
  <2>5. OwnUploadIsUsed'
    <3>. SUFFICES ASSUME NEW q \in Processes, NEW c \in Coordinates
                  PROVE  \/ cached'[q][c] = None
                         \/ cached'[q][c] >= mine'[q][c]
                         \/ c \in spoilt'[q]
      BY DEF OwnUploadIsUsed
    <3>1. CASE q = p /\ c = k
      <4>1. cached'[q][c] = m /\ mine'[q][c] = mine[p][k] /\ m \in Int /\ mine[p][k] \in Int
        BY <1>1, <1>2, <1>4, <1>5, <3>1, ValueFacts
      <4>2. op[t].failed \/ mine[p][k] <= m \/ k \in spoilt[p]
        BY <1>1, <2>1 DEF Fresh, p, k, m
      <4>. QED
        BY <1>1, <2>3, <2>4, <3>1, <4>1, <4>2
    <3>2. CASE ~(q = p /\ c = k)
      <4>1. cached'[q][c] = cached[q][c] /\ mine'[q][c] = mine[q][c]
        BY <1>1, <1>2, <1>4, <1>5, <3>2
      <4>. QED
        BY <2>1, <2>3, <4>1 DEF OwnUploadIsUsed
    <3>. QED
      BY <3>1, <3>2
  <2>6. Ordered(t)'
    BY <1>1, <1>3, <1>9, <1>10, <1>11, <2>1 DEF Ordered, k, m
  <2>7. Fresh(t)'
    BY <1>9, <1>10 DEF Fresh
  <2>8. ASSUME NEW u \in Workers \ {t} PROVE Ordered(u)'
    BY <1>10, <2>1, OrderedStays DEF Threads
  <2>9. ASSUME NEW u \in Threads \ {t} PROVE Fresh(u)'
    <3>1. Home[u] \in Processes
      BY <1>1, ThreadTypes
    <3>. QED
      BY <1>1, <1>5, <1>10, <2>1, <2>3, <3>1, FreshStays
  <2>. QED
    BY <2>2, <2>5, <2>6, <2>7, <2>8, <2>9 DEF BlobInv
<1>. QED
  BY <1>12, <1>13

LEMMA StepCacheUpload ==
  ASSUME Inv, NEW t \in Handlers, CacheUpload(t)
  PROVE  Inv' /\ (BlobInv => BlobInv')
<1>. DEFINE p == Home[t]
            k == op[t].key
            m == op[t].map
            newest == Max({mine[p][k], m})
<1>1. Typed /\ t \in Threads /\ p \in Processes /\ Belongs(t) /\ op[t].pc = "stored"
  BY ThreadTypes DEF Inv, Threads, CacheUpload
<1>2. k \in Coordinates /\ m \in Values
  BY <1>1, ThreadTypes DEF Values
<1>3. m \in Here(k)
  BY <1>1 DEF Belongs
<1>4. /\ cached \in [Processes -> [Coordinates -> Values]]
      /\ rows \in [Coordinates -> {"none", "source_map", "blob_key"}]
      /\ mine \in [Processes -> [Coordinates -> Values]]
      /\ spoilt \in [Processes -> SUBSET Coordinates]
  BY <1>1 DEF Typed, TypeOK, Values
<1>5. mine[p][k] \in Values
  BY <1>1, <1>2, <1>4
<1>6. newest \in {mine[p][k], m} /\ newest \in Values
  <2>1. newest \in {mine[p][k], m}
    BY <1>2, <1>5, MaxOfTwo
  <2>. QED
    BY <1>2, <1>5, <2>1
<1>7. /\ cached' = [cached EXCEPT ![p][k] = m]
      /\ mine' = [mine EXCEPT ![p][k] = newest]
      /\ spoilt' = IF Meeting(t, k) THEN [spoilt EXCEPT ![p] = @ \cup {k}] ELSE spoilt
      /\ op' = [op EXCEPT ![t] = Idle]
      /\ UNCHANGED <<blob, rows, count, origin>>
  BY DEF CacheUpload, Uploaded
<1>8. \A u \in Threads \ {t} :
        Home[u] = p /\ (\/ op[u].pc \in {"stored", "keep"} /\ op[u].key = k
                        \/ op[u].pc \in {"blobs", "rows"} /\ k \in ToSet(Candidates(op[u].want)))
        => Meeting(t, k)
  BY DEF Meeting
<1>9. m <= newest /\ mine[p][k] <= newest
  BY <1>2, <1>5, MaxOfTwo
<1>. HIDE DEF newest, k, m, p
<1>10. /\ DOMAIN op' = Threads /\ op'[t] = Idle
       /\ \A u \in Threads \ {t} : op'[u] = op[u]
  BY <1>1, <1>7, OpMoves
<1>11. op'[t].pc = "idle"
  BY <1>10 DEF Idle
<1>12. Inv'
  <2>1. count' \in Counts /\ count'.uploads = count.uploads
    BY <1>1, <1>7, SameCounts
  <2>2. cached' \in [Processes -> [Coordinates -> Values]]
    BY <1>1, <1>2, <1>4, <1>7
  <2>3. ASSUME NEW q \in Processes, NEW c \in Coordinates PROVE cached'[q][c] \in Here(c)
    <3>1. (cached'[q][c] = m /\ c = k) \/ cached'[q][c] = cached[q][c]
      BY <1>1, <1>2, <1>4, <1>7
    <3>. QED
      BY <1>1, <1>3, <3>1, TableTypes
  <2>4. spoilt' \in [Processes -> SUBSET Coordinates]
    BY <1>1, <1>2, <1>4, <1>7
  <2>5. \A u \in Threads : Carries(u, op'[u])
    BY <1>1, <1>10, ThreadTypes DEF Carries
  <2>6. Belongs(t)'
    BY <1>11 DEF Belongs
  <2>7. mine' \in [Processes -> [Coordinates -> Values]]
    BY <1>1, <1>2, <1>4, <1>6, <1>7
  <2>. QED
    BY <1>4, <1>7, <1>10, <2>1, <2>2, <2>3, <2>4, <2>5, <2>6, <2>7, TablesMove
<1>13. ASSUME BlobInv PROVE BlobInv'
  <2>1. /\ Stored /\ OwnUploadIsUsed /\ Fresh(t)
        /\ (\A u \in Workers : Ordered(u)) /\ (\A u \in Threads : Fresh(u) /\ Belongs(u))
    BY <1>1, <1>13 DEF BlobInv, Inv
  <2>2. ASSUME NEW q \in Processes, NEW c \in Coordinates
        PROVE  mine'[q][c] = IF q = p /\ c = k THEN newest ELSE mine[q][c]
    BY <1>1, <1>2, <1>4, <1>7
  <2>3. Stored'
    <3>1. newest <= blob[k]
      BY <1>1, <1>2, <1>6, <2>1 DEF Stored, k, m
    <3>2. ASSUME NEW c \in Coordinates, NEW q \in Processes PROVE mine'[q][c] <= blob'[c]
      BY <1>7, <2>1, <2>2, <3>1 DEF Stored
    <3>. QED
      BY <1>7, <1>10, <1>11, <2>1, <3>2 DEF Stored
  <2>4. \A q \in Processes : spoilt[q] \subseteq spoilt'[q]
    BY <1>1, <1>4, <1>7
  <2>5. Meeting(t, k) => k \in spoilt'[p]
    BY <1>1, <1>4, <1>7
  <2>6. OwnUploadIsUsed'
    <3>. SUFFICES ASSUME NEW q \in Processes, NEW c \in Coordinates
                  PROVE  \/ cached'[q][c] = None
                         \/ cached'[q][c] >= mine'[q][c]
                         \/ c \in spoilt'[q]
      BY DEF OwnUploadIsUsed
    <3>1. CASE q = p /\ c = k
      <4>1. cached'[q][c] = m /\ mine'[q][c] = newest /\ m \in Int /\ newest \in Int
        BY <1>1, <1>2, <1>4, <1>6, <1>7, <3>1, ValueFacts
      <4>2. mine[p][k] <= m \/ k \in spoilt[p]
        BY <1>1, <2>1 DEF Fresh, p, k, m
      <4>. QED
        BY <1>1, <1>6, <2>4, <3>1, <4>1, <4>2
    <3>2. CASE ~(q = p /\ c = k)
      <4>1. cached'[q][c] = cached[q][c] /\ mine'[q][c] = mine[q][c]
        BY <1>1, <1>2, <1>4, <1>7, <3>2
      <4>. QED
        BY <2>1, <2>4, <4>1 DEF OwnUploadIsUsed
    <3>. QED
      BY <3>1, <3>2
  <2>7. Fresh(t)'
    BY <1>11 DEF Fresh
  <2>8. ASSUME NEW u \in Workers PROVE Ordered(u)'
    <3>1. u # t
      BY ArtifactsAssumption
    <3>. QED
      BY <1>10, <2>1, <3>1, OrderedStays DEF Threads
  <2>9. ASSUME NEW u \in Threads \ {t} PROVE Fresh(u)'
    <3>1. Home[u] \in Processes
      BY <1>1, ThreadTypes
    <3>2. ASSUME NEW c \in Coordinates
          PROVE  \/ mine'[Home[u]][c] = mine[Home[u]][c]
                 \/ (\/ op[u].pc \in {"stored", "keep"} /\ op[u].key = c
                     \/ op[u].pc \in {"blobs", "rows"} /\ c \in ToSet(Candidates(op[u].want)))
                    => c \in spoilt'[Home[u]]
      BY <1>8, <2>2, <2>5, <3>1
    <3>. QED
      BY <1>1, <1>10, <2>1, <2>4, <3>1, <3>2, FreshStays
  <2>. QED
    BY <2>3, <2>6, <2>7, <2>8, <2>9 DEF BlobInv
<1>. QED
  BY <1>12, <1>13

LEMMA StepEvict ==
  ASSUME Inv, NEW t \in Handlers, NEW k \in Coordinates, Evict(t, k)
  PROVE  Inv' /\ (BlobInv => BlobInv')
<1>. DEFINE p == Home[t]
            gone == ToSet(Candidates(k))
            o == [pc |-> "evicted", key |-> k]
<1>1. Typed /\ t \in Threads /\ p \in Processes
  BY ThreadTypes DEF Inv, Threads
<1>2. /\ cached \in [Processes -> [Coordinates -> Values]]
      /\ rows \in [Coordinates -> {"none", "source_map", "blob_key"}]
      /\ mine \in [Processes -> [Coordinates -> Values]]
      /\ spoilt \in [Processes -> SUBSET Coordinates] /\ count \in Counts
  BY <1>1 DEF Typed, TypeOK, Values, Counts
<1>3. /\ count.deletes < MaxDeletes /\ count' = [count EXCEPT !.deletes = @ + 1]
      /\ cached' = [cached EXCEPT ![p] = [c \in Coordinates |-> IF c \in gone THEN None ELSE @[c]]]
      /\ mine' = [q \in Processes |-> [mine[q] EXCEPT ![k] = None]]
      /\ op' = [op EXCEPT ![t] = o]
      /\ UNCHANGED <<blob, rows, origin, spoilt>>
  BY DEF Evict
<1>4. o.pc = "evicted" /\ Carries(t, o)
  BY DEF Carries
<1>. HIDE DEF o, gone, p
<1>5. /\ DOMAIN op' = Threads /\ op'[t] = o
      /\ \A u \in Threads \ {t} : op'[u] = op[u]
  BY <1>1, <1>3, OpMoves
<1>6. op'[t].pc = "evicted"
  BY <1>4, <1>5
<1>7. ASSUME NEW q \in Processes, NEW c \in Coordinates
      PROVE  /\ cached'[q][c] = cached[q][c] \/ cached'[q][c] = None
             /\ mine'[q][c] = mine[q][c] \/ mine'[q][c] = None
  BY <1>1, <1>2, <1>3
<1>8. Inv'
  <2>1. count' \in Counts /\ count'.uploads = count.uploads
    <3>1. count.deletes + 1 \in 0 .. MaxDeletes
      BY <1>2, <1>3, ArtifactsAssumption DEF Counts
    <3>. QED
      BY <1>2, <1>3, <3>1 DEF Counts
  <2>2. cached' \in [Processes -> [Coordinates -> Values]]
    BY <1>1, <1>2, <1>3, ValueFacts
  <2>3. ASSUME NEW q \in Processes, NEW c \in Coordinates PROVE cached'[q][c] \in Here(c)
    BY <1>1, <1>7, TableTypes
  <2>4. mine' \in [Processes -> [Coordinates -> Values]]
    BY <1>2, <1>3, ValueFacts
  <2>5. \A u \in Threads : Carries(u, op'[u])
    BY <1>1, <1>4, <1>5, ThreadTypes
  <2>6. Belongs(t)'
    BY <1>6 DEF Belongs
  <2>. QED
    BY <1>2, <1>3, <1>5, <2>1, <2>2, <2>3, <2>4, <2>5, <2>6, TablesMove
<1>9. ASSUME BlobInv PROVE BlobInv'
  <2>1. /\ Stored /\ OwnUploadIsUsed
        /\ (\A u \in Workers : Ordered(u)) /\ (\A u \in Threads : Fresh(u) /\ Belongs(u))
    BY <1>9 DEF BlobInv, Inv
  <2>2. Stored'
    <3>1. ASSUME NEW c \in Coordinates, NEW q \in Processes PROVE mine'[q][c] <= blob'[c]
      <4>1. blob[c] \in Values
        BY <1>1, TableTypes
      <4>. QED
        BY <1>3, <1>7, <2>1, <4>1, ValueFacts DEF Stored
    <3>. QED
      BY <1>3, <1>5, <1>6, <2>1, <3>1 DEF Stored
  <2>3. OwnUploadIsUsed'
    <3>. SUFFICES ASSUME NEW q \in Processes, NEW c \in Coordinates
                  PROVE  \/ cached'[q][c] = None
                         \/ cached'[q][c] >= mine'[q][c]
                         \/ c \in spoilt'[q]
      BY DEF OwnUploadIsUsed
    <3>1. cached[q][c] \in Values /\ cached[q][c] >= None
      BY <1>2, ValueFacts
    <3>. QED
      BY <1>3, <1>7, <2>1, <3>1 DEF OwnUploadIsUsed
  <2>4. Fresh(t)'
    BY <1>6 DEF Fresh
  <2>5. ASSUME NEW u \in Workers PROVE Ordered(u)'
    <3>1. u # t
      BY ArtifactsAssumption
    <3>. QED
      BY <1>5, <2>1, <3>1, OrderedStays DEF Threads
  <2>6. ASSUME NEW u \in Threads \ {t} PROVE Fresh(u)'
    <3>1. Home[u] \in Processes
      BY <1>1, ThreadTypes
    <3>. QED
      BY <1>1, <1>3, <1>5, <1>7, <2>1, <3>1, FreshStays
  <2>. QED
    BY <2>2, <2>3, <2>4, <2>5, <2>6 DEF BlobInv
<1>. QED
  BY <1>8, <1>9

LEMMA StepDeleteRow ==
  ASSUME Inv, NEW t \in Handlers, DeleteRow(t)
  PROVE  Inv' /\ (BlobInv => BlobInv')
<1>1. Typed /\ t \in Threads /\ op[t].pc = "evicted" /\ op[t].key \in Coordinates
  BY ThreadTypes DEF Inv, Threads, DeleteRow
<1>2. /\ cached \in [Processes -> [Coordinates -> Values]]
      /\ rows \in [Coordinates -> {"none", "source_map", "blob_key"}]
      /\ mine \in [Processes -> [Coordinates -> Values]]
      /\ spoilt \in [Processes -> SUBSET Coordinates]
  BY <1>1 DEF Typed, TypeOK, Values
<1>3. op' = [op EXCEPT ![t] = Idle] /\ UNCHANGED <<cached, blob, origin, mine, spoilt>>
  BY DEF DeleteRow
<1>4. /\ DOMAIN op' = Threads /\ op'[t] = Idle
      /\ \A u \in Threads \ {t} : op'[u] = op[u]
  BY <1>1, <1>3, OpMoves
<1>5. op'[t].pc = "idle"
  BY <1>4 DEF Idle
<1>6. count' \in Counts /\ count'.uploads = count.uploads
  BY <1>1, SameCounts, FaultCounts DEF DeleteRow
<1>7. /\ rows' \in [Coordinates -> {"none", "source_map", "blob_key"}]
      /\ \A k \in Coordinates : rows'[k] = rows[k] \/ rows'[k] = "none"
  BY <1>1, <1>2 DEF DeleteRow
<1>8. Inv'
  <2>1. \A u \in Threads : Carries(u, op'[u])
    BY <1>1, <1>4, ThreadTypes DEF Carries
  <2>2. Belongs(t)'
    BY <1>5 DEF Belongs
  <2>3. \A q \in Processes, c \in Coordinates : cached'[q][c] \in Here(c)
    BY <1>1, <1>3, TableTypes
  <2>. QED
    BY <1>2, <1>3, <1>4, <1>6, <1>7, <2>1, <2>2, <2>3, TablesMove
<1>9. ASSUME BlobInv PROVE BlobInv'
  <2>1. /\ Stored /\ OwnUploadIsUsed
        /\ (\A u \in Workers : Ordered(u)) /\ (\A u \in Threads : Fresh(u) /\ Belongs(u))
    BY <1>9 DEF BlobInv, Inv
  <2>2. Stored'
    BY <1>3, <1>4, <1>5, <2>1 DEF Stored
  <2>3. OwnUploadIsUsed'
    BY <1>3, <2>1 DEF OwnUploadIsUsed
  <2>4. Fresh(t)'
    BY <1>5 DEF Fresh
  <2>5. ASSUME NEW u \in Workers PROVE Ordered(u)'
    <3>1. u # t
      BY ArtifactsAssumption
    <3>. QED
      BY <1>4, <2>1, <3>1, OrderedStays DEF Threads
  <2>6. ASSUME NEW u \in Threads \ {t} PROVE Fresh(u)'
    BY <1>1, <1>3, <1>4, <2>1, FreshStays
  <2>. QED
    BY <2>2, <2>3, <2>4, <2>5, <2>6 DEF BlobInv
<1>. QED
  BY <1>8, <1>9

LEMMA StepRestart ==
  ASSUME Inv, NEW p \in Processes, Restart(p)
  PROVE  Inv' /\ (BlobInv => BlobInv')
<1>1. Typed
  BY DEF Inv
<1>2. /\ cached \in [Processes -> [Coordinates -> Values]]
      /\ rows \in [Coordinates -> {"none", "source_map", "blob_key"}]
      /\ mine \in [Processes -> [Coordinates -> Values]]
      /\ spoilt \in [Processes -> SUBSET Coordinates]
  BY <1>1 DEF Typed, TypeOK, Values
<1>3. /\ cached' = [cached EXCEPT ![p] = [k \in Coordinates |-> None]]
      /\ op' = [t \in Threads |-> IF Home[t] = p THEN Idle ELSE op[t]]
      /\ spoilt' = [spoilt EXCEPT ![p] = {}]
      /\ UNCHANGED <<blob, rows, origin, mine>>
  BY DEF Restart
<1>4. count' \in Counts /\ count'.uploads = count.uploads
  BY <1>1, FaultCounts DEF Restart
<1>5. \A t \in Threads : IF Home[t] = p THEN op'[t] = Idle ELSE op'[t] = op[t]
  BY <1>3
<1>6. Idle.pc = "idle"
  BY DEF Idle
<1>7. ASSUME NEW t \in Threads, Home[t] = p
      PROVE  Belongs(t)' /\ Fresh(t)' /\ Ordered(t)'
  <2>1. op'[t].pc = "idle"
    BY <1>5, <1>6, <1>7
  <2>. QED
    BY <2>1 DEF Belongs, Fresh, Ordered
<1>8. Inv'
  <2>1. cached' \in [Processes -> [Coordinates -> Values]]
    BY <1>2, <1>3, ValueFacts
  <2>2. ASSUME NEW q \in Processes, NEW c \in Coordinates PROVE cached'[q][c] \in Here(c)
    <3>1. cached'[q][c] = cached[q][c] \/ cached'[q][c] = None
      BY <1>2, <1>3
    <3>. QED
      BY <1>1, <3>1, TableTypes
  <2>3. spoilt' \in [Processes -> SUBSET Coordinates]
    BY <1>2, <1>3
  <2>4. \A t \in Threads : Carries(t, op'[t])
    BY <1>1, <1>5, ThreadTypes DEF Carries
  <2>5. DOMAIN op' = Threads
    BY <1>3
  <2>. QED
    BY <1>2, <1>3, <1>4, <1>5, <1>7, <2>1, <2>2, <2>3, <2>4, <2>5, TablesMove
<1>9. ASSUME BlobInv PROVE BlobInv'
  <2>1. /\ Stored /\ OwnUploadIsUsed
        /\ (\A u \in Workers : Ordered(u)) /\ (\A u \in Threads : Fresh(u) /\ Belongs(u))
    BY <1>9 DEF BlobInv, Inv
  <2>2. Stored'
    BY <1>3, <1>5, <1>6, <2>1 DEF Stored
  <2>3. OwnUploadIsUsed'
    <3>. SUFFICES ASSUME NEW q \in Processes, NEW c \in Coordinates
                  PROVE  \/ cached'[q][c] = None
                         \/ cached'[q][c] >= mine'[q][c]
                         \/ c \in spoilt'[q]
      BY DEF OwnUploadIsUsed
    <3>1. CASE q = p
      BY <1>2, <1>3, <3>1
    <3>2. CASE q # p
      BY <1>2, <1>3, <2>1, <3>2 DEF OwnUploadIsUsed
    <3>. QED
      BY <3>1, <3>2
  <2>4. ASSUME NEW u \in Workers PROVE Ordered(u)'
    <3>1. u \in Threads
      BY DEF Threads
    <3>. QED
      BY <1>5, <1>7, <2>1, <3>1, OrderedStays
  <2>5. ASSUME NEW u \in Threads, Home[u] # p PROVE Fresh(u)'
    <3>1. Home[u] \in Processes /\ op'[u] = op[u]
      BY <1>1, <1>5, <2>5, ThreadTypes
    <3>2. spoilt'[Home[u]] = spoilt[Home[u]]
      BY <1>2, <1>3, <2>5, <3>1
    <3>. QED
      BY <1>1, <1>3, <2>1, <3>1, <3>2, FreshStays
  <2>. QED
    BY <1>7, <2>2, <2>3, <2>4, <2>5 DEF BlobInv
<1>. QED
  BY <1>8, <1>9

-----------------------------------------------------------------------------
(* Uploads.                                                                *)

\* A new map is in the blob store, whether or not its upload was answered.
LEMMA MapStored ==
  ASSUME Inv, NEW t \in Handlers, NEW k \in Coordinates, NEW n,
         n = count.uploads + 1, n <= MaxUploads,
         count' \in Counts, count'.uploads = n, origin' = Append(origin, k),
         blob' = IF HasBlob THEN [blob EXCEPT ![k] = n] ELSE blob,
         op' = op \/ op' = [op EXCEPT ![t] = [pc |-> "stored", key |-> k, map |-> n]],
         UNCHANGED <<cached, rows, mine, spoilt>>
  PROVE  Inv' /\ (BlobInv /\ HasBlob => BlobInv')
<1>. DEFINE o == [pc |-> "stored", key |-> k, map |-> n]
<1>1. /\ Typed /\ OldTables /\ t \in Threads /\ Home[t] \in Processes
      /\ \A u \in Threads : Belongs(u)
  BY ThreadTypes DEF Inv, Threads
<1>2. /\ n \in Maps /\ n \in Values /\ n # None
      /\ origin' \in [1 .. count'.uploads -> Coordinates]
      /\ \A c \in Coordinates : Here(c) \subseteq Here(c)'
      /\ n \in Here(k)'
  <2>1. n # None
    BY <1>1, ArtifactsAssumption DEF Typed, TypeOK, None
  <2>. QED
    BY <1>1, <2>1, Uploads
<1>3. o.pc = "stored" /\ o.key = k /\ o.map = n /\ Carries(t, o)
  BY <1>2 DEF Carries
<1>4. blob \in [Coordinates -> Values]
  BY <1>1 DEF Typed, TypeOK, Values
<1>. HIDE DEF o
<1>5. /\ DOMAIN op' = Threads /\ op'[t] \in {op[t], o}
      /\ \A u \in Threads \ {t} : op'[u] = op[u]
  <2>1. CASE op' = op
    BY <1>1, <2>1 DEF Typed
  <2>2. CASE op' = [op EXCEPT ![t] = o]
    BY <1>1, <2>2, OpMoves
  <2>. QED
    BY <2>1, <2>2 DEF o
<1>6. \A c \in Coordinates : blob'[c] = blob[c] \/ (HasBlob /\ c = k /\ blob'[c] = n)
  BY <1>4
<1>7. Typed'
  <2>1. \A u \in Threads : Carries(u, op'[u])
    BY <1>1, <1>3, <1>5, ThreadTypes
  <2>2. blob' \in [Coordinates -> Values]
    BY <1>2, <1>4
  <2>3. \A c \in Coordinates : blob'[c] \in Here(c)' /\ \A p \in Processes : cached'[p][c] \in Here(c)'
    BY <1>1, <1>2, <1>6, TableTypes
  <2>4. HasBlob \/ \A c \in Coordinates : blob'[c] = None
    BY <1>1, <1>6 DEF Typed, TypeOK
  <2>5. TypeOK'
    BY <1>1, <1>2, <2>1, <2>2, <2>3, <2>4 DEF Typed, TypeOK, Carries, Values, Counts
  <2>. QED
    BY <1>5, <2>5 DEF Typed
<1>8. OldTables'
  BY <1>1, <1>2, <1>6 DEF OldTables
<1>9. ASSUME NEW u \in Threads PROVE Belongs(u)'
  <2>1. CASE op'[u] = op[u]
    BY <1>1, <1>2, <2>1, BelongsStays
  <2>2. CASE u = t /\ op'[u] = o
    BY <1>2, <1>3, <2>2 DEF Belongs
  <2>. QED
    BY <1>5, <2>1, <2>2
<1>10. ASSUME BlobInv, HasBlob PROVE BlobInv'
  <2>1. /\ Stored /\ OwnUploadIsUsed
        /\ (\A u \in Workers : Ordered(u)) /\ (\A u \in Threads : Fresh(u))
    BY <1>10 DEF BlobInv
  <2>2. ASSUME NEW c \in Coordinates PROVE blob[c] <= blob'[c] /\ blob[c] \in Int /\ blob'[c] \in Int
    <3>1. blob[c] \in Values /\ blob[c] <= count.uploads /\ count.uploads \in Nat
      BY <1>1, TableTypes
    <3>. QED
      BY <1>2, <1>6, <3>1, ValueFacts
  <2>3. blob'[k] = n
    BY <1>4, <1>10
  <2>4. Stored'
    <3>. SUFFICES ASSUME NEW c \in Coordinates
                  PROVE /\ \A p \in Processes : mine'[p][c] <= blob'[c]
                        /\ \A u \in Threads : op'[u].pc = "stored" /\ op'[u].key = c
                             => op'[u].map <= blob'[c]
                        /\ \A u \in Threads : op'[u].pc \notin {"idle", "stored", "evicted"}
                             => op'[u].known[c] <= blob'[c]
      BY DEF Stored
    <3>1. ASSUME NEW p \in Processes PROVE mine'[p][c] <= blob'[c]
      <4>1. mine[p][c] \in Int /\ mine[p][c] <= blob[c]
        BY <1>1, <2>1, TableTypes, ValueFacts DEF Stored
      <4>. QED
        BY <2>2, <4>1
    <3>2. ASSUME NEW u \in Threads, op'[u].pc = "stored", op'[u].key = c
          PROVE  op'[u].map <= blob'[c]
      <4>1. CASE op'[u] = op[u]
        <5>1. op[u].map \in Int /\ op[u].map <= blob[c]
          BY <1>1, <2>1, <3>2, <4>1, ThreadTypes, ValueFacts DEF Stored, Values
        <5>. QED
          BY <2>2, <4>1, <5>1
      <4>2. CASE op'[u] = o
        BY <1>2, <1>3, <2>3, <3>2, <4>2, ValueFacts
      <4>. QED
        BY <1>5, <4>1, <4>2
    <3>3. ASSUME NEW u \in Threads, op'[u].pc \notin {"idle", "stored", "evicted"}
          PROVE  op'[u].known[c] <= blob'[c]
      <4>1. op'[u] = op[u]
        BY <1>3, <1>5, <3>3
      <4>2. op[u].pc \in {"names", "blobs", "rows", "keep", "done"}
        BY <1>1, <3>3, <4>1, ThreadTypes DEF Threads
      <4>3. op[u].known[c] \in Values
        BY <1>1, <4>2, LookupTypes
      <4>4. op[u].known[c] <= blob[c]
        BY <1>1, <2>1, <4>2, KnownIsStored
      <4>. QED
        BY <2>2, <4>1, <4>3, <4>4, ValueFacts
    <3>. QED
      BY <3>1, <3>2, <3>3
  <2>5. OwnUploadIsUsed'
    BY <2>1 DEF OwnUploadIsUsed
  <2>6. ASSUME NEW u \in Workers PROVE Ordered(u)'
    <3>1. u # t
      BY ArtifactsAssumption
    <3>. QED
      BY <1>5, <2>1, <3>1, OrderedStays DEF Threads
  <2>7. ASSUME NEW u \in Threads PROVE Fresh(u)'
    <3>1. CASE op'[u] = op[u]
      BY <1>1, <2>1, <3>1, FreshStays
    <3>2. CASE u = t /\ op'[u] = o
      <4>1. /\ mine[Home[t]][k] \in Int /\ mine[Home[t]][k] <= blob[k]
            /\ blob[k] \in Int /\ blob[k] <= blob'[k]
        BY <1>1, <2>1, <2>2, TableTypes, ValueFacts DEF Stored
      <4>2. mine'[Home[t]][k] <= n
        BY <1>2, <2>3, <4>1, ValueFacts
      <4>. QED
        BY <1>3, <3>2, <4>2 DEF Fresh
    <3>. QED
      BY <1>5, <3>1, <3>2
  <2>. QED
    BY <2>4, <2>5, <2>6, <2>7 DEF BlobInv
<1>. QED
  BY <1>7, <1>8, <1>9, <1>10 DEF Inv

LEMMA StepUpload ==
  ASSUME Inv, NEW t \in Handlers, NEW k \in Coordinates, StoreBlob(t, k) \/ RefuseUpload(t, k)
  PROVE  Inv' /\ (BlobInv /\ HasBlob => BlobInv')
<1>. DEFINE n == count.uploads + 1
<1>1. count \in Counts
  BY DEF Inv, Typed, TypeOK, Counts
<1>2. n <= MaxUploads => n \in 0 .. MaxUploads
  BY <1>1, ArtifactsAssumption DEF Counts
<1>3. CASE StoreBlob(t, k)
  <2>1. /\ n <= MaxUploads /\ count' = [count EXCEPT !.uploads = n]
        /\ origin' = Append(origin, k)
        /\ blob' = IF HasBlob THEN [blob EXCEPT ![k] = n] ELSE blob
        /\ op' = [op EXCEPT ![t] = [pc |-> "stored", key |-> k, map |-> n]]
        /\ UNCHANGED <<cached, rows, mine, spoilt>>
    BY <1>3 DEF StoreBlob
  <2>2. count' \in Counts /\ count'.uploads = n
    BY <1>1, <1>2, <2>1 DEF Counts
  <2>. HIDE DEF n
  <2>. QED
    BY <2>1, <2>2, MapStored DEF n
<1>4. CASE RefuseUpload(t, k)
  <2>1. /\ HasBlob /\ n <= MaxUploads /\ count.faults < MaxFaults
        /\ count' = [count EXCEPT !.uploads = n, !.faults = @ + 1]
        /\ origin' = Append(origin, k)
        /\ blob' = [blob EXCEPT ![k] = n]
        /\ UNCHANGED <<cached, rows, op, mine, spoilt>>
    BY <1>4 DEF RefuseUpload
  <2>2. count' \in Counts /\ count'.uploads = n
    <3>1. count.faults + 1 \in 0 .. MaxFaults
      BY <1>1, <2>1, ArtifactsAssumption DEF Counts
    <3>. QED
      BY <1>1, <1>2, <2>1, <3>1 DEF Counts
  <2>. HIDE DEF n
  <2>. QED
    BY <2>1, <2>2, MapStored DEF n
<1>. QED
  BY <1>3, <1>4

-----------------------------------------------------------------------------
(* The invariant holds.                                                    *)

LEMMA InitInv == Init => Inv /\ BlobInv
<1>. SUFFICES ASSUME Init PROVE Inv /\ BlobInv
  OBVIOUS
<1>1. \A t \in Threads : op[t] = Idle /\ op[t].pc = "idle"
  BY DEF Init, Idle
<1>2. \A k \in Coordinates :
        /\ blob[k] = IF k \in OldBlobs THEN 0 ELSE None
        /\ rows[k] = IF k \in OldRows THEN "source_map"
                     ELSE IF k \in OldBlobs THEN "blob_key" ELSE "none"
        /\ \A p \in Processes : cached[p][k] = None /\ mine[p][k] = None
  BY DEF Init
<1>3. 0 \in Values /\ None \in Values /\ 0 # None /\ None <= 0 /\ None <= None
  BY ArtifactsAssumption DEF Values, Maps, None
<1>4. TypeOK
  <2>1. /\ cached \in [Processes -> [Coordinates -> Values]]
        /\ blob \in [Coordinates -> Values]
        /\ rows \in [Coordinates -> {"none", "source_map", "blob_key"}]
        /\ mine \in [Processes -> [Coordinates -> Values]]
        /\ spoilt \in [Processes -> SUBSET Coordinates]
    BY <1>3 DEF Init
  <2>2. count \in Counts
    BY ArtifactsAssumption DEF Init, Counts
  <2>3. origin \in [1 .. count.uploads -> Coordinates]
    <3>1. count.uploads = 0 /\ origin = <<>>
      BY DEF Init
    <3>2. 1 .. 0 = {} /\ DOMAIN <<>> = {}
      OBVIOUS
    <3>. QED
      BY <3>1, <3>2
  <2>4. ASSUME NEW k \in Coordinates
        PROVE  blob[k] \in Here(k) /\ \A p \in Processes : cached[p][k] \in Here(k)
    BY <1>2 DEF Here
  <2>5. HasBlob \/ \A k \in Coordinates : blob[k] = None
    BY <1>2, ArtifactsAssumption
  <2>. QED
    BY <1>1, <2>1, <2>2, <2>3, <2>4, <2>5 DEF TypeOK, Counts, Values
<1>5. DOMAIN op = Threads
  BY DEF Init
<1>6. OldTables
  BY <1>2, <1>3 DEF OldTables
<1>7. \A t \in Threads : Belongs(t) /\ Ordered(t) /\ Fresh(t)
  BY <1>1 DEF Belongs, Ordered, Fresh
<1>8. Stored
  BY <1>1, <1>2, <1>3 DEF Stored
<1>9. OwnUploadIsUsed
  BY <1>2 DEF OwnUploadIsUsed
<1>. QED
  BY <1>4, <1>5, <1>6, <1>7, <1>8, <1>9 DEF Inv, BlobInv, Typed, Threads

LEMMA StepInv == Inv /\ [Next]_vars => Inv' /\ (BlobInv /\ HasBlob => BlobInv')
<1>. SUFFICES ASSUME Inv, [Next]_vars PROVE Inv' /\ (BlobInv /\ HasBlob => BlobInv')
  OBVIOUS
<1>1. \A k \in Places \cup Wanted : k \in Coordinates
  BY ArtifactsAssumption
<1>2. ASSUME NEW t \in Handlers, NEW k \in Places,
             StoreBlob(t, k) \/ RefuseUpload(t, k) \/ Evict(t, k)
      PROVE  Inv' /\ (BlobInv /\ HasBlob => BlobInv')
  BY <1>1, <1>2, StepUpload, StepEvict
<1>3. ASSUME NEW t \in Handlers, CacheUpload(t) \/ DeleteRow(t)
      PROVE  Inv' /\ (BlobInv /\ HasBlob => BlobInv')
  BY <1>3, StepCacheUpload, StepDeleteRow
<1>4. ASSUME NEW t \in Workers, NEW c \in Wanted, NEW id \in DebugIds \cup {NoDebugId},
             BeginLookup(t, c, id)
      PROVE  Inv' /\ (BlobInv /\ HasBlob => BlobInv')
  BY <1>4, StepBegin
<1>5. ASSUME NEW t \in Workers, ReadCache(t) \/ GetBlob(t) \/ ReadRow(t) \/ Keep(t) \/ Return(t)
      PROVE  Inv' /\ (BlobInv /\ HasBlob => BlobInv')
  BY <1>5, StepReadCache, StepGetBlob, StepReadRow, StepKeep, StepReturn
<1>6. ASSUME NEW p \in Processes, Restart(p) PROVE Inv' /\ (BlobInv /\ HasBlob => BlobInv')
  BY <1>6, StepRestart
<1>7. CASE UNCHANGED vars
  <2>1. \A c : Here(c)' = Here(c)
    BY <1>7 DEF vars, Here
  <2>2. Typed' /\ OldTables'
    BY <1>7, <2>1 DEF vars, Inv, Typed, TypeOK, OldTables
  <2>3. ASSUME NEW t \in Threads PROVE Belongs(t)' /\ (Fresh(t) => Fresh(t)')
    BY <1>7, <2>1, BelongsStays, FreshStays DEF vars, Inv
  <2>4. Stored => Stored'
    BY <1>7 DEF vars, Stored
  <2>5. OwnUploadIsUsed => OwnUploadIsUsed'
    BY <1>7 DEF vars, OwnUploadIsUsed
  <2>6. ASSUME NEW t \in Workers PROVE Ordered(t) => Ordered(t)'
    BY <1>7, OrderedStays DEF vars
  <2>. QED
    BY <2>2, <2>3, <2>4, <2>5, <2>6 DEF Inv, BlobInv
<1>. QED
  BY <1>2, <1>3, <1>4, <1>5, <1>6, <1>7 DEF Next

\* Types, and that whatever a lookup finds belongs to its frame, with or without
\* a blob store.
THEOREM ArtifactsInvariant == Spec => []Inv
<1>1. Init => Inv
  BY InitInv
<1>2. Inv /\ [Next]_vars => Inv'
  BY StepInv
<1>. QED
  BY <1>1, <1>2, PTL DEF Spec

\* With a blob store: every acknowledged map is in it, lookups pass over a place
\* only if they knew of no map there, and no cache gets older than its process's
\* own uploads.
THEOREM StoreInvariant == ASSUME HasBlob PROVE Spec => []BlobInv
<1>1. Init => BlobInv
  BY InitInv
<1>2. Inv /\ BlobInv /\ [Next]_vars => BlobInv'
  BY StepInv
<1>. QED
  BY <1>1, <1>2, ArtifactsInvariant, PTL DEF Spec

-----------------------------------------------------------------------------
(* What follows.                                                           *)

\* A frame is only mapped by maps uploaded for its name and dist, or with its
\* debug ID.
THEOREM MapsBelong == Spec => []ServedBelongs
<1>1. Inv => ServedBelongs
  <2>. SUFFICES ASSUME Inv, NEW t \in Workers, op[t].pc = "done", op[t].found # None
                PROVE  \/ \E k \in Origins(op[t].found) : Distance(op[t].want, k) > 0
                       \/ op[t].id # NoDebugId /\ DebugIdOf[op[t].found] = op[t].id
    BY DEF ServedBelongs, Ended
  <2>1. Typed /\ t \in Threads /\ Belongs(t)
    BY DEF Inv, Threads
  <2>2. ASSUME op[t].found \in Here(op[t].key)
        PROVE  op[t].key \in Origins(op[t].found)
    <3>1. DOMAIN origin = 1 .. count.uploads
      BY <2>1 DEF Typed, TypeOK
    <3>2. 0 \notin DOMAIN origin
      BY <3>1
    <3>. QED
      BY <2>2, <3>2 DEF Here, Origins
  <2>. QED
    BY <2>1, <2>2 DEF Belongs
<1>. QED
  BY <1>1, ArtifactsInvariant, PTL

\* After an upload was acknowledged, a lookup that begins finds some map, in any
\* process and after any restart, unless one of its reads failed.
THEOREM AcknowledgedAreFound == ASSUME HasBlob PROVE Spec => []AcknowledgedIsFound
<1>1. Inv /\ BlobInv => AcknowledgedIsFound
  <2>. SUFFICES ASSUME Inv, BlobInv, NEW t \in Workers, op[t].pc = "done", op[t].found = None,
                       ~op[t].failed, NEW k \in Coordinates, Distance(op[t].want, k) > 0
                PROVE  op[t].known[k] = None
    BY DEF AcknowledgedIsFound, Ended
  <2>1. Typed /\ t \in Threads /\ Ordered(t)
    BY DEF Inv, BlobInv, Threads
  <2>2. op[t].want \in Coordinates
    BY <2>1, LookupTypes
  <2>3. PICK j \in 1 .. LastPlace(t) : Place(t, j) = k
    BY <2>2, CandidateFacts DEF LastPlace, Place
  <2>. QED
    BY <2>1, <2>3 DEF Ordered
<1>. QED
  BY <1>1, ArtifactsInvariant, StoreInvariant, PTL

\* A lookup that no cache answers passes over no closer map that was acknowledged
\* before it began, and over no newer one where it ends.
THEOREM ColdLookupsKeepOrder == ASSUME HasBlob PROVE Spec => []ColdLookupKeepsOrder
<1>1. Inv /\ BlobInv => ColdLookupKeepsOrder
  <2>. SUFFICES ASSUME Inv, BlobInv, NEW t \in Workers, op[t].pc = "done",
                       op[t].from \in {"blob", "row"}, ~op[t].failed, NEW k \in Coordinates,
                       Distance(op[t].want, k) > 0,
                       Distance(op[t].want, k) <= Distance(op[t].want, op[t].key)
                PROVE  op[t].known[k] <= IF k = op[t].key THEN op[t].found ELSE None
    BY DEF ColdLookupKeepsOrder, Ended
  <2>1. Typed /\ t \in Threads /\ Ordered(t)
    BY DEF Inv, BlobInv, Threads
  <2>2. op[t].want \in Coordinates /\ op[t].found \in Values /\ op[t].known[k] \in Values
    BY <2>1, LookupTypes
  <2>3. PICK j \in 1 .. LastPlace(t) : Place(t, j) = k
    BY <2>2, CandidateFacts DEF LastPlace, Place
  <2>4. None <= None /\ None <= op[t].found
    BY <2>2, ValueFacts
  <2>5. CASE op[t].from = "row"
    BY <2>1, <2>3, <2>4, <2>5 DEF Ordered
  <2>6. CASE op[t].from = "blob"
    <3>1. /\ op[t].at \in 1 .. LastPlace(t) /\ op[t].key = Place(t, op[t].at)
          /\ op[t].known[op[t].key] <= op[t].found
          /\ \A i \in 1 .. op[t].at - 1 : op[t].known[Place(t, i)] = None
      BY <2>1, <2>6 DEF Ordered
    <3>2. LastPlace(t) \in 1 .. 4
      BY <2>2, CandidateFacts DEF LastPlace
    <3>3. CASE op[t].at < j
      <4>1. /\ Distance(op[t].want, op[t].key) < Distance(op[t].want, k)
        BY <2>2, <2>3, <3>1, <3>3, CandidateFacts DEF LastPlace, Place
      <4>2. Distance(op[t].want, k) \in Int /\ Distance(op[t].want, op[t].key) \in Int
        BY DEF Distance
      <4>. QED
        BY <4>1, <4>2
    <3>4. CASE op[t].at = j
      BY <2>3, <3>1, <3>4
    <3>5. CASE j < op[t].at
      <4>1. j \in 1 .. op[t].at - 1
        BY <3>1, <3>2, <3>5
      <4>. QED
        BY <2>3, <2>4, <3>1, <4>1
    <3>. QED
      BY <3>1, <3>2, <3>3, <3>4, <3>5
  <2>. QED
    BY <2>5, <2>6
<1>. QED
  BY <1>1, ArtifactsInvariant, StoreInvariant, PTL

\* The cache of a process has no map older than the last one it acknowledged at a
\* place, unless threads met there or a read failed.
THEOREM OwnUploadsAreUsed == ASSUME HasBlob PROVE Spec => []OwnUploadIsUsed
<1>1. BlobInv => OwnUploadIsUsed
  BY DEF BlobInv
<1>. QED
  BY <1>1, StoreInvariant, PTL

=============================================================================
