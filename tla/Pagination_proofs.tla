--------------------------- MODULE Pagination_proofs ---------------------------
(***************************************************************************)
(* Proofs about Pagination, for any number of rows, page size, keys and     *)
(* changes: no row twice and none left out.  One argument serves every      *)
(* order and both stores: the rows behind the cursor, in the order of the   *)
(* listing, are those still to come.                                        *)
(***************************************************************************)
EXTENDS Pagination, FiniteSetTheorems, WellFoundedInduction, TLAPS

-----------------------------------------------------------------------------
(* The invariant.                                                          *)

\* Keys and times grow by one at most with every change.
Bounded ==
  /\ now <= MaxKey + changes
  /\ \A i \in There : rows[i].key <= MaxKey + changes

\* Row i comes after the cursor in the order of the listing.
Behind(i) ==
  \/ rows[i].key < cursor.key
  \/ rows[i].key = cursor.key /\ IF listing.backend = "postgres" THEN i < cursor.id
                                                                 ELSE i > cursor.id

\* Who has been listed is there, and there is a cursor until the listing ends.
Placed == \A i \in Rows : listed[i] > 0 => i \in There /\ (ended \/ cursor # NoCursor)

\* A row that has been listed is not behind the cursor.
Passed ==
  cursor # NoCursor =>
    \A i \in Rows : listed[i] > 0 => ~Behind(i) \/ i \in sunk \/ restarted

\* A row that stays has been listed or is still to come.
Ahead ==
  ~failed => \A i \in stays :
    \/ listed[i] > 0
    \/ ~ended /\ i \in Matching /\ (cursor = NoCursor \/ Behind(i))

Inv == TypeOK /\ Bounded /\ Placed /\ Passed /\ Ahead /\ OnceUnlessMoved

-----------------------------------------------------------------------------
(* Order.                                                                  *)

\* A finite set that is not empty has a last element in every strict total order.
LEMMA LastExists ==
  ASSUME NEW T, IsFiniteSet(T), T # {}, NEW R,
         \A i, j, k \in T : <<i, j>> \in R /\ <<j, k>> \in R => <<i, k>> \in R,
         \A i \in T : <<i, i>> \notin R,
         \A i, j \in T : i = j \/ <<i, j>> \in R \/ <<j, i>> \in R
  PROVE  \E l \in T : \A j \in T \ {l} : <<j, l>> \in R
<1>. DEFINE After(i) == {j \in T : <<i, j>> \in R}
            Sets == {After(i) : i \in T}
<1>1. \A i \in T : After(i) \in FiniteSubsetsOf(T)
  <2>. SUFFICES ASSUME NEW i \in T PROVE After(i) \in FiniteSubsetsOf(T)
    OBVIOUS
  <2>1. After(i) \subseteq T
    OBVIOUS
  <2>2. IsFiniteSet(After(i))
    BY <2>1, FS_Subset
  <2>. QED
    BY <2>1, <2>2 DEF FiniteSubsetsOf
<1>2. Sets \subseteq FiniteSubsetsOf(T)
  BY <1>1
<1>3. Sets # {}
  <2>1. PICK i \in T : TRUE
    OBVIOUS
  <2>2. After(i) \in Sets
    BY <2>1
  <2>. QED
    BY <2>2
<1>4. PICK A \in Sets : \A B \in Sets : ~(<<B, A>> \in StrictSubsetOrdering(T))
  <2>1. IsWellFoundedOn(StrictSubsetOrdering(T), FiniteSubsetsOf(T))
    BY FS_StrictSubsetOrderingWellFounded
  <2>. QED
    BY <1>2, <1>3, <2>1, WFMin, Zenon
<1>5. PICK l \in T : A = After(l)
  BY <1>4
<1>6. ASSUME NEW j \in T \ {l}, <<j, l>> \notin R PROVE FALSE
  <2>1. j \in After(l) /\ j \notin After(j)
    BY <1>6
  <2>2. After(j) \subseteq After(l)
    BY <2>1
  <2>3. <<After(j), After(l)>> \in StrictSubsetOrdering(T)
    BY <2>1, <2>2 DEF StrictSubsetOrdering
  <2>. QED
    BY <2>3, <1>4, <1>5
<1>. QED
  BY <1>6

\* The order of the listing is strict and total on the rows that are there.
LEMMA OrderFacts ==
  ASSUME TypeOK
  PROVE  /\ \A i \in There : i \in Nat /\ rows[i].key \in Nat
         /\ \A i, j, k \in There : Before(i, j) /\ Before(j, k) => Before(i, k)
         /\ \A i \in There : ~Before(i, i)
         /\ \A i, j \in There : i = j \/ Before(i, j) \/ Before(j, i)
<1>1. \A i \in There : i \in Nat /\ rows[i].key \in Nat
  BY PaginationAssumption DEF TypeOK, There, row
<1>2. CASE listing.backend = "postgres"
  BY <1>1, <1>2 DEF Before
<1>3. CASE listing.backend # "postgres"
  BY <1>1, <1>3 DEF Before
<1>. QED
  BY <1>1, <1>2, <1>3

\* What pages are taken from.
LEMMA RestIsBehind ==
  ASSUME TypeOK
  PROVE  /\ Rest \subseteq Matching /\ Matching \subseteq There /\ There \subseteq Rows
         /\ cursor = NoCursor => Rest = Matching
         /\ \/ Restarts /\ Rest = Matching
            \/ cursor = NoCursor
            \/ Rest = {i \in Matching : Behind(i)}
<1>1. Matching \subseteq There /\ There \subseteq Rows
  BY DEF Matching, There
<1>2. CASE cursor = NoCursor
  BY <1>1, <1>2, Zenon DEF Rest
<1>3. CASE cursor # NoCursor /\ listing.backend = "postgres"
  <2>1. CASE Unread
    BY <1>1, <1>3, <2>1 DEF Rest, Restarts
  <2>2. ASSUME ~Unread PROVE Rest = {i \in Matching : Below(i)}
    BY <1>3, <2>2, Zenon DEF Rest
  <2>3. \A i : Below(i) <=> Behind(i)
    BY <1>3 DEF Below, Behind
  <2>. QED
    BY <1>1, <1>3, <2>1, <2>2, <2>3
<1>4. CASE cursor # NoCursor /\ listing.backend = "memory"
  <2>. HIDE DEF Unread
  <2>0. ~Unread /\ ~(listing.backend = "postgres")
    BY <1>4 DEF Unread
  <2>1. Rest = {i \in Matching : \A c \in Position : Before(c, i)}
    BY <1>4, <2>0, Zenon DEF Rest
  <2>2. ASSUME NEW c \in Position PROVE \A i \in Matching : Before(c, i) <=> Behind(i)
    BY <1>4, <1>1, <2>2, OrderFacts DEF Position, Before, Behind
  <2>3. Position # {} => Position = {cursor.id}
    BY DEF Position
  <2>. QED
    BY <1>1, <1>4, <2>1, <2>2, <2>3 DEF Restarts
<1>5. listing.backend \in {"postgres", "memory"}
  BY PaginationAssumption DEF TypeOK, listings, Backends
<1>. QED
  BY <1>2, <1>3, <1>4, <1>5

\* A page is the beginning of what is left; the cursor is its last row, before all
\* that the page leaves.
LEMMA PageFacts ==
  ASSUME TypeOK
  PROVE  /\ Page \subseteq Rest
         /\ Page = Rest => NextCursor = NoCursor
         /\ Page # Rest => \E l \in Page :
              /\ NextCursor = [key |-> rows[l].key, id |-> l]
              /\ \A j \in Page \ {l} : Before(j, l)
              /\ \A i \in Rest \ Page : Before(l, i)
<1>. DEFINE Order == {p \in There \X There : Before(p[1], p[2])}
            Back == {p \in There \X There : Before(p[2], p[1])}
            Above(i) == {j \in Rest : Before(j, i)}
<1>1. Rest \subseteq There /\ There \subseteq Rows
  BY RestIsBehind
<1>2. \A S \in SUBSET Rest : IsFiniteSet(S)
  BY <1>1, PaginationAssumption, FS_Subset
<1>3. Page \subseteq Rest /\ Page = {i \in Rest : Cardinality(Above(i)) < Limit}
  BY DEF Page, Begins
<1>4. Page = Rest => NextCursor = NoCursor
  BY DEF NextCursor
<1>5. ASSUME Page # Rest
      PROVE  \E l \in Page :
               /\ NextCursor = [key |-> rows[l].key, id |-> l]
               /\ \A j \in Page \ {l} : Before(j, l)
               /\ \A i \in Rest \ Page : Before(l, i)
  <2>1. Rest # {}
    BY <1>3, <1>5
  <2>2. \E f \in Rest : \A j \in Rest \ {f} : <<j, f>> \in Back
    <3>1. \A i, j, k \in Rest : <<i, j>> \in Back /\ <<j, k>> \in Back => <<i, k>> \in Back
      BY <1>1, OrderFacts
    <3>2. \A i \in Rest : <<i, i>> \notin Back
      BY <1>1, OrderFacts
    <3>3. \A i, j \in Rest : i = j \/ <<i, j>> \in Back \/ <<j, i>> \in Back
      BY <1>1, OrderFacts
    <3>. HIDE DEF Back
    <3>. QED
      BY <1>2, <2>1, <3>1, <3>2, <3>3, LastExists
  <2>3. PICK f \in Rest : \A j \in Rest \ {f} : Before(f, j)
    BY <2>2
  <2>4. Above(f) = {}
    BY <1>1, <2>3, OrderFacts
  <2>5. f \in Page
    <3>1. Cardinality({}) = 0
      BY FS_EmptySet
    <3>2. Cardinality(Above(f)) = 0
      BY <2>4, <3>1
    <3>. QED
      BY <1>3, <3>2, PaginationAssumption
  <2>6. \E l \in Page : \A j \in Page \ {l} : <<j, l>> \in Order
    <3>1. \A i, j, k \in Page : <<i, j>> \in Order /\ <<j, k>> \in Order => <<i, k>> \in Order
      BY <1>1, <1>3, OrderFacts
    <3>2. \A i \in Page : <<i, i>> \notin Order
      BY <1>1, <1>3, OrderFacts
    <3>3. \A i, j \in Page : i = j \/ <<i, j>> \in Order \/ <<j, i>> \in Order
      BY <1>1, <1>3, OrderFacts
    <3>4. IsFiniteSet(Page) /\ Page # {}
      BY <1>2, <1>3, <2>5
    <3>. HIDE DEF Order
    <3>. QED
      BY <3>1, <3>2, <3>3, <3>4, LastExists
  <2>7. \E l \in Page : \A j \in Page \ {l} : Before(j, l)
    BY <2>6
  <2>8. PICK l \in Page : /\ NextCursor = [key |-> rows[l].key, id |-> l]
                          /\ \A j \in Page \ {l} : Before(j, l)
    BY <1>5, <2>7, Zenon DEF NextCursor
  <2>9. ASSUME NEW i \in Rest \ Page PROVE Before(l, i)
    <3>1. i # l /\ i \in There /\ l \in There
      BY <1>1, <1>3, <2>8, <2>9
    <3>2. ASSUME Before(i, l) PROVE FALSE
      <4>1. Above(i) \subseteq Above(l)
        BY <1>1, <3>1, <3>2, OrderFacts
      <4>2. IsFiniteSet(Above(l)) /\ IsFiniteSet(Above(i))
        BY <1>2
      <4>3. Cardinality(Above(i)) <= Cardinality(Above(l))
        BY <4>1, <4>2, FS_Subset
      <4>4. Cardinality(Above(i)) \in Nat /\ Cardinality(Above(l)) \in Nat
        BY <4>2, FS_CardinalityType
      <4>5. Cardinality(Above(l)) < Limit /\ ~(Cardinality(Above(i)) < Limit)
        BY <1>3, <2>8, <2>9
      <4>. HIDE DEF Above
      <4>. QED
        BY <4>3, <4>4, <4>5, PaginationAssumption
    <3>. QED
      BY <3>1, <3>2, OrderFacts
  <2>. QED
    BY <2>8, <2>9
<1>. QED
  BY <1>3, <1>4, <1>5

-----------------------------------------------------------------------------
(* Steps.                                                                  *)

LEMMA InitInv == Init => Inv
<1>. SUFFICES ASSUME Init PROVE Inv
  OBVIOUS
<1>. USE PaginationAssumption DEF Init
<1>1. TypeOK
  <2>1. rows \in [Rows -> row \cup {Absent}]
    BY DEF row, Statuses
  <2>2. stays \subseteq Rows
    BY DEF Matching, There
  <2>4. listed \in [Rows -> 0 .. 2] /\ 0 \in 0 .. 2
    OBVIOUS
  <2>5. sunk \subseteq Rows /\ ended \in BOOLEAN /\ restarted \in BOOLEAN /\ failed \in BOOLEAN
    OBVIOUS
  <2>3. now \in 0 .. MaxKey + MaxChanges /\ changes \in 0 .. MaxChanges
    OBVIOUS
  <2>. QED
    BY <2>1, <2>2, <2>3, <2>4, <2>5 DEF TypeOK
<1>2. Bounded
  BY DEF Bounded, There
<1>3. Placed /\ Passed /\ OnceUnlessMoved
  BY DEF Placed, Passed, OnceUnlessMoved
<1>4. Ahead
  BY DEF Ahead
<1>. QED
  BY <1>1, <1>2, <1>3, <1>4 DEF Inv

LEMMA UpTo == ASSUME NEW n \in Nat PROVE 0 .. n \subseteq Nat /\ \A k \in Nat : k <= n => k \in 0 .. n
OBVIOUS

LEMMA MaxOfTwo == ASSUME NEW m \in Int, NEW n \in Int PROVE Max({m, n}) = IF m >= n THEN m ELSE n
BY DEF Max

LEMMA MinOfTwo == ASSUME NEW m \in Int, NEW n \in Int PROVE Min({m, n}) = IF m <= n THEN m ELSE n
BY DEF Min

\* What changes do: one row gets a key, which the bound covers, and a status.
LEMMA ChangeFacts ==
  ASSUME TypeOK, Bounded, NEW i \in Rows,
         Arrive(i) \/ Touch(i) \/ Recount(i) \/ \E s \in Statuses : SetStatus(i, s)
  PROVE  /\ ~ended /\ changes' = changes + 1 /\ changes < MaxChanges
         /\ now' \in 0 .. MaxKey + changes'
         /\ \E r \in row : Put(i, r) /\ r.key <= MaxKey + changes'
<1>. USE PaginationAssumption
<1>1. /\ ~ended /\ changes' = changes + 1 /\ changes < MaxChanges
      /\ changes \in Nat /\ now \in Nat /\ now <= MaxKey + changes
  <2>1. Change
    BY DEF Arrive, Touch, Recount, SetStatus
  <2>. QED
    BY <2>1 DEF Change, TypeOK, Bounded
<1>2. rows[i] # Absent => /\ rows[i] \in row /\ rows[i].key \in Nat
                          /\ rows[i].key <= MaxKey + changes
  BY DEF TypeOK, Bounded, row, There
<1>3. \A t \in Times : t \in 0 .. MaxKey + changes' /\ Max({now, t}) \in 0 .. MaxKey + changes'
  BY <1>1, MaxOfTwo DEF Times
<1>4. \A k \in 0 .. MaxKey + changes', s \in Statuses :
        [key |-> k, status |-> s] \in row /\ [key |-> k, status |-> s].key <= MaxKey + changes'
  BY <1>1 DEF row
<1>5. listing.sort \in {"last_seen", "first_seen", "count", "users", "received_at"}
      /\ (listing.of = "issues" => listing.sort # "received_at")
  BY DEF TypeOK, listings
<1>6. CASE Arrive(i)
  <2>1. PICK t \in Times, u \in {0, 1} : /\ Put(i, [key |-> FirstKey(t, u), status |-> "unresolved"])
                                         /\ now' = Max({now, t})
    BY <1>6 DEF Arrive
  <2>2. FirstKey(t, u) = t \/ FirstKey(t, u) = 1 \/ FirstKey(t, u) = u
    BY <1>5, Zenon DEF FirstKey, Timed
  <2>3. /\ t \in 0 .. MaxKey + changes'
        /\ 0 \in 0 .. MaxKey + changes' /\ 1 \in 0 .. MaxKey + changes'
    <3>1. MaxKey + changes' \in Nat /\ 1 <= MaxKey + changes'
      BY <1>1
    <3>2. t \in 0 .. MaxKey + changes'
      BY <1>3
    <3>. QED
      BY <3>1, <3>2, UpTo
  <2>4. FirstKey(t, u) \in 0 .. MaxKey + changes'
    BY <2>2, <2>3
  <2>. QED
    BY <1>1, <1>3, <1>4, <2>1, <2>4 DEF Statuses
<1>7. CASE Touch(i)
  <2>1. PICK t \in Times, u \in {0, 1} : /\ Put(i, [key |-> NextKey(i, t, u), status |-> "unresolved"])
                                         /\ now' = Max({now, t})
    BY <1>7 DEF Touch
  <2>2. \/ NextKey(i, t, u) = t \/ NextKey(i, t, u) = rows[i].key
        \/ NextKey(i, t, u) = rows[i].key + 1 \/ NextKey(i, t, u) = rows[i].key + u
    BY <1>5, <1>7, Zenon DEF NextKey, Touch
  <2>3. rows[i].key \in Nat /\ rows[i].key + 1 <= MaxKey + changes'
    BY <1>1, <1>2, <1>7 DEF Touch
  <2>4. /\ rows[i].key \in 0 .. MaxKey + changes' /\ rows[i].key + 1 \in 0 .. MaxKey + changes'
        /\ rows[i].key + u \in 0 .. MaxKey + changes' /\ t \in 0 .. MaxKey + changes'
    <3>1. MaxKey + changes' \in Nat /\ (u = 0 \/ u = 1)
      BY <1>1
    <3>2. t \in 0 .. MaxKey + changes'
      BY <1>3
    <3>. QED
      BY <2>3, <3>1, <3>2
  <2>5. NextKey(i, t, u) \in 0 .. MaxKey + changes'
    BY <2>2, <2>4
  <2>. QED
    BY <1>1, <1>3, <1>4, <2>1, <2>5 DEF Statuses
<1>8. CASE Recount(i)
  <2>1. PICK k \in Fewer(rows[i].key) : Put(i, [rows[i] EXCEPT !.key = k])
    BY <1>8 DEF Recount
  <2>2. k \in 0 .. MaxKey + changes' /\ now' = now /\ rows[i].status \in Statuses
    BY <1>1, <1>2, <1>8 DEF Recount, Fewer, row
  <2>3. [rows[i] EXCEPT !.key = k] = [key |-> k, status |-> rows[i].status]
    BY <1>2, <1>8 DEF Recount, row
  <2>. QED
    BY <1>1, <1>4, <2>1, <2>2, <2>3
<1>9. CASE \E s \in Statuses : SetStatus(i, s)
  <2>1. PICK s \in Statuses : SetStatus(i, s)
    BY <1>9
  <2>2. [rows[i] EXCEPT !.status = s] = [key |-> rows[i].key, status |-> s]
    BY <1>2, <2>1 DEF SetStatus, row
  <2>3. rows[i].key \in 0 .. MaxKey + changes' /\ now' = now
    BY <1>1, <1>2, <2>1 DEF SetStatus
  <2>. QED
    BY <1>1, <1>4, <2>1, <2>2, <2>3 DEF SetStatus
<1>. QED
  BY <1>6, <1>7, <1>8, <1>9

\* Changes: a row that moves up leaves the promise, one that moves down may come again.
LEMMA StepChange ==
  ASSUME Inv, NEW i \in Rows,
         Arrive(i) \/ Touch(i) \/ Recount(i) \/ \E s \in Statuses : SetStatus(i, s)
  PROVE  Inv'
<1>. USE PaginationAssumption
<1>1. /\ ~ended /\ changes' = changes + 1 /\ changes < MaxChanges
      /\ now' \in 0 .. MaxKey + changes'
      /\ \E r \in row : Put(i, r) /\ r.key <= MaxKey + changes'
  BY ChangeFacts DEF Inv
<1>2. PICK r \in row : Put(i, r) /\ r.key <= MaxKey + changes'
  BY <1>1
<1>3. TypeOK /\ Bounded /\ Placed /\ Passed /\ Ahead /\ OnceUnlessMoved
  BY DEF Inv
<1>4. /\ rows' = [rows EXCEPT ![i] = r]
      /\ UNCHANGED <<listing, cursor, ended, listed, restarted, failed>>
      /\ stays' \subseteq stays /\ sunk \subseteq sunk' /\ sunk' \subseteq Rows
      /\ i \in stays' => rows[i] # Absent /\ r.key <= rows[i].key /\ r.status = rows[i].status
      /\ rows[i] # Absent /\ r.key < rows[i].key => i \in sunk'
  BY <1>2, <1>3 DEF Put, TypeOK
<1>5. /\ rows'[i] = r /\ r # Absent
      /\ \A j \in Rows \ {i} : rows'[j] = rows[j]
      /\ \A j \in Rows : rows[j] # Absent => rows[j].key \in Nat
      /\ r.key \in Nat
  BY <1>2, <1>3, <1>4 DEF TypeOK, row, Absent
<1>6. TypeOK'
  <2>1. rows' \in [Rows -> row \cup {Absent}]
    BY <1>3, <1>4 DEF TypeOK
  <2>2. now' \in 0 .. MaxKey + MaxChanges /\ changes' \in 0 .. MaxChanges
    BY <1>1, <1>3 DEF TypeOK
  <2>3. row' = row
    BY DEF row
  <2>. QED
    BY <1>3, <1>4, <2>1, <2>2, <2>3 DEF TypeOK
<1>7. Bounded'
  <2>1. \A j \in Rows : rows'[j] # Absent => rows'[j].key <= MaxKey + changes'
    BY <1>1, <1>2, <1>3, <1>5 DEF Bounded, There, TypeOK
  <2>. QED
    BY <1>1, <2>1 DEF Bounded, There
<1>8. Placed'
  BY <1>3, <1>4, <1>5 DEF Placed, There
<1>9. Passed'
  <2>1. ASSUME NEW j \in Rows \ {i} PROVE Behind(j)' => Behind(j)
    BY <1>4, <1>5, <2>1 DEF Behind
  <2>2. ASSUME cursor # NoCursor, Behind(i)', rows[i] # Absent, ~(r.key < rows[i].key)
        PROVE  Behind(i)
    <3>1. cursor.key \in Nat
      BY <1>3, <2>2 DEF TypeOK
    <3>. QED
      BY <1>4, <1>5, <2>2, <3>1 DEF Behind
  <2>3. listed[i] > 0 => rows[i] # Absent
    BY <1>3 DEF Placed, There
  <2>. QED
    BY <1>3, <1>4, <2>1, <2>2, <2>3 DEF Passed
<1>10. Ahead'
  <2>. SUFFICES ASSUME ~failed, NEW j \in stays', listed[j] = 0
                PROVE  j \in Matching' /\ (cursor = NoCursor \/ Behind(j)')
    BY <1>1, <1>3, <1>4 DEF Ahead, TypeOK
  <2>1. j \in Rows /\ j \in Matching /\ (cursor = NoCursor \/ Behind(j))
    BY <1>3, <1>4 DEF Ahead, TypeOK
  <2>2. CASE j # i
    BY <1>4, <1>5, <2>1, <2>2 DEF Matching, There, Behind
  <2>3. CASE j = i
    <3>1. j \in Matching'
      BY <1>4, <1>5, <2>1, <2>3 DEF Matching, There
    <3>2. ASSUME cursor # NoCursor PROVE Behind(j)'
      <4>1. cursor.key \in Nat
        BY <1>3, <3>2 DEF TypeOK
      <4>. QED
        BY <1>4, <1>5, <2>1, <2>3, <3>2, <4>1 DEF Behind
    <3>. QED
      BY <3>1, <3>2
  <2>. QED
    BY <2>2, <2>3
<1>11. OnceUnlessMoved'
  BY <1>3, <1>4 DEF OnceUnlessMoved
<1>. QED
  BY <1>6, <1>7, <1>8, <1>9, <1>10, <1>11 DEF Inv

\* A page takes the rows next behind the cursor and puts the cursor behind them.
LEMMA StepPage ==
  ASSUME Inv, FetchPage
  PROVE  Inv'
<1>. USE PaginationAssumption
<1>1. TypeOK /\ Bounded /\ Placed /\ Passed /\ Ahead /\ OnceUnlessMoved
  BY DEF Inv
<1>2. /\ ~ended /\ cursor' = NextCursor /\ (ended' <=> NextCursor = NoCursor)
      /\ UNCHANGED <<listing, rows, now, changes, stays, sunk, failed>>
      /\ listed' = [i \in Rows |-> IF i \in Page THEN Min({2, listed[i] + 1}) ELSE listed[i]]
      /\ ended' \in BOOLEAN
  BY DEF FetchPage, Counted
<1>3. /\ restarted => restarted'
      /\ Restarts => restarted'
      /\ restarted' \in BOOLEAN
  BY <1>1 DEF FetchPage, TypeOK
<1>4. /\ Page \subseteq Rest /\ Rest \subseteq Matching /\ Matching \subseteq There
      /\ There \subseteq Rows
      /\ cursor = NoCursor => Rest = Matching
      /\ \/ Restarts /\ Rest = Matching
         \/ cursor = NoCursor
         \/ Rest = {i \in Matching : Behind(i)}
  BY <1>1, PageFacts, RestIsBehind
<1>5. \A i \in Rows : /\ listed[i] \in 0 .. 2 /\ listed'[i] \in 0 .. 2
                      /\ i \in Page => listed'[i] > 0
                      /\ i \in Page /\ listed'[i] > 1 => listed[i] > 0
                      /\ i \notin Page => listed'[i] = listed[i]
                      /\ listed[i] > 0 => listed'[i] > 0
  BY <1>1, <1>2, MinOfTwo DEF TypeOK
<1>6. Page # Rest => \E l \in Page :
              /\ NextCursor = [key |-> rows[l].key, id |-> l]
              /\ \A j \in Page \ {l} : Before(j, l)
              /\ \A i \in Rest \ Page : Before(l, i)
  BY <1>1, PageFacts
<1>7. Page = Rest => NextCursor = NoCursor
  BY <1>1, PageFacts
<1>8. \A i \in There : i \in Nat /\ rows[i].key \in Nat /\ rows[i].key \in 0 .. MaxKey + MaxChanges
  BY <1>1 DEF TypeOK, There, row
<1>9. TypeOK'
  <2>1. cursor' = NoCursor \/ (cursor'.key \in 0 .. MaxKey + MaxChanges /\ cursor'.id \in Rows)
    <3>1. CASE Page = Rest
      BY <1>2, <1>7, <3>1
    <3>2. CASE Page # Rest
      <4>1. PICK l \in Page : NextCursor = [key |-> rows[l].key, id |-> l]
        BY <1>6, <3>2
      <4>2. l \in There /\ l \in Rows /\ rows[l].key \in 0 .. MaxKey + MaxChanges
        BY <1>4, <1>8
      <4>. QED
        BY <1>2, <4>1, <4>2
    <3>. QED
      BY <3>1, <3>2
  <2>2. listed' \in [Rows -> 0 .. 2]
    BY <1>2, <1>5
  <2>3. ended' => cursor' = NoCursor
    BY <1>2
  <2>. QED
    BY <1>1, <1>2, <1>3, <2>1, <2>2, <2>3 DEF TypeOK, row
<1>10. Bounded'
  BY <1>1, <1>2 DEF Bounded, There
<1>11. Placed'
  BY <1>1, <1>2, <1>4, <1>5 DEF Placed, There
\* Where a page leaves rows behind, the cursor is one of its rows.
<1>12. ASSUME NEW l \in Page, NextCursor = [key |-> rows[l].key, id |-> l]
       PROVE  \A i \in There : /\ Before(l, i) => Behind(i)'
                               /\ i = l \/ Before(i, l) => ~Behind(i)'
  <2>1. cursor'.key = rows[l].key /\ cursor'.id = l
    BY <1>2, <1>12
  <2>. QED
    BY <1>2, <1>4, <1>8, <2>1 DEF Before, Behind
<1>13. ASSUME NEW i \in Page, listed[i] > 0 PROVE i \in sunk \/ restarted'
  <2>1. cursor # NoCursor
    BY <1>1, <1>2, <1>4, <1>13 DEF Placed
  <2>2. CASE Behind(i)
    BY <1>1, <1>3, <1>4, <1>13, <2>1, <2>2 DEF Passed
  <2>3. CASE ~Behind(i)
    BY <1>3, <1>4, <1>13, <2>1, <2>3
  <2>. QED
    BY <2>2, <2>3
<1>14. OnceUnlessMoved'
  BY <1>1, <1>2, <1>3, <1>5, <1>13 DEF OnceUnlessMoved
<1>15. Passed'
  <2>. SUFFICES ASSUME cursor' # NoCursor, NEW i \in Rows, listed'[i] > 0, Behind(i)'
                PROVE  i \in sunk \/ restarted'
    BY <1>2 DEF Passed
  <2>1. PICK l \in Page : /\ NextCursor = [key |-> rows[l].key, id |-> l]
                          /\ \A j \in Page \ {l} : Before(j, l)
    BY <1>2, <1>6, <1>7
  <2>2. i \notin Page
    BY <1>4, <1>12, <2>1
  <2>3. listed[i] > 0 /\ i \in There /\ cursor # NoCursor
    BY <1>1, <1>2, <1>5, <2>2 DEF Placed
  <2>4. CASE Behind(i)
    BY <1>1, <1>3, <2>3, <2>4 DEF Passed
  <2>5. CASE ~Behind(i)
    <3>1. CASE Rest = {j \in Matching : Behind(j)}
      <4>1. Behind(l) /\ l \in There
        BY <1>4, <3>1
      <4>2. Before(l, i)
        BY <1>4, <1>8, <1>12, <2>1, <2>3, OrderFacts, <1>1
      <4>3. Behind(i)
        <5>1. cursor.key \in 0 .. MaxKey + MaxChanges /\ cursor.id \in Rows
          BY <1>1, <2>3 DEF TypeOK
        <5>2. cursor.key \in Nat /\ cursor.id \in Nat
          <6>1. MaxKey + MaxChanges \in Nat
            OBVIOUS
          <6>. QED
            BY <5>1, <6>1, UpTo
        <5>. QED
          BY <1>8, <2>3, <4>1, <4>2, <5>2 DEF Behind, Before
      <4>. QED
        BY <2>5, <4>3
    <3>2. CASE Restarts
      BY <1>3, <2>3, <3>2
    <3>. QED
      BY <1>4, <2>3, <3>1, <3>2
  <2>. QED
    BY <2>4, <2>5
<1>16. Ahead'
  <2>. SUFFICES ASSUME ~failed, NEW i \in stays, ~(listed'[i] > 0)
                PROVE  ~ended' /\ i \in Matching' /\ (cursor' = NoCursor \/ Behind(i)')
    BY <1>2 DEF Ahead
  <2>1. i \in Rows /\ i \notin Page /\ ~(listed[i] > 0)
    BY <1>1, <1>5 DEF TypeOK
  <2>2. i \in Rest
    BY <1>1, <1>4, <2>1 DEF Ahead
  <2>3. PICK l \in Page : /\ NextCursor = [key |-> rows[l].key, id |-> l]
                          /\ Before(l, i)
    BY <1>6, <2>1, <2>2
  <2>4. i \in There /\ Behind(i)'
    BY <1>4, <1>12, <2>2, <2>3
  <2>5. NextCursor # NoCursor
    <3>1. NextCursor.key \in Nat /\ NoCursor.key = -1
      BY <1>4, <1>8, <2>3 DEF NoCursor
    <3>. QED
      BY <3>1
  <2>6. i \in Matching'
    BY <1>2, <1>4, <2>2 DEF Matching, There
  <2>. QED
    BY <1>2, <2>4, <2>5, <2>6
<1>. QED
  BY <1>9, <1>10, <1>11, <1>14, <1>15, <1>16 DEF Inv

\* A page cut short takes rows behind the cursor, too, and ends the listing.
LEMMA StepFail ==
  ASSUME Inv, FailPage
  PROVE  Inv'
<1>. USE PaginationAssumption
<1>1. TypeOK /\ Placed /\ Passed /\ Bounded /\ OnceUnlessMoved
  BY DEF Inv
<1>2. PICK n \in 0 .. Limit : listed' = Counted(Begins(n))
  BY DEF FailPage
<1>3. /\ ended' = TRUE /\ failed' = TRUE /\ cursor' = NoCursor
      /\ ~ended /\ listing.backend = "postgres"
      /\ UNCHANGED <<listing, rows, now, changes, stays, sunk>>
      /\ restarted' \in BOOLEAN /\ (restarted => restarted') /\ (Restarts => restarted')
  BY <1>1 DEF FailPage, TypeOK
<1>4. /\ Begins(n) \subseteq Rest /\ Rest \subseteq Matching /\ Matching \subseteq There
      /\ There \subseteq Rows
      /\ Restarts \/ cursor = NoCursor \/ Rest = {i \in Matching : Behind(i)}
  BY <1>1, RestIsBehind DEF Begins
<1>5. \A i \in Rows : /\ listed'[i] \in 0 .. 2
                      /\ i \in Begins(n) /\ listed'[i] > 1 => listed[i] > 0
                      /\ i \notin Begins(n) => listed'[i] = listed[i]
  BY <1>1, <1>2, MinOfTwo DEF TypeOK, Counted
<1>6. TypeOK'
  <2>1. listed' \in [Rows -> 0 .. 2]
    BY <1>2, <1>5 DEF Counted
  <2>. QED
    BY <1>1, <1>3, <2>1 DEF TypeOK, row
<1>7. ASSUME NEW i \in Begins(n), listed[i] > 0 PROVE i \in sunk \/ restarted'
  BY <1>1, <1>3, <1>4, <1>7 DEF Placed, Passed
<1>8. Placed' /\ OnceUnlessMoved'
  BY <1>1, <1>3, <1>4, <1>5, <1>7 DEF Placed, OnceUnlessMoved, There
<1>9. Bounded' /\ Passed' /\ Ahead'
  BY <1>1, <1>3 DEF Bounded, Passed, Ahead, There
<1>. QED
  BY <1>6, <1>8, <1>9 DEF Inv

LEMMA StepInv == Inv /\ [Next]_vars => Inv'
<1>. SUFFICES ASSUME Inv, [Next]_vars PROVE Inv'
  OBVIOUS
<1>1. CASE FetchPage
  BY <1>1, StepPage
<1>2. CASE FailPage
  BY <1>2, StepFail
<1>3. CASE UNCHANGED vars
  BY <1>3 DEF vars, Inv, TypeOK, Bounded, Placed, Passed, Ahead, OnceUnlessMoved, There,
              Matching, Behind, row
<1>4. ASSUME NEW i \in Rows, Arrive(i) \/ Touch(i) \/ Recount(i) \/ \E s \in Statuses : SetStatus(i, s)
      PROVE  Inv'
  BY <1>4, StepChange
<1>. QED
  BY <1>1, <1>2, <1>3, <1>4 DEF Next

-----------------------------------------------------------------------------
\* The invariant of Pagination: whatever the order, what has been listed is before the
\* cursor and what stays is listed or behind it, while rows change between the pages.
THEOREM ListingInvariant == Spec => []Inv
<1>1. Inv /\ [Next]_vars => Inv'
  BY StepInv
<1>. QED
  BY <1>1, InitInv, PTL DEF Spec

\* No row is on two pages unless its own key fell or a cursor was not used, its row having
\* gone in memory or the listing being the Events of PostgreSQL (ListIssuesPage,
\* ListEventsPage of both stores).
THEOREM RowsComeOnce == Spec => []OnceUnlessMoved
<1>1. Inv => OnceUnlessMoved
  BY DEF Inv
<1>. QED
  BY <1>1, ListingInvariant, PTL

\* A listing that ends without a failed query has every row that was there from the start
\* and neither moved up nor changed its status (ListIssuesPage).
THEOREM ListingIsComplete == Spec => []CompleteUnlessMoved
<1>1. Inv => CompleteUnlessMoved
  BY DEF Inv, Ahead, CompleteUnlessMoved
<1>. QED
  BY <1>1, ListingInvariant, PTL

=============================================================================
