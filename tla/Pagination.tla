------------------------------ MODULE Pagination ------------------------------
(***************************************************************************)
(* Listing by pages (postgres.go, features.go): the console and             *)
(* sentryx-reconcile follow the cursor of each page to the next one while   *)
(* Events arrive, statuses are set and users are recounted.                 *)
(*                                                                          *)
(* A row is an Issue or an Event, reduced to the column it is sorted by and *)
(* to its status.  One client lists, from the initial state on.             *)
(***************************************************************************)
EXTENDS Integers, FiniteSets, FiniteSetsExt

CONSTANTS
  Rows,       \* the rows there may be, in the order of their ids: 1 .. n
  Limit,      \* rows per page
  MaxKey,     \* bound on the initial keys
  MaxChanges  \* bound on the changes during the listing

Backends == {"postgres", "memory"}
listings == [backend : Backends, of : {"issues"},
             sort : {"last_seen", "first_seen", "count", "users"},
             status : {"", "unresolved", "resolved"}]
            \cup [backend : Backends, of : {"events"}, sort : {"received_at"}, status : {""}]

ASSUME PaginationAssumption ==
  /\ Rows \subseteq Nat /\ IsFiniteSet(Rows)
  /\ Limit \in Nat \ {0} /\ MaxKey \in Nat /\ MaxChanges \in Nat

Absent == [key |-> -1, status |-> "absent"]
Statuses == {"unresolved", "resolved"}
NoCursor == [key |-> -1, id |-> -1]

VARIABLES
  listing,   \* what is listed: the store, the table, the order and the filter
  rows,      \* the table
  now,       \* the latest time at which anything was received
  cursor,    \* where the client goes on
  ended,     \* the client has the last page
  changes,
  \* what happened, for the properties
  listed,    \* on how many pages each row was, 2 for more
  stays,     \* rows to be listed from the start that have kept status and place
  sunk,      \* rows whose key has become smaller
  restarted, \* a page with a cursor was taken from the whole list
  failed     \* a query failed

vars == <<listing, rows, now, cursor, ended, changes, listed, stays, sunk, restarted, failed>>

row == [key : 0 .. MaxKey + MaxChanges, status : Statuses]

TypeOK ==
  /\ listing \in listings
  /\ rows \in [Rows -> row \cup {Absent}]
  /\ now \in 0 .. MaxKey + MaxChanges
  /\ cursor = NoCursor \/ (cursor.key \in 0 .. MaxKey + MaxChanges /\ cursor.id \in Rows)
  /\ ended \in BOOLEAN /\ restarted \in BOOLEAN /\ failed \in BOOLEAN
  /\ changes \in 0 .. MaxChanges
  /\ listed \in [Rows -> 0 .. 2]
  /\ stays \subseteq Rows /\ sunk \subseteq Rows
  /\ ended => cursor = NoCursor

----------------------------------------------------------------------------

There == {i \in Rows : rows[i] # Absent}

\* The rows the filter lets through.
Matching == {i \in There : listing.status \in {"", rows[i].status}}

Init ==
  /\ listing \in listings
  /\ rows \in [Rows -> [key : 0 .. MaxKey, status : Statuses] \cup {Absent}]
  /\ listing.of = "events" => \A i \in There : rows[i].status = "unresolved"
  /\ now = MaxKey
  /\ cursor = NoCursor
  /\ ended = FALSE
  /\ changes = 0
  /\ listed = [i \in Rows |-> 0]
  /\ stays = Matching
  /\ sunk = {}
  /\ restarted = FALSE
  /\ failed = FALSE

----------------------------------------------------------------------------
(* What happens to the rows meanwhile. *)

Timed == listing.sort \in {"last_seen", "received_at"}

\* Times are read before the transaction: they may be committed out of order.
Times == {t \in now - 1 .. now + 1 : t >= 0}

Change == /\ ~ended /\ changes < MaxChanges
          /\ changes' = changes + 1

\* Row i becomes r.
Put(i, r) ==
  /\ rows' = [rows EXCEPT ![i] = r]
  /\ stays' = IF rows[i] # Absent /\ r.key <= rows[i].key /\ r.status = rows[i].status
              THEN stays ELSE stays \ {i}
  /\ sunk' = IF rows[i] # Absent /\ r.key < rows[i].key THEN sunk \cup {i} ELSE sunk
  /\ UNCHANGED <<listing, cursor, ended, listed, restarted, failed>>

\* The key of a row that arrives, or is counted, at time t with or without a new user.
FirstKey(t, u) ==
  CASE Timed \/ listing.sort = "first_seen" -> t
    [] listing.sort = "count" -> 1
    [] listing.sort = "users" -> u
NextKey(i, t, u) ==
  CASE listing.sort = "last_seen" -> t
    [] listing.sort = "first_seen" -> rows[i].key
    [] listing.sort = "count" -> rows[i].key + 1
    [] listing.sort = "users" -> rows[i].key + u

\* The first Event of an Issue, or an Event.
Arrive(i) ==
  /\ Change /\ rows[i] = Absent
  /\ \E t \in Times, u \in {0, 1} :
       /\ Put(i, [key |-> FirstKey(t, u), status |-> "unresolved"])
       /\ now' = Max({now, t})

\* An Event of an Issue that is there: a resolved one is unresolved again.
Touch(i) ==
  /\ Change /\ rows[i] # Absent /\ listing.of = "issues"
  /\ \E t \in Times, u \in {0, 1} :
       /\ Put(i, [key |-> NextKey(i, t, u), status |-> "unresolved"])
       /\ now' = Max({now, t})

SetStatus(i, s) ==
  /\ Change /\ rows[i] # Absent /\ listing.of = "issues"
  /\ Put(i, [rows[i] EXCEPT !.status = s])
  /\ UNCHANGED now

Fewer(key) == 0 .. key - 1

\* Retention takes Events and with them users of an Issue; the memory has no retention.
Recount(i) ==
  /\ Change /\ rows[i] # Absent /\ listing.sort = "users" /\ listing.backend = "postgres"
  /\ \E key \in Fewer(rows[i].key) : Put(i, [rows[i] EXCEPT !.key = key])
  /\ UNCHANGED now

----------------------------------------------------------------------------
(* Pages. *)

\* The order of the rows: newest or largest first; ids of equal keys descend in
\* PostgreSQL and ascend in memory.
Before(i, j) ==
  \/ rows[i].key > rows[j].key
  \/ rows[i].key = rows[j].key /\ IF listing.backend = "postgres" THEN i > j ELSE i < j

\* Broken on purpose: the variants the checks must refute.
BelowOrAt(i) == rows[i].key <= cursor.key
BelowKey(i) == rows[i].key < cursor.key
BelowNothing(i) == TRUE

\* The condition of ListIssuesPage on the rows after a cursor.
Below(i) ==
  \/ rows[i].key < cursor.key
  \/ rows[i].key = cursor.key /\ i < cursor.id

\* In memory the list goes on after the row the cursor names; it starts again
\* if there is none with that key.
Position == {i \in Matching : i = cursor.id /\ rows[i].key = cursor.key}

\* ListEventsPage of PostgreSQL writes cursors but does not read them.
Unread == listing.backend = "postgres" /\ listing.of = "events"

\* What a page is taken from.
Rest ==
  IF cursor = NoCursor \/ Unread THEN Matching
  ELSE IF listing.backend = "postgres" THEN {i \in Matching : Below(i)}
  ELSE {i \in Matching : \A c \in Position : Before(c, i)}

\* A request with a cursor is answered as if it had none.
Restarts == cursor # NoCursor /\ (Unread \/ (listing.backend = "memory" /\ Position = {}))

\* The first rows of the rest.
Begins(n) == {i \in Rest : Cardinality({j \in Rest : Before(j, i)}) < n}
Page == Begins(Limit)

Counted(page) == [i \in Rows |-> IF i \in page THEN Min({2, listed[i] + 1}) ELSE listed[i]]

\* There is a cursor, of the last row of the page, if there are rows beyond it.
NextCursor ==
  IF Page = Rest THEN NoCursor
  ELSE LET last == CHOOSE i \in Page : \A j \in Page \ {i} : Before(j, i)
       IN  [key |-> rows[last].key, id |-> last]

\* The client asks for the page after its cursor, until there is no cursor.
FetchPage ==
  /\ ~ended
  /\ listed' = Counted(Page)
  /\ cursor' = NextCursor
  /\ ended' = (NextCursor = NoCursor)
  /\ restarted' = (restarted \/ Restarts)
  /\ UNCHANGED <<listing, rows, now, changes, stays, sunk, failed>>

\* A query that fails is answered by a page without a cursor: an empty one, or the rows
\* that were read before it failed, as rows.Err is not asked.
FailPage ==
  /\ ~ended /\ listing.backend = "postgres"
  /\ \E n \in 0 .. Limit : listed' = Counted(Begins(n))
  /\ cursor' = NoCursor
  /\ ended' = TRUE
  /\ failed' = TRUE
  /\ restarted' = (restarted \/ Restarts)
  /\ UNCHANGED <<listing, rows, now, changes, stays, sunk>>

Next ==
  \/ \E i \in Rows : Arrive(i) \/ Touch(i) \/ Recount(i)
  \/ \E i \in Rows, s \in Statuses : SetStatus(i, s)
  \/ FetchPage
  \/ FailPage

Spec == Init /\ [][Next]_vars /\ WF_vars(FetchPage)

----------------------------------------------------------------------------
(* Properties. *)

\* No row is listed twice, whatever arrives or changes between the pages and
\* however many rows have equal keys, unless its own key became smaller or a cursor was
\* not used: in memory the row it names had gone, the Events of PostgreSQL never do.
OnceUnlessMoved ==
  \A i \in Rows : listed[i] > 1 => i \in sunk \/ restarted

\* A listing that ends without a failed query has every row that was there from
\* the start and has kept its status and not moved up.
CompleteUnlessMoved ==
  ended /\ ~failed => \A i \in stays : listed[i] > 0

\* A client that follows the cursors, as sentryx-reconcile does, comes to an end once
\* changes do.  The only listing it may follow for ever is that of the Events of
\* PostgreSQL when they do not fit one page (ListEventsPage, fetchSentryX).
ListingEnds == <>ended \/ <>[](Unread /\ Cardinality(Matching) > Limit)
=============================================================================
