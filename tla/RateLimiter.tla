------------------------------ MODULE RateLimiter ------------------------------
(***************************************************************************)
(* The fixed-window limiter of one server (security.go), which handleAPI    *)
(* asks for each request that has a valid key: Allow, its cleanup of        *)
(* expired windows and of a full table, and Retry-After.                    *)
(*                                                                          *)
(* A request reads the clock before it takes the mutex, so that requests    *)
(* may be judged in another order than that of their times.                 *)
(*                                                                          *)
(* LimiterInit, LimiterNext and LimiterSpec bear the name of the component, *)
(* so that it can be extended together with ProjectKeys, the gate before it. *)
(***************************************************************************)
EXTENDS Integers, FiniteSets, FiniteSetsExt, Functions

CONSTANTS
  Requests,   \* that may be in progress at once
  Buckets,    \* project, key and address of a client
  limit,      \* requests per window
  window,     \* length of a window, in ticks
  Second,     \* ticks in a second
  maxEntries, \* size of the table
  MaxTime,    \* bound on the clock
  MaxRequests \* bound on the requests

ASSUME LimiterAssumption ==
  /\ limit \in Nat \ {0} /\ maxEntries \in Nat \ {0} /\ MaxTime \in Nat /\ MaxRequests \in Nat
  /\ Second \in Nat \ {0} /\ window \in Nat \ {0} /\ window % Second = 0

Never == -1
Time == 0 .. MaxTime

VARIABLES
  clock,
  asked,       \* the time each request has read, or Never
  bucket,      \* and its bucket
  entries,     \* the table: windows by bucket
  lastCleanup,
  \* what happened, for the properties
  passed,      \* the requests let through: bucket, time, and which of its bucket then
  retry,       \* when the last refusal of each bucket said to come back, or Never
  wiped,       \* how often a full table was emptied
  latest,      \* the latest time a request was judged by
  late,        \* how many requests were judged after one with a later time
  requests

limiterVars == <<clock, asked, bucket, entries, lastCleanup, passed, retry, wiped, latest, late, requests>>

rateWindow == [start : Time, count : 1 .. limit]

LimiterTypeOK ==
  /\ clock \in Time
  /\ asked \in [Requests -> Time \cup {Never}]
  /\ bucket \in [Requests -> Buckets]
  /\ DOMAIN entries \subseteq Buckets
  /\ \A b \in DOMAIN entries : entries[b] \in rateWindow
  /\ Cardinality(DOMAIN entries) <= maxEntries
  /\ lastCleanup \in Time
  /\ passed \subseteq [bucket : Buckets, time : Time, nth : Nat \ {0}]
  /\ retry \in [Buckets -> Nat \cup {Never}]
  /\ wiped \in Nat /\ latest \in Time /\ late \in Nat
  /\ requests \in 0 .. MaxRequests

Empty == [b \in {} |-> 0]

LimiterInit ==
  /\ clock = 0
  /\ asked = [h \in Requests |-> Never]
  /\ bucket \in [Requests -> Buckets]
  /\ entries = Empty
  /\ lastCleanup = 0
  /\ passed = {}
  /\ retry = [b \in Buckets |-> Never]
  /\ wiped = 0
  /\ latest = 0
  /\ late = 0
  /\ requests = 0

Tick ==
  /\ clock < MaxTime
  /\ clock' = clock + 1
  /\ UNCHANGED <<asked, bucket, entries, lastCleanup, passed, retry, wiped, latest, late, requests>>

\* time.Now() in the call of Allow.
Ask(h, b) ==
  /\ asked[h] = Never
  /\ requests < MaxRequests /\ requests' = requests + 1
  /\ asked' = [asked EXCEPT ![h] = clock]
  /\ bucket' = [bucket EXCEPT ![h] = b]
  /\ UNCHANGED <<clock, entries, lastCleanup, passed, retry, wiped, latest, late>>

Expired(entry, now) == now - entry.start >= window

Live(now) == Restrict(entries, {b \in DOMAIN entries : ~Expired(entries[b], now)})
Full(table) == Cardinality(DOMAIN table) >= maxEntries

\* Expired windows go, and a table that is still full is emptied.
Cleaned(now) == IF Full(Live(now)) THEN Empty ELSE Live(now)
CleanupDue(now) == now - lastCleanup >= window \/ Full(entries)

Entry(table, b, now) ==
  IF b \in DOMAIN table /\ ~Expired(table[b], now) THEN table[b] ELSE [start |-> now, count |-> 0]

\* Broken on purpose, as SpentLate below: variants the checks must refute.
RetryRoundedDown(entry, now) == Max({1, (entry.start + window - now) \div Second})
\* Whole seconds, rounded up.
RetryAfter(entry, now) == Max({1, (entry.start + window - now + Second - 1) \div Second})

SpentLate(entry) == entry.count > limit
Spent(entry) == entry.count >= limit

Passes(b, from, to) == {x \in passed : x.bucket = b /\ x.time \in from .. to}
PassedIn(b, from, to) == Cardinality(Passes(b, from, to))

Pass(b, now, table, entry) ==
  /\ ~Spent(entry)
  /\ entries' = [c \in DOMAIN table \cup {b} |->
                  IF c = b THEN [entry EXCEPT !.count = @ + 1] ELSE table[c]]
  /\ passed' = passed \cup {[bucket |-> b, time |-> now, nth |-> PassedIn(b, now, now) + 1]}
  /\ retry' = [retry EXCEPT ![b] = Never]

Refuse(b, now, table, entry) ==
  /\ Spent(entry)
  /\ entries' = table
  /\ retry' = [retry EXCEPT ![b] = now + Second * RetryAfter(entry, now)]
  /\ UNCHANGED passed

Allow(h) ==
  LET now == asked[h]
      b == bucket[h]
      due == CleanupDue(now)
      table == IF due THEN Cleaned(now) ELSE entries
      entry == Entry(table, b, now) IN
  /\ asked[h] # Never
  /\ asked' = [asked EXCEPT ![h] = Never]
  /\ Pass(b, now, table, entry) \/ Refuse(b, now, table, entry)
  /\ lastCleanup' = IF due THEN now ELSE lastCleanup
  /\ wiped' = wiped + (IF due /\ Full(Live(now)) THEN 1 ELSE 0)
  /\ latest' = Max({latest, now})
  /\ late' = late + (IF now < latest THEN 1 ELSE 0)
  /\ UNCHANGED <<clock, bucket, requests>>

LimiterNext == Tick \/ \E h \in Requests : Allow(h) \/ \E b \in Buckets : Ask(h, b)

LimiterSpec == LimiterInit /\ [][LimiterNext]_limiterVars

-----------------------------------------------------------------------------
(* Safety.                                                                 *)

\* A period as long as a window sees at most what two windows allow, less the request
\* that opens the first, of one bucket; plus a window for each time the table was
\* emptied and for each request that was judged late (cleanup and Allow).
PassesBounded ==
  \A b \in Buckets, t \in Time :
    PassedIn(b, t, t + window - 1) <= limit * (2 + wiped + late) - 1

Refused(h) == asked[h] # Never /\ asked'[h] = Never /\ passed' = passed

\* A request is refused only when its bucket used up its limit within a window's
\* length, counting those judged late, and never when the client comes back as
\* Retry-After told it to, unless another request of its bucket passed meanwhile.
RefusalsJustified ==
  [][\A h \in Requests : Refused(h) =>
       /\ PassedIn(bucket[h], asked[h] - window + 1, clock) + late >= limit
       /\ retry[bucket[h]] = Never \/ asked[h] < retry[bucket[h]]]_limiterVars
=============================================================================
