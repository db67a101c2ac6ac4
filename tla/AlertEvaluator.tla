---------------------------- MODULE AlertEvaluator ----------------------------
(***************************************************************************)
(* Alert evaluation (alerts.go): every worker process evaluates every rule *)
(* each 30 s under a session advisory lock, posts a webhook per matching   *)
(* Issue that is not cooling down, and then records the attempt.           *)
(*                                                                         *)
(* One action is one statement or one webhook round.  Time is counted in   *)
(* ticks of 30 s; an evaluation captures now once, when it starts.         *)
(***************************************************************************)
EXTENDS Integers, Sequences, FiniteSets, FiniteSetsExt

CONSTANTS
  Servers, Issues,
  RuleTables,  \* what the enabled rules may be, in order of creation
  Hour,        \* ticks in an hour, the longest retry delay (120)
  MaxTime,     \* bound on the clock
  MaxFaults    \* bound on crashes, lost sessions and failed statements

Conditions == {"new_issue", "regression", "count"}
RuleSpec == [condition : Conditions, threshold : Nat \ {0}, window : Nat \ {0},
             cooldown : Nat]

NoOne == "none"

ASSUME RuleAssumption  == RuleTables \subseteq Seq(RuleSpec)
ASSUME BoundAssumption == Hour \in Nat \ {0} /\ MaxTime \in Nat /\ MaxFaults \in Nat
ASSUME NoOneAssumption == NoOne \notin Servers

VARIABLES
  rules,       \* the rule table, which nobody edits; durations in ticks
  clock,
  arrivals,    \* when each Issue received Events (at most one a tick)
  status,      \* sentryx_issues.status
  regression,  \* sentryx_issues.regression
  note,        \* sentryx_alert_notification_state
  holder,      \* the server whose session holds the advisory lock
  ev,          \* each server's EvaluateAlerts call, or its last one
  log,         \* the webhook rounds so far, per rule and Issue
  faults

vars == <<rules, clock, arrivals, status, regression, note, holder, ev, log, faults>>
issueVars == <<rules, arrivals, status, regression>>

Rules == 1 .. Len(rules)
Pairs == Rules \X Issues
Time  == 0 .. MaxTime
Never == -1

NoRow == [notified |-> Never, attempted |-> Never, failures |-> 0]
Idle(now) == [phase |-> "idle", now |-> now, rule |-> 0, todo |-> {}, issue |-> NoOne,
              delivered |-> FALSE]

Phases == {"idle", "issues", "sending", "recording"}

TypeOK ==
  /\ rules \in RuleTables
  /\ clock \in Time
  /\ arrivals \in [Issues -> SUBSET Time]
  /\ status \in [Issues -> {"unresolved", "resolved"}]
  /\ regression \in [Issues -> BOOLEAN]
  /\ note \in [Pairs -> [notified : Time \cup {Never}, attempted : Time \cup {Never},
                         failures : Nat]]
  /\ holder \in Servers \cup {NoOne}
  /\ ev \in [Servers -> [phase : Phases, now : Time \cup {Never}, rule : Rules \cup {0},
                         todo : SUBSET Issues, issue : Issues \cup {NoOne},
                         delivered : BOOLEAN]]
  /\ log \in [Pairs -> Seq([now : Time, delivered : BOOLEAN])]
  /\ faults \in 0 .. MaxFaults

Init ==
  /\ rules \in RuleTables
  /\ clock = 0
  /\ arrivals = [i \in Issues |-> {}]
  /\ status = [i \in Issues |-> "unresolved"]
  /\ regression = [i \in Issues |-> FALSE]
  /\ note = [p \in Pairs |-> NoRow]
  /\ holder = NoOne
  /\ ev = [s \in Servers |-> Idle(Never)]
  /\ log = [p \in Pairs |-> <<>>]
  /\ faults = 0

Fault == faults < MaxFaults /\ faults' = faults + 1

-----------------------------------------------------------------------------
(* Issues, as far as alert conditions look at them.                        *)

Tick ==
  /\ clock < MaxTime
  /\ clock' = clock + 1
  /\ UNCHANGED <<issueVars, note, holder, ev, log, faults>>

\* A stored Event reopens a resolved Issue as a regression.
Arrive(i) ==
  /\ clock \notin arrivals[i]
  /\ arrivals' = [arrivals EXCEPT ![i] = @ \cup {clock}]
  /\ regression' = [regression EXCEPT ![i] = @ \/ status[i] = "resolved"]
  /\ status' = [status EXCEPT ![i] = "unresolved"]
  /\ UNCHANGED <<rules, clock, note, holder, ev, log, faults>>

Resolve(i) ==
  /\ arrivals[i] # {}
  /\ status' = [status EXCEPT ![i] = "resolved"]
  /\ regression' = [regression EXCEPT ![i] = FALSE]
  /\ UNCHANGED <<rules, clock, arrivals, note, holder, ev, log, faults>>

-----------------------------------------------------------------------------
(* alertRetryDelay and alertInCooldown.                                    *)

Least(a, b) == IF a <= b THEN a ELSE b

\* The delay doubles with each failure after the first until it reaches an hour.
Doubled[n \in Nat] ==
  IF n = 0 THEN 1
  ELSE IF Doubled[n - 1] < Hour THEN 2 * Doubled[n - 1] ELSE Doubled[n - 1]

RetryDelay(failures, cooldown) ==
  IF failures < 1 THEN 0
  ELSE Least(Doubled[failures - 1], IF cooldown > 0 THEN Least(cooldown, Hour) ELSE Hour)

\* Broken on purpose, as the Attempted.. variants below: the checks must refute them.
CoolingForgetful(rule, row, now) ==
  \/ /\ row.failures > 0
     /\ now < row.attempted + RetryDelay(row.failures, rule.cooldown)
  \/ row.notified # Never /\ now - row.notified < rule.cooldown

InCooldown(rule, row, now) ==
  \/ rule.condition = "new_issue" /\ row.notified # Never
  \/ /\ row.failures > 0 /\ row.attempted # Never
     /\ now < row.attempted + RetryDelay(row.failures, rule.cooldown)
  \/ row.notified # Never /\ now - row.notified < rule.cooldown

-----------------------------------------------------------------------------
(* EvaluateAlerts.                                                         *)

Matches(rule, i, since) ==
  CASE rule.condition = "new_issue"  -> arrivals[i] # {} /\ Min(arrivals[i]) >= since
    [] rule.condition = "regression" -> regression[i] /\ Max(arrivals[i]) >= since
    [] OTHER -> Cardinality({t \in arrivals[i] : t >= since}) >= rule.threshold

\* The ticker of runAlertLoop fires and the session gets the advisory lock; the
\* rules are read once, now is taken once.
Begin(s) ==
  /\ ev[s].phase = "idle" /\ clock > ev[s].now
  /\ holder = NoOne /\ holder' = s
  /\ ev' = [ev EXCEPT ![s] = [Idle(clock) EXCEPT !.phase = "issues"]]
  /\ UNCHANGED <<clock, issueVars, note, log, faults>>

BetweenRules(s) == ev[s].phase = "issues" /\ ev[s].todo = {}

\* alertCandidates of the next rule; a failing query passes the rule over.
Query(s) ==
  LET next  == ev[s].rule + 1
      found == {i \in Issues : Matches(rules[next], i, ev[s].now - rules[next].window)} IN
  /\ BetweenRules(s) /\ next \in Rules
  /\ \E todo \in {found, {}} : ev' = [ev EXCEPT ![s].rule = next, ![s].todo = todo]
  /\ UNCHANGED <<clock, issueVars, note, holder, log, faults>>

\* A failing read of the notification state counts as not cooling down.
Consider(s, i) ==
  LET r == ev[s].rule
      cooling == InCooldown(rules[r], note[<<r, i>>], ev[s].now)
      passed == [ev[s] EXCEPT !.todo = @ \ {i}] IN
  /\ i \in ev[s].todo /\ ev[s].phase = "issues"
  /\ \/ /\ cooling /\ UNCHANGED faults
        /\ ev' = [ev EXCEPT ![s] = passed]
     \/ /\ IF cooling THEN Fault ELSE UNCHANGED faults
        /\ ev' = [ev EXCEPT ![s] = [passed EXCEPT !.issue = i, !.phase = "sending"]]
  /\ UNCHANGED <<clock, issueVars, note, holder, log>>

Pair(s) == <<ev[s].rule, ev[s].issue>>

\* The actions of the rule are posted one after the other; delivered says that
\* one of them succeeded.  None does if no action is valid.
Send(s) ==
  /\ ev[s].phase = "sending"
  /\ \E ok \in BOOLEAN :
       /\ ev' = [ev EXCEPT ![s].delivered = ok, ![s].phase = "recording"]
       /\ log' = [log EXCEPT ![Pair(s)] = Append(@, [now |-> ev[s].now, delivered |-> ok])]
  /\ UNCHANGED <<clock, issueVars, note, holder, faults>>

AttemptedUncounted(row, now, delivered) ==
  [notified  |-> IF delivered THEN now ELSE row.notified,
   attempted |-> now,
   failures  |-> IF delivered THEN 0 ELSE 1]

AttemptedUnmarked(row, now, delivered) ==
  [notified |-> row.notified, attempted |-> now,
   failures |-> IF delivered THEN 0 ELSE row.failures + 1]

AttemptedUnreset(row, now, delivered) ==
  [notified  |-> IF delivered THEN now ELSE row.notified,
   attempted |-> now,
   failures  |-> IF delivered THEN row.failures ELSE row.failures + 1]

\* recordAlertAttempt upserts the row of the rule and Issue.
Attempted(row, now, delivered) ==
  [notified  |-> IF delivered THEN now ELSE row.notified,
   attempted |-> now,
   failures  |-> IF delivered THEN 0 ELSE row.failures + 1]

Record(s) ==
  /\ ev[s].phase = "recording"
  /\ \/ /\ note' = [note EXCEPT ![Pair(s)] = Attempted(@, ev[s].now, ev[s].delivered)]
        /\ UNCHANGED faults
     \/ Fault /\ UNCHANGED note
  /\ ev' = [ev EXCEPT ![s].phase = "issues", ![s].delivered = FALSE, ![s].issue = NoOne]
  /\ UNCHANGED <<clock, issueVars, holder, log>>

Released(s) == IF holder = s THEN NoOne ELSE holder

Finish(s) ==
  /\ BetweenRules(s) /\ ev[s].rule = Len(rules)
  /\ ev' = [ev EXCEPT ![s] = Idle(@.now)]
  /\ holder' = Released(s)
  /\ UNCHANGED <<clock, issueVars, note, log, faults>>

\* The session ends and with it the lock; the evaluation goes on, since its
\* statements run on other connections of the pool.
LoseSession(s) ==
  /\ holder = s /\ Fault
  /\ holder' = NoOne
  /\ UNCHANGED <<clock, issueVars, note, ev, log>>

\* The process dies, or is told to stop, in the middle of an evaluation.
Crash(s) ==
  /\ ev[s].phase # "idle" /\ Fault
  /\ ev' = [ev EXCEPT ![s] = Idle(@.now)]
  /\ holder' = Released(s)
  /\ UNCHANGED <<clock, issueVars, note, log>>

Evaluate(s) ==
  \/ Begin(s) \/ Query(s) \/ Send(s) \/ Record(s) \/ Finish(s)
  \/ \E i \in Issues : Consider(s, i)

Next ==
  \/ Tick
  \/ \E i \in Issues : Arrive(i) \/ Resolve(i)
  \/ \E s \in Servers : Evaluate(s) \/ LoseSession(s) \/ Crash(s)

Spec == Init /\ [][Next]_vars

-----------------------------------------------------------------------------
(* Safety.                                                                 *)

Deliveries(p) == {k \in 1 .. Len(log[p]) : log[p][k].delivered}

\* A new_issue rule notifies an Issue once, and each crash, lost session or
\* failed statement costs at most one duplicate (EvaluateAlerts delivers before
\* it records).
FiresOncePerFault ==
  \A p \in Pairs : rules[p[1]].condition = "new_issue" =>
    Cardinality(Deliveries(p)) <= 1 + faults

\* Failures in a row up to the k-th round.
FailuresAt(p, k) == k - Max({0} \cup {d \in Deliveries(p) : d <= k})

\* A round that came before the cooldown or the retry delay of the one before it.
TooEarly(p, k) ==
  LET cooldown == rules[p[1]].cooldown IN
  log[p][k].now < log[p][k - 1].now + IF log[p][k - 1].delivered THEN cooldown
                                      ELSE RetryDelay(FailuresAt(p, k - 1), cooldown)

\* While nothing fails but webhooks, rounds keep their distance, whichever
\* server runs them: cooldown after a success, doubling delays after failures.
SpacedWithoutFault ==
  faults = 0 => \A p \in Pairs : \A k \in 2 .. Len(log[p]) : ~TooEarly(p, k)

\* A delivery that came before the cooldown of any earlier one was over.
Repeated(p) == {k \in Deliveries(p) : \E l \in Deliveries(p) :
                  l < k /\ log[p][k].now - log[p][l].now < rules[p[1]].cooldown}

\* Every rule honours its cooldown but for faults.  A lost session costs two
\* deliveries: one of the overlapping evaluation, and one more because its record
\* may put last_notified_at back to its own, older start.
CooldownPerFault == \A p \in Pairs : Cardinality(Repeated(p)) <= 2 * faults

\* Row p of the table says what the rounds so far do: the last one, the last delivery, and
\* the failures since.
UpToDate(p) ==
  /\ note[p].failures = FailuresAt(p, Len(log[p]))
  /\ log[p] # <<>> => note[p].attempted = log[p][Len(log[p])].now
  /\ Deliveries(p) # {} => note[p].notified = log[p][Max(Deliveries(p))].now

\* What the table says was delivered was delivered, even when two evaluations
\* overlap or die half way; a lost record is never an invented one.  Without faults
\* nothing is missing either: a delivery sets the failures back, a failure adds one, so
\* that no Issue is silenced for longer than it failed (recordAlertAttempt).
RecordsAreTrue ==
  \A p \in Pairs :
    /\ note[p].notified # Never =>
         \E k \in Deliveries(p) : log[p][k].now = note[p].notified
    /\ note[p].failures <= Len(log[p]) - Cardinality(Deliveries(p))
    /\ faults = 0 /\ (\A s \in Servers : ev[s].phase = "recording" => Pair(s) # p) =>
         UpToDate(p)
=============================================================================
