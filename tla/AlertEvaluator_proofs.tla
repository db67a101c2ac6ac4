------------------------- MODULE AlertEvaluator_proofs -------------------------
(***************************************************************************)
(* Proofs about AlertEvaluator, for any number of servers, Issues, rules   *)
(* and failures: what the record of a rule and an Issue may say, and how   *)
(* often a webhook comes again.  A fault is a currency: each proof counts   *)
(* the deliveries so far and those that evaluations under way may still     *)
(* make, and shows that only a fault adds to the sum.                      *)
(***************************************************************************)
EXTENDS AlertEvaluator, FiniteSetTheorems, TLAPS

-----------------------------------------------------------------------------
(* Counting.                                                               *)

LEMMA CardSubset ==
  ASSUME NEW S, NEW T, IsFiniteSet(S), T \subseteq S
  PROVE  /\ IsFiniteSet(T) /\ Cardinality(T) <= Cardinality(S)
         /\ Cardinality(T) \in Nat /\ Cardinality(S) \in Nat
BY FS_Subset, FS_CardinalityType

LEMMA CardMore ==
  ASSUME NEW S, NEW T, NEW x, IsFiniteSet(S), T \subseteq S \cup {x}
  PROVE  /\ IsFiniteSet(T) /\ Cardinality(T) <= Cardinality(S) + 1
         /\ Cardinality(T) \in Nat /\ Cardinality(S) \in Nat
<1>1. /\ IsFiniteSet(S \cup {x}) /\ Cardinality(S) \in Nat
      /\ Cardinality(S \cup {x}) = Cardinality(S) \/ Cardinality(S \cup {x}) = Cardinality(S) + 1
  BY FS_AddElement, FS_CardinalityType
<1>2. /\ IsFiniteSet(T) /\ Cardinality(T) <= Cardinality(S \cup {x})
      /\ Cardinality(T) \in Nat /\ Cardinality(S \cup {x}) \in Nat
  BY <1>1, CardSubset
<1>. QED
  BY <1>1, <1>2

LEMMA CardLess ==
  ASSUME NEW S, NEW T, NEW x \in S, IsFiniteSet(S), T \subseteq S \ {x}
  PROVE  /\ IsFiniteSet(T) /\ Cardinality(T) + 1 <= Cardinality(S)
         /\ Cardinality(T) \in Nat /\ Cardinality(S) \in Nat
<1>1. /\ IsFiniteSet(S \ {x}) /\ Cardinality(S) \in Nat
      /\ Cardinality(S \ {x}) = Cardinality(S) - 1
  BY FS_RemoveElement, FS_CardinalityType
<1>2. /\ IsFiniteSet(T) /\ Cardinality(T) <= Cardinality(S \ {x})
      /\ Cardinality(T) \in Nat /\ Cardinality(S \ {x}) \in Nat
  BY <1>1, CardSubset
<1>. QED
  BY <1>1, <1>2

LEMMA NoneCounted == IsFiniteSet({}) /\ Cardinality({}) = 0
BY FS_EmptySet

-----------------------------------------------------------------------------
(* Where evaluations stand.                                                *)

Evaluation == [phase : Phases, now : Time \cup {Never}, rule : Rules \cup {0},
               todo : SUBSET Issues, issue : Issues \cup {NoOne}, delivered : BOOLEAN]
Row   == [notified : Time \cup {Never}, attempted : Time \cup {Never}, failures : Nat]
Round == [now : Time, delivered : BOOLEAN]

Active == {s \in Servers : ev[s].phase # "idle"}

\* Evaluations that send, that will record a delivery, or a failure, of a rule and Issue.
Sending(p) == {s \in Servers : ev[s].phase = "sending" /\ Pair(s) = p}
Pending(p) == {s \in Servers : ev[s].phase = "recording" /\ Pair(s) = p /\ ev[s].delivered}
Failing(p) == {s \in Servers : ev[s].phase = "recording" /\ Pair(s) = p /\ ~ev[s].delivered}

\* Those that have not come to it.
Ahead(p) == {s \in Active : \/ ev[s].rule < p[1]
                            \/ ev[s].rule = p[1] /\ p[2] \in ev[s].todo}

Placed == \A s \in Servers :
  /\ s \in Active => ev[s].now \in Time
  /\ ev[s].todo # {} => ev[s].rule \in Rules
  /\ ev[s].phase \in {"sending", "recording"} =>
       ev[s].rule \in Rules /\ ev[s].issue \in Issues \ ev[s].todo

\* Who holds the lock began last, and no round is younger.
Latest ==
  /\ \A s \in Servers : ev[s].now <= clock
  /\ \A p \in Pairs : \A k \in 1 .. Len(log[p]) : log[p][k].now <= clock
  /\ holder # NoOne =>
       /\ holder \in Active
       /\ \A s \in Active : ev[s].now <= ev[holder].now
       /\ \A p \in Pairs : \A k \in 1 .. Len(log[p]) : log[p][k].now <= ev[holder].now

Base == TypeOK /\ Placed /\ Latest /\ IsFiniteSet(Active)

LEMMA InitBase == Init => Base
<1>. SUFFICES ASSUME Init PROVE Base
  OBVIOUS
<1>1. TypeOK
  BY BoundAssumption DEF Init, TypeOK, Time, Never, NoRow, Idle, Phases
<1>2. Active = {}
  BY DEF Init, Active, Idle
<1>3. Placed /\ Latest
  BY <1>2, BoundAssumption DEF Init, Placed, Latest, Idle, Never
<1>. QED
  BY <1>1, <1>2, <1>3, NoneCounted DEF Base

\* What an evaluation that does not move has to do with a rule and an Issue.
LEMMA Elsewhere ==
  ASSUME NEW t \in Servers, ev'[t] = ev[t], NEW p
  PROVE  /\ t \in Active' <=> t \in Active
         /\ t \in Sending(p)' <=> t \in Sending(p)
         /\ t \in Pending(p)' <=> t \in Pending(p)
         /\ t \in Failing(p)' <=> t \in Failing(p)
         /\ t \in Ahead(p)' <=> t \in Ahead(p)
         /\ Pair(t)' = Pair(t)
BY DEF Active, Sending, Pending, Failing, Ahead, Pair

LEMMA PairType ==
  ASSUME Base, NEW s \in Servers, ev[s].phase \in {"sending", "recording"}
  PROVE  Pair(s) \in Pairs /\ s \in Active /\ ev[s].now \in Time
BY DEF Base, Placed, Pair, Pairs, Active

LEMMA FaultType == ASSUME TypeOK, Fault \/ UNCHANGED faults PROVE faults' \in 0 .. MaxFaults
BY BoundAssumption DEF TypeOK, Fault

LEMMA NowTypes ==
  ASSUME TypeOK
  PROVE  /\ clock \in Int /\ clock \in Time /\ faults \in Nat
         /\ \A t \in Servers : ev[t] \in Evaluation /\ ev[t].now \in Int
         /\ \A p \in Pairs : /\ note[p] \in Row /\ note[p].notified \in Int
                             /\ note[p].attempted \in Int
                             /\ log[p] \in Seq(Round) /\ Len(log[p]) \in Nat
                             /\ \A k \in 1 .. Len(log[p]) :
                                  log[p][k] \in Round /\ log[p][k].now \in Nat
<1>1. /\ clock \in Int /\ clock \in Time /\ faults \in Nat
  BY BoundAssumption DEF TypeOK, Time
<1>2. \A t \in Servers : ev[t] \in Evaluation
  BY DEF TypeOK, Evaluation
<1>3. \A e \in Evaluation : e.now \in Int
  BY BoundAssumption DEF Evaluation, Time, Never
<1>4. \A p \in Pairs : note[p] \in Row /\ log[p] \in Seq(Round)
  BY DEF TypeOK, Row, Round
<1>5. \A e \in Row : e.notified \in Int /\ e.attempted \in Int
  BY BoundAssumption DEF Row, Time, Never
<1>6. \A e \in Round : e.now \in Nat
  BY BoundAssumption DEF Round, Time
<1>7. \A q \in Seq(Round) : Len(q) \in Nat /\ \A k \in 1 .. Len(q) : q[k] \in Round
  OBVIOUS
<1>. QED
  BY <1>1, <1>2, <1>3, <1>4, <1>5, <1>6, <1>7

-----------------------------------------------------------------------------
(* What a step does as one rule and one Issue see it.                      *)

SameRecord(p) == rules' = rules /\ log'[p] = log[p] /\ note'[p] = note[p]
SameNows      == \A t \in Servers : ev'[t].now = ev[t].now
SamePlaces(p) == /\ Sending(p)' = Sending(p)
                 /\ Pending(p)' = Pending(p)
                 /\ Failing(p)' = Failing(p)
Costs         == faults' = faults + 1
Free          == faults' = faults

Drifts(p) ==
  /\ SameRecord(p) /\ SameNows /\ SamePlaces(p)
  /\ holder' = holder /\ Active' = Active /\ Ahead(p)' \subseteq Ahead(p)
  /\ Free \/ Costs

Joins(p, s) ==
  /\ SameRecord(p) /\ SamePlaces(p) /\ Free
  /\ holder = NoOne /\ holder' = s
  /\ s \notin Active /\ Active' = Active \cup {s} /\ Ahead(p)' = Ahead(p) \cup {s}
  /\ \A t \in Servers \ {s} : ev'[t].now = ev[t].now
  /\ ev'[s].now = clock

Starts(p, s) ==
  /\ SameRecord(p) /\ SameNows /\ holder' = holder /\ Active' = Active
  /\ s \in Ahead(p) /\ Ahead(p)' = Ahead(p) \ {s}
  /\ Sending(p)' = Sending(p) \cup {s}
  /\ Pending(p)' = Pending(p) /\ Failing(p)' = Failing(p)
  /\ Costs \/ (Free /\ ~InCooldown(rules[p[1]], note[p], ev[s].now))

Posts(p, s, ok) ==
  /\ rules' = rules /\ note'[p] = note[p]
  /\ SameNows /\ Free /\ holder' = holder /\ Active' = Active
  /\ s \in Sending(p) /\ Sending(p)' = Sending(p) \ {s} /\ Ahead(p)' = Ahead(p)
  /\ Pending(p)' = Pending(p) \cup (IF ok THEN {s} ELSE {})
  /\ Failing(p)' = Failing(p) \cup (IF ok THEN {} ELSE {s})
  /\ log'[p] = Append(log[p], [now |-> ev[s].now, delivered |-> ok])

Writes(p, s) ==
  /\ rules' = rules /\ log'[p] = log[p]
  /\ SameNows /\ Free /\ holder' = holder /\ Active' = Active
  /\ s \in Pending(p) \cup Failing(p)
  /\ Sending(p)' = Sending(p) /\ Ahead(p)' = Ahead(p)
  /\ Pending(p)' = Pending(p) \ {s} /\ Failing(p)' = Failing(p) \ {s}
  /\ ev[s].delivered <=> s \in Pending(p)
  /\ note'[p] = Attempted(note[p], ev[s].now, ev[s].delivered)

Forgets(p, s) ==
  /\ SameRecord(p) /\ SameNows /\ Costs /\ holder' = holder /\ Active' = Active
  /\ s \in Pending(p) \cup Failing(p)
  /\ Sending(p)' = Sending(p) /\ Ahead(p)' = Ahead(p)
  /\ Pending(p)' = Pending(p) \ {s} /\ Failing(p)' = Failing(p) \ {s}

Leaves(p, s) ==
  /\ SameRecord(p) /\ SameNows
  /\ holder' = Released(s) /\ Active' = Active \ {s} /\ Ahead(p)' = Ahead(p) \ {s}
  /\ Sending(p)' = Sending(p) \ {s}
  /\ Pending(p)' = Pending(p) \ {s} /\ Failing(p)' = Failing(p) \ {s}
  /\ Costs \/ (Free /\ s \notin Ahead(p) \cup Sending(p) \cup Pending(p) \cup Failing(p))

Unlocks(p, s) ==
  /\ SameRecord(p) /\ SameNows /\ SamePlaces(p) /\ Costs
  /\ holder = s /\ holder' = NoOne /\ Active' = Active /\ Ahead(p)' = Ahead(p)

Seen(p) ==
  \/ Drifts(p)
  \/ \E s \in Servers :
       \/ Joins(p, s) \/ Starts(p, s) \/ Writes(p, s) \/ Forgets(p, s)
       \/ Leaves(p, s) \/ Unlocks(p, s)
       \/ \E ok \in BOOLEAN : Posts(p, s, ok)

\* One evaluation moves; the sets it is in follow from where it is then.
LEMMA OneMoves ==
  ASSUME Base, NEW s \in Servers, \A t \in Servers \ {s} : ev'[t] = ev[t], NEW p
  PROVE  /\ \A t \in Servers \ {s} : /\ t \in Active' <=> t \in Active
                                     /\ t \in Sending(p)' <=> t \in Sending(p)
                                     /\ t \in Pending(p)' <=> t \in Pending(p)
                                     /\ t \in Failing(p)' <=> t \in Failing(p)
                                     /\ t \in Ahead(p)' <=> t \in Ahead(p)
         /\ Active' = (Active \ {s}) \cup (IF s \in Active' THEN {s} ELSE {})
         /\ Sending(p)' = (Sending(p) \ {s}) \cup (IF s \in Sending(p)' THEN {s} ELSE {})
         /\ Pending(p)' = (Pending(p) \ {s}) \cup (IF s \in Pending(p)' THEN {s} ELSE {})
         /\ Failing(p)' = (Failing(p) \ {s}) \cup (IF s \in Failing(p)' THEN {s} ELSE {})
         /\ Ahead(p)' = (Ahead(p) \ {s}) \cup (IF s \in Ahead(p)' THEN {s} ELSE {})
<1>1. \A t \in Servers \ {s} : /\ t \in Active' <=> t \in Active
                               /\ t \in Sending(p)' <=> t \in Sending(p)
                               /\ t \in Pending(p)' <=> t \in Pending(p)
                               /\ t \in Failing(p)' <=> t \in Failing(p)
                               /\ t \in Ahead(p)' <=> t \in Ahead(p)
  BY Elsewhere
<1>2. /\ Active \subseteq Servers /\ Sending(p) \subseteq Servers /\ Pending(p) \subseteq Servers
      /\ Failing(p) \subseteq Servers /\ Ahead(p) \subseteq Servers
      /\ Active' \subseteq Servers /\ Sending(p)' \subseteq Servers /\ Pending(p)' \subseteq Servers
      /\ Failing(p)' \subseteq Servers /\ Ahead(p)' \subseteq Servers
  BY DEF Active, Sending, Pending, Failing, Ahead
<1>3. Active' = (Active \ {s}) \cup (IF s \in Active' THEN {s} ELSE {})
  BY <1>1, <1>2
<1>4. Sending(p)' = (Sending(p) \ {s}) \cup (IF s \in Sending(p)' THEN {s} ELSE {})
  BY <1>1, <1>2
<1>5. Pending(p)' = (Pending(p) \ {s}) \cup (IF s \in Pending(p)' THEN {s} ELSE {})
  BY <1>1, <1>2
<1>6. Failing(p)' = (Failing(p) \ {s}) \cup (IF s \in Failing(p)' THEN {s} ELSE {})
  BY <1>1, <1>2
<1>7. Ahead(p)' = (Ahead(p) \ {s}) \cup (IF s \in Ahead(p)' THEN {s} ELSE {})
  BY <1>1, <1>2
<1>. QED
  BY <1>1, <1>3, <1>4, <1>5, <1>6, <1>7

\* Base after a step, from what the moving evaluation and the records became.
LEMMA BaseKept ==
  ASSUME Base, NEW s \in Servers, rules' = rules,
         ev' = [ev EXCEPT ![s] = ev'[s]], ev'[s] \in Evaluation,
         ev'[s].phase # "idle" => ev'[s].now \in Time,
         ev'[s].todo # {} => ev'[s].rule \in Rules,
         ev'[s].phase \in {"sending", "recording"} =>
           ev'[s].rule \in Rules /\ ev'[s].issue \in Issues \ ev'[s].todo,
         clock' = clock, UNCHANGED <<arrivals, status, regression>>,
         note' \in [Pairs -> Row], log' \in [Pairs -> Seq(Round)],
         holder' \in Servers \cup {NoOne}, faults' \in 0 .. MaxFaults
  PROVE  TypeOK' /\ Placed' /\ IsFiniteSet(Active)'
<1>1. Rules' = Rules /\ Pairs' = Pairs
  BY DEF Rules, Pairs
<1>2. ev' \in [Servers -> Evaluation]
  BY DEF Base, TypeOK, Evaluation
<1>3. TypeOK'
  BY <1>1, <1>2 DEF Base, TypeOK, Evaluation, Row, Round
<1>4. \A t \in Servers \ {s} : ev'[t] = ev[t]
  BY DEF Base, TypeOK
<1>5. Placed'
  <2> SUFFICES ASSUME NEW t \in Servers
      PROVE (/\ t \in Active => ev[t].now \in Time
             /\ ev[t].todo # {} => ev[t].rule \in Rules
             /\ ev[t].phase \in {"sending", "recording"} =>
                  ev[t].rule \in Rules /\ ev[t].issue \in Issues \ ev[t].todo)'
    BY DEF Placed
  <2>1. CASE t = s
    BY <2>1, <1>1 DEF Active
  <2>2. CASE t # s
    BY <2>2, <1>1, <1>4 DEF Base, Placed, Active
  <2>. QED
    BY <2>1, <2>2
<1>6. Active' \subseteq Active \cup {s}
  BY <1>4 DEF Active
<1>7. IsFiniteSet(Active')
  BY <1>6, CardMore DEF Base
<1>. QED
  BY <1>3, <1>5, <1>7

-----------------------------------------------------------------------------
(* The steps of an evaluation.                                             *)

LEMMA IdleFields ==
  ASSUME NEW n \in Time \cup {Never}
  PROVE  /\ Idle(n) \in Evaluation /\ Idle(n).now = n /\ Idle(n).phase = "idle"
         /\ Idle(n).todo = {} /\ Idle(n).rule = 0
BY DEF Idle, Evaluation, Phases

LEMMA BeginSteps ==
  ASSUME Base, NEW s \in Servers, Begin(s)
  PROVE  Base' /\ \A p \in Pairs : Joins(p, s)
<1> DEFINE e == [Idle(clock) EXCEPT !.phase = "issues"]
<1>0. rules' = rules /\ Rules' = Rules /\ Pairs' = Pairs
  BY DEF Begin, issueVars, Rules, Pairs
<1>1. /\ Idle(clock) \in Evaluation /\ Idle(clock).now = clock
      /\ Idle(clock).todo = {} /\ Idle(clock).rule = 0
  BY IdleFields, NowTypes DEF Base
<1>2. /\ e \in Evaluation /\ e.phase = "issues" /\ e.now = clock /\ e.todo = {} /\ e.rule = 0
  BY <1>1 DEF Evaluation, Phases
<1> HIDE DEF e
<1>3. ev' = [ev EXCEPT ![s] = e]
  BY DEF Begin, e
<1>4. ev'[s] = e /\ \A t \in Servers \ {s} : ev'[t] = ev[t]
  BY <1>3 DEF Base, TypeOK
<1>5. s \notin Active /\ s \in Active' /\ ev[s].now < clock
  BY <1>2, <1>4, NowTypes DEF Begin, Active, Base
<1>6. TypeOK' /\ Placed' /\ IsFiniteSet(Active)'
  <2>1. clock \in Time
    BY NowTypes DEF Base
  <2>2. note' \in [Pairs -> Row] /\ log' \in [Pairs -> Seq(Round)]
    BY DEF Begin, Base, TypeOK, Row, Round
  <2>3. holder' \in Servers \cup {NoOne} /\ faults' \in 0 .. MaxFaults
    BY DEF Begin, Base, TypeOK
  <2>. QED
    BY <1>0, <1>2, <1>3, <1>4, <2>1, <2>2, <2>3, BaseKept DEF Begin, issueVars
<1>7. Active' = Active \cup {s}
  BY <1>4, <1>5 DEF Active
<1>8. Latest'
  <2>1. \A t \in Servers : ev'[t].now <= clock
    <3> SUFFICES ASSUME NEW t \in Servers PROVE ev'[t].now <= clock
      OBVIOUS
    <3>1. clock \in Int
      BY NowTypes DEF Base
    <3>2. CASE t = s
      BY <3>1, <3>2, <1>2, <1>4
    <3>3. CASE t # s
      BY <3>3, <1>4 DEF Base, Latest
    <3>. QED
      BY <3>2, <3>3
  <2>2. \A p \in Pairs : \A k \in 1 .. Len(log[p]) : log[p][k].now <= clock
    BY DEF Base, Latest
  <2>3. log' = log /\ clock' = clock /\ holder' = s /\ ev'[s].now = clock
    BY <1>2, <1>4 DEF Begin
  <2>4. \A t \in Active' : t \in Servers
    BY DEF Active
  <2>. QED
    BY <1>0, <1>5, <2>1, <2>2, <2>3, <2>4 DEF Latest
<1>9. ASSUME NEW p \in Pairs PROVE Joins(p, s)
  <2>1. p[1] \in Int /\ 0 < p[1]
    BY DEF Pairs, Rules
  <2>2. s \in Ahead(p)'
    BY <1>2, <1>4, <1>5, <2>1 DEF Ahead
  <2>3. s \notin Sending(p) /\ s \notin Pending(p) /\ s \notin Failing(p) /\ s \notin Ahead(p)
    BY <1>5 DEF Sending, Pending, Failing, Ahead, Active
  <2>4. s \notin Sending(p)' /\ s \notin Pending(p)' /\ s \notin Failing(p)'
    BY <1>2, <1>4 DEF Sending, Pending, Failing
  <2>5. SamePlaces(p) /\ Ahead(p)' = Ahead(p) \cup {s}
    BY <2>2, <2>3, <2>4, <1>4, OneMoves DEF SamePlaces
  <2>6. SameRecord(p) /\ Free /\ holder = NoOne /\ holder' = s
    BY <1>0 DEF Begin, SameRecord, Free
  <2>. QED
    BY <1>2, <1>4, <1>5, <1>7, <2>5, <2>6 DEF Joins
<1>. QED
  BY <1>6, <1>8, <1>9 DEF Base

\* Latest stays when neither clock nor rounds nor starts change and the lock is not taken.
LEMMA LatestKept ==
  ASSUME Base, SameNows, UNCHANGED <<rules, log, clock>>, holder' \in {holder, NoOne},
         Active' \subseteq Active, holder' # NoOne => holder' \in Active'
  PROVE  Latest'
<1>1. Pairs' = Pairs /\ \A t \in Active : t \in Servers
  BY DEF Pairs, Rules, Active
<1>. QED
  BY <1>1 DEF Base, Latest, SameNows

LEMMA QuerySteps ==
  ASSUME Base, NEW s \in Servers, Query(s)
  PROVE  Base' /\ \A p \in Pairs : Drifts(p)
<1>0. rules' = rules /\ Rules' = Rules /\ Pairs' = Pairs
  BY DEF Query, issueVars, Rules, Pairs
<1>1. /\ ev[s].phase = "issues" /\ ev[s].todo = {} /\ ev[s].rule + 1 \in Rules
      /\ ev[s] \in Evaluation /\ ev[s].rule \in Int
  BY NowTypes DEF Query, BetweenRules, Base, Evaluation, Rules
<1>2. PICK todo \in SUBSET Issues :
        ev' = [ev EXCEPT ![s].rule = ev[s].rule + 1, ![s].todo = todo]
  BY DEF Query
<1> DEFINE e == [ev[s] EXCEPT !.rule = ev[s].rule + 1, !.todo = todo]
<1>3. /\ e \in Evaluation /\ e.phase = "issues" /\ e.now = ev[s].now /\ e.todo = todo
      /\ e.rule = ev[s].rule + 1
  BY <1>1 DEF Evaluation, Phases
<1>4. ev' = [ev EXCEPT ![s] = e]
  BY <1>2, NowTypes DEF Base, TypeOK
<1> HIDE DEF e
<1>5. ev'[s] = e /\ \A t \in Servers \ {s} : ev'[t] = ev[t]
  BY <1>4 DEF Base, TypeOK
<1>6. s \in Active /\ s \in Active' /\ ev[s].now \in Time
  BY <1>1, <1>3, <1>5 DEF Active, Base, Placed
<1>7. TypeOK' /\ Placed' /\ IsFiniteSet(Active)'
  <2>2. note' \in [Pairs -> Row] /\ log' \in [Pairs -> Seq(Round)]
    BY DEF Query, Base, TypeOK, Row, Round
  <2>3. holder' \in Servers \cup {NoOne} /\ faults' \in 0 .. MaxFaults
    BY DEF Query, Base, TypeOK
  <2>. QED
    BY <1>0, <1>1, <1>3, <1>4, <1>5, <1>6, <2>2, <2>3, BaseKept DEF Query, issueVars
<1>8. Active' = Active /\ SameNows
  BY <1>3, <1>5, <1>6 DEF SameNows, Active
<1>9. Latest'
  BY <1>0, <1>8, LatestKept DEF Query, Base, Latest
<1>10. ASSUME NEW p \in Pairs PROVE Drifts(p)
  <2>1. p[1] \in Int
    BY DEF Pairs, Rules
  <2>2. s \in Ahead(p)' => s \in Ahead(p)
    BY <1>1, <1>3, <1>5, <1>6, <2>1 DEF Ahead
  <2>3. s \notin Sending(p) /\ s \notin Pending(p) /\ s \notin Failing(p)
    BY <1>1 DEF Sending, Pending, Failing
  <2>4. s \notin Sending(p)' /\ s \notin Pending(p)' /\ s \notin Failing(p)'
    BY <1>3, <1>5 DEF Sending, Pending, Failing
  <2>5. SamePlaces(p) /\ Ahead(p)' \subseteq Ahead(p)
    BY <2>2, <2>3, <2>4, <1>5, OneMoves DEF SamePlaces
  <2>6. SameRecord(p) /\ Free /\ holder' = holder
    BY <1>0 DEF Query, SameRecord, Free
  <2>. QED
    BY <1>8, <2>5, <2>6 DEF Drifts
<1>. QED
  BY <1>7, <1>9, <1>10 DEF Base

LEMMA ConsiderSteps ==
  ASSUME Base, NEW s \in Servers, NEW i \in Issues, Consider(s, i)
  PROVE  Base' /\ \A p \in Pairs : Drifts(p) \/ Starts(p, s)
<1> DEFINE r == ev[s].rule
           passed == [ev[s] EXCEPT !.todo = @ \ {i}]
           sends == [passed EXCEPT !.issue = i, !.phase = "sending"]
<1>0. rules' = rules /\ Rules' = Rules /\ Pairs' = Pairs
  BY DEF Consider, issueVars, Rules, Pairs
<1>1. /\ ev[s].phase = "issues" /\ i \in ev[s].todo /\ r \in Rules
      /\ ev[s] \in Evaluation /\ r \in Int
  BY NowTypes DEF Consider, Base, Placed, Rules
<1>2. \/ ev' = [ev EXCEPT ![s] = passed] /\ faults' = faults
      \/ /\ ev' = [ev EXCEPT ![s] = sends]
         /\ \/ Fault
            \/ faults' = faults /\ ~InCooldown(rules[r], note[<<r, i>>], ev[s].now)
  BY DEF Consider
<1>3. /\ passed \in Evaluation /\ passed.phase = "issues" /\ passed.now = ev[s].now
      /\ passed.todo = ev[s].todo \ {i} /\ passed.rule = r
  BY <1>1 DEF Evaluation, Phases
<1>4. /\ sends \in Evaluation /\ sends.phase = "sending" /\ sends.now = ev[s].now
      /\ sends.todo = ev[s].todo \ {i} /\ sends.rule = r /\ sends.issue = i
  BY <1>1, <1>3 DEF Evaluation, Phases
<1> HIDE DEF r, passed, sends
<1>5. /\ ev'[s] \in {passed, sends} /\ \A t \in Servers \ {s} : ev'[t] = ev[t]
      /\ ev' = [ev EXCEPT ![s] = ev'[s]]
      /\ \/ ev'[s] = passed /\ faults' = faults
         \/ /\ ev'[s] = sends
            /\ \/ Fault
               \/ faults' = faults /\ ~InCooldown(rules[r], note[<<r, i>>], ev[s].now)
  BY <1>2 DEF Base, TypeOK
<1>6. s \in Active /\ s \in Active' /\ ev[s].now \in Time
  BY <1>1, <1>3, <1>4, <1>5 DEF Active, Base, Placed
<1>7. TypeOK' /\ Placed' /\ IsFiniteSet(Active)'
  <2>2. note' \in [Pairs -> Row] /\ log' \in [Pairs -> Seq(Round)]
    BY DEF Consider, Base, TypeOK, Row, Round
  <2>3. holder' \in Servers \cup {NoOne}
    BY DEF Consider, Base, TypeOK
  <2>4. faults' \in 0 .. MaxFaults
    BY <1>5, FaultType DEF Base
  <2>5. /\ ev'[s] \in Evaluation /\ ev'[s].now \in Time /\ ev'[s].rule \in Rules
        /\ ev'[s].phase \in {"sending", "recording"} => ev'[s].issue \in Issues \ ev'[s].todo
    BY <1>1, <1>3, <1>4, <1>5, <1>6
  <2>. QED
    BY <1>0, <1>5, <2>2, <2>3, <2>4, <2>5, BaseKept DEF Consider, issueVars
<1>8. Active' = Active /\ SameNows
  BY <1>3, <1>4, <1>5, <1>6 DEF SameNows, Active
<1>9. Latest'
  BY <1>0, <1>8, LatestKept DEF Consider, Base, Latest
<1>10. ASSUME NEW p \in Pairs PROVE Drifts(p) \/ Starts(p, s)
  <2>1. p = <<p[1], p[2]>> /\ p[1] \in Int /\ r \in Int
    BY <1>1 DEF Pairs, Rules
  <2>2. s \notin Sending(p) /\ s \notin Pending(p) /\ s \notin Failing(p)
    BY <1>1 DEF Sending, Pending, Failing
  <2>3. s \notin Pending(p)' /\ s \notin Failing(p)'
    BY <1>3, <1>4, <1>5 DEF Pending, Failing
  <2>4. s \in Ahead(p)' => s \in Ahead(p)
    BY <1>1, <1>3, <1>4, <1>5, <1>6, <2>1 DEF Ahead, r
  <2>5. SameRecord(p) /\ holder' = holder
    BY <1>0 DEF Consider, SameRecord
  <2>6. Free \/ Costs
    BY <1>5 DEF Free, Costs, Fault
  <2>7. CASE s \notin Sending(p)'
    BY <1>5, <1>8, <2>2, <2>3, <2>4, <2>5, <2>6, <2>7, OneMoves DEF Drifts, SamePlaces
  <2>8. CASE s \in Sending(p)'
    <3>1. ev'[s] = sends /\ p = <<r, i>>
      BY <1>3, <1>4, <1>5, <2>8 DEF Sending, Pair
    <3>2. s \in Ahead(p) /\ s \notin Ahead(p)'
      BY <3>1, <1>1, <1>4, <1>6, <2>1 DEF Ahead, r
    <3>3. Costs \/ (Free /\ ~InCooldown(rules[p[1]], note[p], ev[s].now))
      <4>1. p[1] = r /\ note[p] = note[<<r, i>>]
        BY <3>1
      <4>2. sends # passed
        BY <1>3, <1>4
      <4>. QED
        BY <1>5, <3>1, <4>1, <4>2 DEF Free, Costs, Fault
    <3>. QED
      BY <1>5, <1>8, <2>2, <2>3, <2>5, <2>8, <3>2, <3>3, OneMoves DEF Starts
  <2>. QED
    BY <2>7, <2>8
<1>. QED
  BY <1>7, <1>9, <1>10 DEF Base

LEMMA SendSteps ==
  ASSUME Base, NEW s \in Servers, Send(s)
  PROVE  Base' /\ \A p \in Pairs : Drifts(p) \/ \E ok \in BOOLEAN : Posts(p, s, ok)
<1>0. rules' = rules /\ Rules' = Rules /\ Pairs' = Pairs
  BY DEF Send, issueVars, Rules, Pairs
<1>1. /\ ev[s].phase = "sending" /\ ev[s] \in Evaluation
      /\ Pair(s) \in Pairs /\ s \in Active /\ ev[s].now \in Time
      /\ ev[s].rule \in Rules /\ ev[s].issue \in Issues \ ev[s].todo
  BY PairType, NowTypes DEF Send, Base, Placed
<1>2. PICK ok \in BOOLEAN :
        /\ ev' = [ev EXCEPT ![s].delivered = ok, ![s].phase = "recording"]
        /\ log' = [log EXCEPT ![Pair(s)] = Append(@, [now |-> ev[s].now, delivered |-> ok])]
  BY DEF Send
<1> DEFINE e == [ev[s] EXCEPT !.delivered = ok, !.phase = "recording"]
<1>3. /\ e \in Evaluation /\ e.phase = "recording" /\ e.now = ev[s].now
      /\ e.todo = ev[s].todo /\ e.rule = ev[s].rule /\ e.issue = ev[s].issue
      /\ e.delivered = ok
  BY <1>1 DEF Evaluation, Phases
<1>4. ev' = [ev EXCEPT ![s] = e]
  BY <1>2, NowTypes DEF Base, TypeOK
<1> HIDE DEF e
<1>5. ev'[s] = e /\ \A t \in Servers \ {s} : ev'[t] = ev[t]
  BY <1>4 DEF Base, TypeOK
<1>6. s \in Active' /\ Pair(s)' = Pair(s)
  BY <1>3, <1>5 DEF Active, Pair
<1>7. [now |-> ev[s].now, delivered |-> ok] \in Round
  BY <1>1 DEF Round
<1>8. /\ log' \in [Pairs -> Seq(Round)]
      /\ log'[Pair(s)] = Append(log[Pair(s)], [now |-> ev[s].now, delivered |-> ok])
      /\ \A p \in Pairs \ {Pair(s)} : log'[p] = log[p]
  <2>1. log \in [Pairs -> Seq(Round)]
    BY DEF Base, TypeOK, Round
  <2>2. Append(log[Pair(s)], [now |-> ev[s].now, delivered |-> ok]) \in Seq(Round)
    BY <1>1, <1>7, <2>1
  <2>. QED
    BY <1>1, <1>2, <2>1, <2>2
<1>9. TypeOK' /\ Placed' /\ IsFiniteSet(Active)'
  <2>2. note' \in [Pairs -> Row] /\ holder' \in Servers \cup {NoOne} /\ faults' \in 0 .. MaxFaults
    BY DEF Send, Base, TypeOK, Row
  <2>. QED
    BY <1>0, <1>1, <1>3, <1>4, <1>5, <1>8, <2>2, BaseKept DEF Send, issueVars
<1>10. Active' = Active /\ SameNows
  BY <1>1, <1>3, <1>5, <1>6 DEF SameNows, Active
<1>11. Latest'
  <2>1. clock' = clock /\ holder' = holder /\ \A t \in Active : t \in Servers
    BY DEF Send, Active
  <2>2. \A t \in Servers : ev'[t].now <= clock
    BY <1>10 DEF SameNows, Base, Latest
  <2>3. ASSUME NEW p \in Pairs, NEW k \in 1 .. Len(log'[p])
        PROVE  log'[p][k].now <= clock /\ (holder # NoOne => log'[p][k].now <= ev[holder].now)
    <3>1. CASE p # Pair(s)
      BY <3>1, <1>8, <2>3 DEF Base, Latest
    <3>2. CASE p = Pair(s)
      <4>1. (k \in 1 .. Len(log[p]) /\ log'[p][k] = log[p][k]) \/ log'[p][k].now = ev[s].now
        BY <3>2, <1>8, <1>7, <1>1, <2>3, NowTypes DEF Base
      <4>. QED
        BY <4>1, <1>1 DEF Base, Latest
    <3>. QED
      BY <3>1, <3>2
  <2>4. holder # NoOne => /\ holder \in Active'
                          /\ \A t \in Active' : ev'[t].now <= ev'[holder].now
                          /\ ev'[holder].now = ev[holder].now
    BY <1>10, <2>1 DEF SameNows, Base, Latest
  <2>. QED
    BY <1>0, <2>1, <2>2, <2>3, <2>4 DEF Latest
<1>12. ASSUME NEW p \in Pairs PROVE Drifts(p) \/ Posts(p, s, ok)
  <2>1. s \notin Pending(p) /\ s \notin Failing(p) /\ s \notin Sending(p)'
    BY <1>1, <1>3, <1>5 DEF Sending, Pending, Failing
  <2>2. /\ s \in Sending(p) <=> p = Pair(s)
        /\ s \in Pending(p)' <=> p = Pair(s) /\ ok
        /\ s \in Failing(p)' <=> p = Pair(s) /\ ~ok
    BY <1>1, <1>3, <1>5, <1>6 DEF Sending, Pending, Failing
  <2>3. s \in Ahead(p)' <=> s \in Ahead(p)
    BY <1>1, <1>3, <1>5, <1>6 DEF Ahead
  <2>4. rules' = rules /\ note'[p] = note[p] /\ holder' = holder /\ Free
    BY <1>0 DEF Send, Free
  <2>5. CASE p # Pair(s)
    <3>1. s \notin Sending(p) /\ s \notin Pending(p)' /\ s \notin Failing(p)'
      BY <2>2, <2>5, Zenon
    <3>2. /\ Sending(p)' = Sending(p) /\ Ahead(p)' = Ahead(p)
          /\ Pending(p)' = Pending(p) /\ Failing(p)' = Failing(p)
      BY <1>5, <2>1, <2>3, <3>1, OneMoves
    <3>3. log'[p] = log[p]
      BY <1>8, <2>5, Zenon
    <3>. QED
      BY <1>10, <2>4, <3>2, <3>3 DEF Drifts, SameRecord, SamePlaces
  <2>6. CASE p = Pair(s)
    <3>1. s \in Sending(p) /\ (s \in Pending(p)' <=> ok) /\ (s \in Failing(p)' <=> ~ok)
      BY <2>2, <2>6, Zenon
    <3>2. /\ Sending(p)' = Sending(p) \ {s} /\ Ahead(p)' = Ahead(p)
          /\ Pending(p)' = Pending(p) \cup (IF ok THEN {s} ELSE {})
          /\ Failing(p)' = Failing(p) \cup (IF ok THEN {} ELSE {s})
      BY <1>5, <2>1, <2>3, <3>1, OneMoves
    <3>3. log'[p] = Append(log[p], [now |-> ev[s].now, delivered |-> ok])
      BY <1>8, <2>6
    <3>. QED
      BY <1>10, <2>4, <3>1, <3>2, <3>3 DEF Posts
  <2>. QED
    BY <2>5, <2>6
<1>. QED
  BY <1>9, <1>11, <1>12 DEF Base

LEMMA RecordSteps ==
  ASSUME Base, NEW s \in Servers, Record(s)
  PROVE  Base' /\ \A p \in Pairs : Drifts(p) \/ Writes(p, s) \/ Forgets(p, s)
<1>0. rules' = rules /\ Rules' = Rules /\ Pairs' = Pairs
  BY DEF Record, issueVars, Rules, Pairs
<1>1. /\ ev[s].phase = "recording" /\ ev[s] \in Evaluation /\ ev[s].delivered \in BOOLEAN
      /\ Pair(s) \in Pairs /\ s \in Active /\ ev[s].now \in Time
      /\ ev[s].rule \in Rules /\ ev[s].issue \in Issues \ ev[s].todo
  BY PairType, NowTypes DEF Record, Base, Placed, Evaluation
<1> DEFINE e == [ev[s] EXCEPT !.phase = "issues", !.delivered = FALSE, !.issue = NoOne]
<1>3. /\ e \in Evaluation /\ e.phase = "issues" /\ e.now = ev[s].now
      /\ e.todo = ev[s].todo /\ e.rule = ev[s].rule
  BY <1>1 DEF Evaluation, Phases
<1>4. ev' = [ev EXCEPT ![s] = e]
  BY NowTypes DEF Record, Base, TypeOK
<1> HIDE DEF e
<1>5. ev'[s] = e /\ \A t \in Servers \ {s} : ev'[t] = ev[t]
  BY <1>4 DEF Base, TypeOK
<1>6. s \in Active'
  BY <1>3, <1>5 DEF Active
<1>7. Attempted(note[Pair(s)], ev[s].now, ev[s].delivered) \in Row
  <2>1. note[Pair(s)] \in Row /\ note[Pair(s)].failures \in Nat
    BY <1>1, NowTypes DEF Base, Row
  <2>. QED
    BY <1>1, <2>1 DEF Attempted, Row
<1>8. /\ note' \in [Pairs -> Row]
      /\ \A p \in Pairs \ {Pair(s)} : note'[p] = note[p]
      /\ \/ note'[Pair(s)] = Attempted(note[Pair(s)], ev[s].now, ev[s].delivered) /\ Free
         \/ note'[Pair(s)] = note[Pair(s)] /\ Costs
      /\ faults' \in 0 .. MaxFaults
  <2>1. note \in [Pairs -> Row]
    BY DEF Base, TypeOK, Row
  <2>2. CASE note' = [note EXCEPT ![Pair(s)] = Attempted(@, ev[s].now, ev[s].delivered)]
             /\ UNCHANGED faults
    BY <1>1, <1>7, <2>1, <2>2, FaultType DEF Base, Free
  <2>3. CASE Fault /\ UNCHANGED note
    BY <2>1, <2>3, FaultType DEF Base, Fault, Costs
  <2>. QED
    BY <2>2, <2>3 DEF Record
<1>9. TypeOK' /\ Placed' /\ IsFiniteSet(Active)'
  <2>2. log' \in [Pairs -> Seq(Round)] /\ holder' \in Servers \cup {NoOne}
    BY DEF Record, Base, TypeOK, Round
  <2>. QED
    BY <1>0, <1>1, <1>3, <1>4, <1>5, <1>8, <2>2, BaseKept DEF Record, issueVars
<1>10. Active' = Active /\ SameNows
  BY <1>1, <1>3, <1>5, <1>6 DEF SameNows, Active
<1>11. Latest'
  BY <1>0, <1>10, LatestKept DEF Record, Base, Latest
<1>12. ASSUME NEW p \in Pairs PROVE Drifts(p) \/ Writes(p, s) \/ Forgets(p, s)
  <2>1. /\ s \notin Sending(p) /\ s \notin Sending(p)' /\ s \notin Pending(p)'
        /\ s \notin Failing(p)'
    BY <1>1, <1>3, <1>5 DEF Sending, Pending, Failing
  <2>2. /\ s \in Pending(p) <=> p = Pair(s) /\ ev[s].delivered
        /\ s \in Failing(p) <=> p = Pair(s) /\ ~ev[s].delivered
    BY <1>1 DEF Pending, Failing
  <2>3. s \in Ahead(p)' <=> s \in Ahead(p)
    BY <1>1, <1>3, <1>5, <1>6 DEF Ahead
  <2>4. rules' = rules /\ log'[p] = log[p] /\ holder' = holder
    BY <1>0 DEF Record
  <2>5. CASE p # Pair(s)
    <3>1. s \notin Pending(p) /\ s \notin Failing(p)
      BY <2>2, <2>5, Zenon
    <3>2. SamePlaces(p) /\ Ahead(p)' = Ahead(p)
      BY <1>5, <2>1, <2>3, <3>1, OneMoves DEF SamePlaces
    <3>3. note'[p] = note[p] /\ (Free \/ Costs)
      BY <1>8, <2>5
    <3>. QED
      BY <1>10, <2>4, <3>2, <3>3 DEF Drifts, SameRecord
  <2>6. CASE p = Pair(s)
    <3>1. (ev[s].delivered <=> s \in Pending(p)) /\ s \in Pending(p) \cup Failing(p)
      BY <2>2, <2>6, Zenon
    <3>2. /\ Sending(p)' = Sending(p) /\ Ahead(p)' = Ahead(p)
          /\ Pending(p)' = Pending(p) \ {s} /\ Failing(p)' = Failing(p) \ {s}
      BY <1>5, <2>1, <2>3, OneMoves
    <3>3. \/ note'[p] = Attempted(note[p], ev[s].now, ev[s].delivered) /\ Free
          \/ note'[p] = note[p] /\ Costs
      BY <1>8, <2>6
    <3>. QED
      BY <1>10, <2>4, <3>1, <3>2, <3>3 DEF Writes, Forgets, SameRecord
  <2>. QED
    BY <2>5, <2>6
<1>. QED
  BY <1>9, <1>11, <1>12 DEF Base

\* An evaluation that ends, done or not: nothing of it is left.
LEMMA Ends ==
  ASSUME Base, NEW s \in Servers, ev' = [ev EXCEPT ![s] = Idle(@.now)],
         UNCHANGED <<clock, rules, arrivals, status, regression, note, log>>,
         holder' = Released(s), faults' \in 0 .. MaxFaults
  PROVE  /\ Base'
         /\ \A p \in Pairs :
              (\/ Costs
               \/ Free /\ s \notin Ahead(p) \cup Sending(p) \cup Pending(p) \cup Failing(p))
              => Leaves(p, s)
<1> DEFINE e == Idle(ev[s].now)
<1>0. Rules' = Rules /\ Pairs' = Pairs /\ holder' \in {holder, NoOne} /\ holder' # s
  BY NoOneAssumption DEF Rules, Pairs, Released
<1>1. ev[s].now \in Time \cup {Never}
  BY DEF Base, TypeOK
<1>2. /\ e \in Evaluation /\ e.phase = "idle" /\ e.now = ev[s].now /\ e.todo = {}
  BY <1>1, IdleFields
<1> HIDE DEF e
<1>3. ev' = [ev EXCEPT ![s] = e]
  BY DEF e, Base, TypeOK
<1>4. ev'[s] = e /\ \A t \in Servers \ {s} : ev'[t] = ev[t]
  BY <1>3 DEF Base, TypeOK
<1>5. TypeOK' /\ Placed' /\ IsFiniteSet(Active)'
  <2>2. note' \in [Pairs -> Row] /\ log' \in [Pairs -> Seq(Round)]
    BY DEF Base, TypeOK, Row, Round
  <2>3. holder' \in Servers \cup {NoOne}
    BY <1>0 DEF Base, TypeOK
  <2>. QED
    BY <1>2, <1>3, <1>4, <2>2, <2>3, BaseKept
<1>6. Active' = Active \ {s} /\ SameNows
  BY <1>2, <1>4 DEF SameNows, Active
<1>7. Latest'
  BY <1>0, <1>6, LatestKept DEF Base, Latest
<1>8. ASSUME NEW p \in Pairs,
             Costs \/ (Free /\ s \notin Ahead(p) \cup Sending(p) \cup Pending(p) \cup Failing(p))
      PROVE  Leaves(p, s)
  <2>1. /\ s \notin Sending(p)' /\ s \notin Pending(p)' /\ s \notin Failing(p)'
        /\ s \notin Ahead(p)'
    BY <1>2, <1>4, <1>6 DEF Sending, Pending, Failing, Ahead
  <2>2. /\ Sending(p)' = Sending(p) \ {s} /\ Ahead(p)' = Ahead(p) \ {s}
        /\ Pending(p)' = Pending(p) \ {s} /\ Failing(p)' = Failing(p) \ {s}
    BY <1>4, <2>1, OneMoves
  <2>. QED
    BY <1>6, <1>8, <2>2 DEF Leaves, SameRecord
<1>. QED
  BY <1>5, <1>7, <1>8 DEF Base

LEMMA FinishSteps ==
  ASSUME Base, NEW s \in Servers, Finish(s)
  PROVE  Base' /\ \A p \in Pairs : Leaves(p, s)
<1>1. ev[s].phase = "issues" /\ ev[s].todo = {} /\ ev[s].rule = Len(rules)
  BY DEF Finish, BetweenRules
<1>2. /\ UNCHANGED <<clock, rules, arrivals, status, regression, note, log>>
      /\ ev' = [ev EXCEPT ![s] = Idle(@.now)] /\ holder' = Released(s) /\ Free
  BY DEF Finish, issueVars, Free
<1>3. faults' \in 0 .. MaxFaults
  BY <1>2, FaultType DEF Base, Free
<1>4. ASSUME NEW p \in Pairs
      PROVE  s \notin Ahead(p) \cup Sending(p) \cup Pending(p) \cup Failing(p)
  <2>1. p[1] \in 1 .. Len(rules) /\ p[1] \in Int
    BY DEF Pairs, Rules
  <2>2. rules \in Seq(RuleSpec)
    BY RuleAssumption DEF Base, TypeOK
  <2>3. Len(rules) \in Nat
    BY <2>2
  <2>4. ~(ev[s].rule < p[1])
    BY <1>1, <2>1, <2>3
  <2>. QED
    BY <1>1, <2>4 DEF Ahead, Sending, Pending, Failing
<1>. QED
  BY <1>2, <1>3, <1>4, Ends

LEMMA CrashSteps ==
  ASSUME Base, NEW s \in Servers, Crash(s)
  PROVE  Base' /\ \A p \in Pairs : Leaves(p, s)
<1>1. /\ UNCHANGED <<clock, rules, arrivals, status, regression, note, log>>
      /\ ev' = [ev EXCEPT ![s] = Idle(@.now)] /\ holder' = Released(s) /\ Costs
      /\ faults' \in 0 .. MaxFaults
  BY FaultType DEF Crash, issueVars, Fault, Costs, Base
<1>. QED
  BY <1>1, Ends

\* Nothing happens to any evaluation.
LEMMA Rests ==
  ASSUME Base, UNCHANGED <<rules, ev, log, note>>, TypeOK',
         clock' \in {clock, clock + 1}, holder' \in {holder, NoOne}
  PROVE  /\ Base' /\ Active' = Active /\ SameNows
         /\ \A p \in Pairs : SameRecord(p) /\ SamePlaces(p) /\ Ahead(p)' = Ahead(p)
<1>1. Rules' = Rules /\ Pairs' = Pairs
  BY DEF Rules, Pairs
<1>2. Active' = Active /\ SameNows
  BY DEF Active, SameNows
<1>3. \A p \in Pairs : SameRecord(p) /\ SamePlaces(p) /\ Ahead(p)' = Ahead(p)
  BY DEF SameRecord, SamePlaces, Sending, Pending, Failing, Ahead, Active, Pair
<1>4. Placed'
  BY <1>1, <1>2 DEF Base, Placed
<1>5. Latest'
  <2>1. clock <= clock' /\ clock \in Int /\ clock' \in Int
    BY NowTypes DEF Base
  <2>2. \A t \in Servers : ev[t].now <= clock'
    BY <2>1, NowTypes DEF Base, Latest
  <2>3. \A p \in Pairs : \A k \in 1 .. Len(log[p]) : log[p][k].now <= clock'
    BY <2>1, NowTypes DEF Base, Latest
  <2>4. holder' # NoOne => holder' = holder
    OBVIOUS
  <2>. QED
    BY <1>1, <1>2, <2>2, <2>3, <2>4 DEF Base, Latest
<1>. QED
  BY <1>2, <1>3, <1>4, <1>5 DEF Base

LEMMA LoseSessionSteps ==
  ASSUME Base, NEW s \in Servers, LoseSession(s)
  PROVE  Base' /\ \A p \in Pairs : Unlocks(p, s)
<1>1. faults' \in 0 .. MaxFaults /\ Costs
  BY FaultType DEF LoseSession, Fault, Costs, Base
<1>2. TypeOK'
  BY <1>1 DEF LoseSession, Base, TypeOK, issueVars, Rules, Pairs
<1>. QED
  BY <1>1, <1>2, Rests DEF LoseSession, issueVars, Unlocks

LEMMA IssueSteps ==
  ASSUME Base, Tick \/ (\E i \in Issues : Arrive(i) \/ Resolve(i)) \/ UNCHANGED vars
  PROVE  Base' /\ \A p \in Pairs : Drifts(p)
<1>1. /\ UNCHANGED <<rules, ev, log, note, holder>> /\ Free
      /\ clock' \in {clock, clock + 1}
  BY DEF Tick, Arrive, Resolve, vars, issueVars, Free
<1>2. TypeOK'
  <2>1. clock \in Time
    BY DEF Base, TypeOK
  <2>2. CASE Tick
    <3>1. clock' \in Time
      BY <2>1, <2>2, BoundAssumption DEF Tick, Time
    <3>. QED
      BY <2>2, <3>1 DEF Tick, issueVars, Base, TypeOK, Rules, Pairs
  <2>3. ASSUME NEW i \in Issues, Arrive(i) PROVE TypeOK'
    <3>1. arrivals' \in [Issues -> SUBSET Time]
      BY <2>1, <2>3 DEF Arrive, Base, TypeOK
    <3>2. status' \in [Issues -> {"unresolved", "resolved"}]
      BY <2>3 DEF Arrive, Base, TypeOK
    <3>3. (regression[i] \/ status[i] = "resolved") \in BOOLEAN
      OBVIOUS
    <3>4. regression' \in [Issues -> BOOLEAN]
      BY <2>3, <3>3, Zenon DEF Arrive, Base, TypeOK
    <3>. QED
      BY <2>3, <3>1, <3>2, <3>4 DEF Arrive, Base, TypeOK, Rules, Pairs
  <2>4. ASSUME NEW i \in Issues, Resolve(i) PROVE TypeOK'
    BY <2>4 DEF Resolve, Base, TypeOK, Rules, Pairs
  <2>5. CASE UNCHANGED vars
    BY <2>5 DEF vars, Base, TypeOK, Rules, Pairs
  <2>. QED
    BY <2>2, <2>3, <2>4, <2>5
<1>. QED
  BY <1>1, <1>2, Rests DEF Drifts

\* Every step is one of these, for every rule and Issue.
LEMMA Steps == Base /\ [Next]_vars => Base' /\ \A p \in Pairs : Seen(p)
<1>. SUFFICES ASSUME Base, [Next]_vars PROVE Base' /\ \A p \in Pairs : Seen(p)
  OBVIOUS
<1>1. CASE Tick \/ (\E i \in Issues : Arrive(i) \/ Resolve(i)) \/ UNCHANGED vars
  BY <1>1, IssueSteps DEF Seen
<1>2. ASSUME NEW s \in Servers, Begin(s) PROVE Base' /\ \A p \in Pairs : Seen(p)
  BY <1>2, BeginSteps DEF Seen
<1>3. ASSUME NEW s \in Servers, Query(s) PROVE Base' /\ \A p \in Pairs : Seen(p)
  BY <1>3, QuerySteps DEF Seen
<1>4. ASSUME NEW s \in Servers, NEW i \in Issues, Consider(s, i)
      PROVE  Base' /\ \A p \in Pairs : Seen(p)
  BY <1>4, ConsiderSteps DEF Seen
<1>5. ASSUME NEW s \in Servers, Send(s) PROVE Base' /\ \A p \in Pairs : Seen(p)
  BY <1>5, SendSteps DEF Seen
<1>6. ASSUME NEW s \in Servers, Record(s) PROVE Base' /\ \A p \in Pairs : Seen(p)
  BY <1>6, RecordSteps DEF Seen
<1>7. ASSUME NEW s \in Servers, Finish(s) PROVE Base' /\ \A p \in Pairs : Seen(p)
  BY <1>7, FinishSteps DEF Seen
<1>8. ASSUME NEW s \in Servers, LoseSession(s) PROVE Base' /\ \A p \in Pairs : Seen(p)
  BY <1>8, LoseSessionSteps DEF Seen
<1>9. ASSUME NEW s \in Servers, Crash(s) PROVE Base' /\ \A p \in Pairs : Seen(p)
  BY <1>9, CrashSteps DEF Seen
<1>. QED
  BY <1>1, <1>2, <1>3, <1>4, <1>5, <1>6, <1>7, <1>8, <1>9 DEF Next, Evaluate

-----------------------------------------------------------------------------
(* Rounds and deliveries.                                                  *)

LEMMA DeliveryFacts ==
  ASSUME Base, NEW p \in Pairs
  PROVE  /\ Deliveries(p) \subseteq 1 .. Len(log[p]) /\ IsFiniteSet(Deliveries(p))
         /\ Cardinality(Deliveries(p)) \in Nat /\ Cardinality(Deliveries(p)) <= Len(log[p])
         /\ \A k \in Deliveries(p) : k \in Nat /\ log[p][k].now \in Nat
<1>1. Len(log[p]) \in Nat /\ \A k \in 1 .. Len(log[p]) : log[p][k].now \in Nat
  BY NowTypes DEF Base
<1>2. Deliveries(p) \subseteq 1 .. Len(log[p])
  BY DEF Deliveries
<1>3. IsFiniteSet(1 .. Len(log[p])) /\ Cardinality(1 .. Len(log[p])) = Len(log[p])
  BY <1>1, FS_Interval
<1>. QED
  BY <1>1, <1>2, <1>3, CardSubset

LEMMA DeliveriesSame ==
  ASSUME NEW p, log'[p] = log[p]
  PROVE  Deliveries(p)' = Deliveries(p)
BY DEF Deliveries

LEMMA DeliveriesPosted ==
  ASSUME Base, NEW p \in Pairs, NEW s \in Servers, NEW ok \in BOOLEAN, Posts(p, s, ok)
  PROVE  /\ Len(log[p]) \in Nat /\ Len(log'[p]) = Len(log[p]) + 1
         /\ \A k \in 1 .. Len(log[p]) : log'[p][k] = log[p][k]
         /\ log'[p][Len(log[p]) + 1].delivered <=> ok
         /\ log'[p][Len(log[p]) + 1].now = ev[s].now
         /\ Deliveries(p)' = Deliveries(p) \cup (IF ok THEN {Len(log[p]) + 1} ELSE {})
         /\ Len(log[p]) + 1 \notin Deliveries(p)
         /\ \A k \in Deliveries(p) : log'[p][k] = log[p][k]
         /\ s \in Active /\ ev[s].now \in Nat
<1> DEFINE n == Len(log[p])
<1>1. log[p] \in Seq(Round) /\ n \in Nat
  BY NowTypes DEF Base
<1>2. s \in Active /\ ev[s].now \in Time /\ ev[s].now \in Nat
  BY BoundAssumption DEF Posts, Sending, Active, Base, Placed, Time
<1>3. [now |-> ev[s].now, delivered |-> ok] \in Round
  BY <1>2 DEF Round
<1>4. log'[p] = Append(log[p], [now |-> ev[s].now, delivered |-> ok])
  BY DEF Posts
<1>5. /\ Len(log'[p]) = n + 1
      /\ \A k \in 1 .. n : log'[p][k] = log[p][k]
      /\ log'[p][n + 1] = [now |-> ev[s].now, delivered |-> ok]
  BY <1>1, <1>3, <1>4
<1>6. log'[p][n + 1].now = ev[s].now
  BY <1>5
<1>7. log'[p][n + 1].delivered = ok
  BY <1>5
<1> HIDE DEF n
<1>8. Deliveries(p) \subseteq 1 .. n /\ n + 1 \notin Deliveries(p)
  BY <1>1 DEF Deliveries, n
<1>9. Deliveries(p)' = Deliveries(p) \cup (IF ok THEN {n + 1} ELSE {})
  <2>1. Deliveries(p)' = {k \in 1 .. n + 1 : log'[p][k].delivered}
    BY <1>5 DEF Deliveries
  <2>2. \A k \in 1 .. n + 1 : k \in 1 .. n \/ k = n + 1
    BY <1>1
  <2>3. 1 .. n \subseteq 1 .. n + 1 /\ n + 1 \in 1 .. n + 1
    BY <1>1
  <2>4. Deliveries(p) = {k \in 1 .. n : log[p][k].delivered}
    BY DEF Deliveries, n
  <2>. QED
    BY <1>5, <1>7, <2>1, <2>2, <2>3, <2>4
<1>. QED
  <2>1. \A k \in Deliveries(p) : log'[p][k] = log[p][k]
    BY <1>5, <1>8
  <2>. QED
    BY <1>1, <1>2, <1>5, <1>6, <1>7, <1>8, <1>9, <2>1 DEF n

-----------------------------------------------------------------------------
(* RecordsAreTrue.                                                         *)

\* A delivery is in the log before it is recorded; so is a failure.
RecordsTrue(p) ==
  /\ note[p].notified # Never =>
       \E k \in Deliveries(p) : log[p][k].now = note[p].notified
  /\ \A s \in Pending(p) : \E k \in Deliveries(p) : log[p][k].now = ev[s].now
  /\ IsFiniteSet(Failing(p))
  /\ note[p].failures + Cardinality(Failing(p)) <= Len(log[p]) - Cardinality(Deliveries(p))

LEMMA RecordsPosted ==
  ASSUME Base, NEW p \in Pairs, NEW s \in Servers, NEW ok \in BOOLEAN, Posts(p, s, ok),
         RecordsTrue(p)
  PROVE  RecordsTrue(p)'
<1> DEFINE n == Len(log[p])
<1>1. /\ n \in Nat /\ Len(log'[p]) = n + 1
      /\ log'[p][n + 1].now = ev[s].now
      /\ Deliveries(p)' = Deliveries(p) \cup (IF ok THEN {n + 1} ELSE {})
      /\ n + 1 \notin Deliveries(p)
      /\ \A k \in Deliveries(p) : log'[p][k] = log[p][k]
  <2> HIDE DEF n
  <2>1. n = Len(log[p])
    BY DEF n
  <2>2. n \in Nat /\ Len(log'[p]) = n + 1 /\ log'[p][n + 1].now = ev[s].now
    BY <2>1, DeliveriesPosted
  <2>3. /\ Deliveries(p)' = Deliveries(p) \cup (IF ok THEN {n + 1} ELSE {})
        /\ n + 1 \notin Deliveries(p)
    BY <2>1, DeliveriesPosted
  <2>4. \A k \in Deliveries(p) : log'[p][k] = log[p][k]
    BY DeliveriesPosted
  <2>. QED
    BY <2>2, <2>3, <2>4
<1> HIDE DEF n
<1>2. /\ note'[p] = note[p] /\ SameNows
      /\ Pending(p)' = Pending(p) \cup (IF ok THEN {s} ELSE {})
      /\ Failing(p)' = Failing(p) \cup (IF ok THEN {} ELSE {s})
  BY DEF Posts
<1>3. (note[p].notified # Never =>
         \E k \in Deliveries(p) : log[p][k].now = note[p].notified)'
  BY <1>1, <1>2 DEF RecordsTrue
<1>4. ASSUME NEW t \in Pending(p)'
      PROVE  \E k \in Deliveries(p)' : log'[p][k].now = ev'[t].now
  <2>1. t \in Servers /\ ev'[t].now = ev[t].now
    BY <1>2 DEF SameNows, Pending
  <2>2. CASE t \in Pending(p)
    BY <1>1, <2>1, <2>2 DEF RecordsTrue
  <2>3. CASE t \notin Pending(p)
    BY <1>1, <1>2, <2>1, <2>3
  <2>. QED
    BY <2>2, <2>3
<1>5. /\ IsFiniteSet(Failing(p)')
      /\ note'[p].failures + Cardinality(Failing(p)')
           <= Len(log'[p]) - Cardinality(Deliveries(p)')
  <2>1. /\ IsFiniteSet(Deliveries(p)) /\ Cardinality(Deliveries(p)) \in Nat
        /\ IsFiniteSet(Failing(p)) /\ Cardinality(Failing(p)) \in Nat
        /\ note[p].failures \in Nat
        /\ note[p].failures + Cardinality(Failing(p)) <= n - Cardinality(Deliveries(p))
    BY DeliveryFacts, FS_CardinalityType, NowTypes DEF RecordsTrue, Base, Row, n
  <2>2. CASE ok
    <3>1. Deliveries(p)' \subseteq Deliveries(p) \cup {n + 1} /\ Failing(p)' = Failing(p)
      BY <1>1, <1>2, <2>2
    <3>2. Cardinality(Deliveries(p)') <= Cardinality(Deliveries(p)) + 1
          /\ Cardinality(Deliveries(p)') \in Nat
      BY <2>1, <3>1, CardMore
    <3>3. Len(log'[p]) = n + 1 /\ note'[p] = note[p] /\ n \in Nat
      BY <1>1, <1>2
    <3>. QED
      BY <2>1, <3>1, <3>2, <3>3
  <2>3. CASE ~ok
    <3>1. Failing(p)' \subseteq Failing(p) \cup {s} /\ Deliveries(p)' = Deliveries(p)
      BY <1>1, <1>2, <2>3
    <3>2. /\ Cardinality(Failing(p)') <= Cardinality(Failing(p)) + 1
          /\ Cardinality(Failing(p)') \in Nat /\ IsFiniteSet(Failing(p)')
      BY <2>1, <3>1, CardMore
    <3>3. Len(log'[p]) = n + 1 /\ note'[p] = note[p] /\ n \in Nat
      BY <1>1, <1>2
    <3>. QED
      BY <2>1, <3>1, <3>2, <3>3
  <2>. QED
    BY <2>2, <2>3
<1>. QED
  BY <1>3, <1>4, <1>5 DEF RecordsTrue

LEMMA RecordsWritten ==
  ASSUME Base, NEW p \in Pairs, NEW s \in Servers, Writes(p, s), RecordsTrue(p)
  PROVE  RecordsTrue(p)'
<1>1. /\ log'[p] = log[p] /\ Deliveries(p)' = Deliveries(p) /\ SameNows
      /\ Pending(p)' = Pending(p) \ {s} /\ Failing(p)' = Failing(p) \ {s}
      /\ s \in Pending(p) \cup Failing(p) /\ (ev[s].delivered <=> s \in Pending(p))
      /\ note'[p] = Attempted(note[p], ev[s].now, ev[s].delivered)
  BY DeliveriesSame DEF Writes
<1>2. /\ IsFiniteSet(Failing(p)) /\ Cardinality(Failing(p)) \in Nat
      /\ note[p].failures \in Nat /\ Cardinality(Deliveries(p)) \in Nat /\ Len(log[p]) \in Nat
      /\ note[p].failures + Cardinality(Failing(p)) <= Len(log[p]) - Cardinality(Deliveries(p))
  BY DeliveryFacts, FS_CardinalityType, NowTypes DEF RecordsTrue, Base, Row
<1>3. \A t \in Pending(p)' : \E k \in Deliveries(p)' : log'[p][k].now = ev'[t].now
  <2>1. \A t \in Pending(p) : t \in Servers
    BY DEF Pending
  <2>. QED
    BY <1>1, <2>1 DEF RecordsTrue, SameNows
<1>4. CASE s \in Pending(p)
  <2>1. note'[p].notified = ev[s].now /\ note'[p].failures = 0
    BY <1>1, <1>4 DEF Attempted
  <2>2. \E k \in Deliveries(p) : log[p][k].now = ev[s].now
    BY <1>4 DEF RecordsTrue
  <2>3. /\ IsFiniteSet(Failing(p)') /\ Cardinality(Failing(p)') <= Cardinality(Failing(p))
        /\ Cardinality(Failing(p)') \in Nat
    BY <1>1, <1>2, CardSubset
  <2>. QED
    BY <1>1, <1>2, <1>3, <2>1, <2>2, <2>3 DEF RecordsTrue
<1>5. CASE s \notin Pending(p)
  <2>1. note'[p].notified = note[p].notified /\ note'[p].failures = note[p].failures + 1
    BY <1>1, <1>5 DEF Attempted
  <2>2. /\ IsFiniteSet(Failing(p)') /\ Cardinality(Failing(p)') + 1 <= Cardinality(Failing(p))
        /\ Cardinality(Failing(p)') \in Nat
    BY <1>1, <1>2, <1>5, CardLess
  <2>3. note[p].notified # Never =>
          \E k \in Deliveries(p) : log[p][k].now = note[p].notified
    BY DEF RecordsTrue
  <2>. QED
    BY <1>1, <1>2, <1>3, <2>1, <2>2, <2>3 DEF RecordsTrue
<1>. QED
  BY <1>4, <1>5

LEMMA RecordsStep ==
  ASSUME Base, NEW p \in Pairs, Seen(p), RecordsTrue(p)
  PROVE  RecordsTrue(p)'
<1>1. ASSUME SameRecord(p), Pending(p)' \subseteq Pending(p), Failing(p)' \subseteq Failing(p),
             \A t \in Pending(p) : ev'[t].now = ev[t].now
      PROVE  RecordsTrue(p)'
  <2>1. Deliveries(p)' = Deliveries(p) /\ log'[p] = log[p] /\ note'[p] = note[p]
    BY <1>1, DeliveriesSame DEF SameRecord
  <2>2. /\ IsFiniteSet(Failing(p)') /\ Cardinality(Failing(p)') <= Cardinality(Failing(p))
        /\ Cardinality(Failing(p)') \in Nat /\ Cardinality(Failing(p)) \in Nat
    BY <1>1, CardSubset DEF RecordsTrue
  <2>3. note[p].failures \in Nat /\ Cardinality(Deliveries(p)) \in Nat /\ Len(log[p]) \in Nat
    BY DeliveryFacts, NowTypes DEF Base, Row
  <2>. QED
    BY <1>1, <2>1, <2>2, <2>3 DEF RecordsTrue
<1>2. \A t \in Pending(p) : t \in Servers /\ t \in Active
  BY DEF Pending, Active
<1>3. CASE Drifts(p)
  BY <1>1, <1>2, <1>3 DEF Drifts, SamePlaces, SameNows
<1>4. ASSUME NEW s \in Servers, Joins(p, s) PROVE RecordsTrue(p)'
  BY <1>1, <1>2, <1>4 DEF Joins, SamePlaces
<1>5. ASSUME NEW s \in Servers, Starts(p, s) PROVE RecordsTrue(p)'
  BY <1>1, <1>2, <1>5 DEF Starts, SameNows
<1>6. ASSUME NEW s \in Servers, Forgets(p, s) PROVE RecordsTrue(p)'
  BY <1>1, <1>2, <1>6 DEF Forgets, SameNows
<1>7. ASSUME NEW s \in Servers, Leaves(p, s) PROVE RecordsTrue(p)'
  BY <1>1, <1>2, <1>7 DEF Leaves, SameNows
<1>8. ASSUME NEW s \in Servers, Unlocks(p, s) PROVE RecordsTrue(p)'
  BY <1>1, <1>2, <1>8 DEF Unlocks, SamePlaces, SameNows
<1>. QED
  BY <1>3, <1>4, <1>5, <1>6, <1>7, <1>8, RecordsPosted, RecordsWritten DEF Seen

-----------------------------------------------------------------------------
(* FiresOncePerFault.                                                      *)

\* Evaluations that lost the lock and have delivered nothing they still know of.
Loose(p) == (Active \ {holder}) \ Pending(p)
Open(p)  == IF holder \in Pending(p) THEN 0 ELSE 1

\* Until a delivery is recorded every evaluation under way may deliver, after
\* that only those that have passed the cooldown check.
FiresAtMost(p) ==
  rules[p[1]].condition = "new_issue" =>
    /\ note[p].notified = Never =>
         Cardinality(Deliveries(p)) + Cardinality(Loose(p)) + Open(p) <= 1 + faults
    /\ note[p].notified # Never =>
         Cardinality(Deliveries(p)) + Cardinality(Sending(p)) <= 1 + faults

LEMMA PlaceFacts ==
  ASSUME Base, NEW p
  PROVE  /\ IsFiniteSet(Loose(p)) /\ Cardinality(Loose(p)) \in Nat
         /\ IsFiniteSet(Sending(p)) /\ Cardinality(Sending(p)) \in Nat
         /\ Open(p) \in {0, 1} /\ faults \in Nat
         /\ Loose(p) \subseteq Servers /\ Loose(p) \subseteq Active
         /\ Active \subseteq Servers /\ Sending(p) \subseteq Active
         /\ Pending(p) \subseteq Active /\ Ahead(p) \subseteq Active
         /\ Sending(p) \cap Pending(p) = {} /\ Ahead(p) \cap Pending(p) = {}
         /\ Sending(p) \cap Ahead(p) = {} /\ Failing(p) \cap Pending(p) = {}
         /\ NoOne \notin Active /\ (holder = NoOne \/ holder \in Active)
<1>1. /\ Active \subseteq Servers /\ Sending(p) \subseteq Active
      /\ Pending(p) \subseteq Active /\ Ahead(p) \subseteq Active
      /\ Loose(p) \subseteq Active
      /\ Sending(p) \cap Pending(p) = {} /\ Failing(p) \cap Pending(p) = {}
  BY DEF Active, Sending, Pending, Failing, Ahead, Loose
<1>2. \A s \in Ahead(p) : ev[s].phase \in {"sending", "recording"} => Pair(s) # p
  <2> SUFFICES ASSUME NEW s \in Ahead(p), ev[s].phase \in {"sending", "recording"}, Pair(s) = p
               PROVE  FALSE
    OBVIOUS
  <2>1. s \in Servers /\ p[1] = ev[s].rule /\ p[2] = ev[s].issue
    BY DEF Ahead, Active, Pair
  <2>2. ev[s].rule \in Int /\ ev[s].issue \notin ev[s].todo
    BY <2>1 DEF Base, Placed, Rules
  <2>. QED
    BY <2>1, <2>2 DEF Ahead
<1>3. Ahead(p) \cap Pending(p) = {} /\ Sending(p) \cap Ahead(p) = {}
  BY <1>2 DEF Sending, Pending
<1>4. NoOne \notin Active /\ (holder = NoOne \/ holder \in Active)
  BY NoOneAssumption, <1>1 DEF Base, Latest
<1>5. /\ IsFiniteSet(Loose(p)) /\ Cardinality(Loose(p)) \in Nat
      /\ IsFiniteSet(Sending(p)) /\ Cardinality(Sending(p)) \in Nat
  BY <1>1, CardSubset DEF Base
<1>6. faults \in Nat /\ Open(p) \in {0, 1}
  BY NowTypes DEF Base, Open
<1>. QED
  BY <1>1, <1>3, <1>4, <1>5, <1>6

LEMMA PlacesNext ==
  ASSUME Base', NEW p
  PROVE  /\ IsFiniteSet(Loose(p)') /\ Cardinality(Loose(p)') \in Nat /\ Open(p)' \in {0, 1}
         /\ IsFiniteSet(Sending(p)') /\ Cardinality(Sending(p)') \in Nat
<1>1. Loose(p)' \subseteq Active' /\ Sending(p)' \subseteq Active' /\ IsFiniteSet(Active')
  BY DEF Loose, Sending, Active, Base
<1>2. Open(p)' \in {0, 1}
  BY DEF Open
<1>. QED
  BY <1>1, <1>2, CardSubset

\* Nothing delivered, written or forgotten, at no cost: fewer places.
LEMMA FiresQuiet ==
  ASSUME Base, Base', NEW p \in Pairs, SameRecord(p), FiresAtMost(p),
         Sending(p)' \subseteq Sending(p) \/ note[p].notified = Never,
         Cardinality(Loose(p)') + Open(p)' <= Cardinality(Loose(p)) + Open(p), Free
  PROVE  FiresAtMost(p)'
<1>1. /\ Deliveries(p)' = Deliveries(p) /\ Cardinality(Deliveries(p)) \in Nat
      /\ rules' = rules /\ note'[p] = note[p]
  BY DeliveriesSame, DeliveryFacts DEF SameRecord
<1>2. /\ Cardinality(Loose(p)) \in Nat /\ Open(p) \in Nat /\ faults \in Nat
      /\ Cardinality(Sending(p)) \in Nat /\ IsFiniteSet(Sending(p))
  BY PlaceFacts
<1>3. /\ Cardinality(Loose(p)') \in Nat /\ Open(p)' \in Nat /\ Cardinality(Sending(p)') \in Nat
  BY PlacesNext
<1>4. Sending(p)' \subseteq Sending(p) =>
        Cardinality(Sending(p)') <= Cardinality(Sending(p))
  BY <1>2, CardSubset
<1>. QED
  BY <1>1, <1>2, <1>3, <1>4 DEF FiresAtMost, Free

\* A fault pays for one place more.
LEMMA FiresFault ==
  ASSUME Base, Base', NEW p \in Pairs, SameRecord(p), FiresAtMost(p), NEW s,
         Sending(p)' \subseteq Sending(p) \cup {s},
         Cardinality(Loose(p)') + Open(p)' <= Cardinality(Loose(p)) + Open(p) + 1, Costs
  PROVE  FiresAtMost(p)'
<1>1. /\ Deliveries(p)' = Deliveries(p) /\ Cardinality(Deliveries(p)) \in Nat
      /\ rules' = rules /\ note'[p] = note[p]
  BY DeliveriesSame, DeliveryFacts DEF SameRecord
<1>2. /\ Cardinality(Loose(p)) \in Nat /\ Open(p) \in Nat /\ faults \in Nat
      /\ Cardinality(Sending(p)) \in Nat /\ IsFiniteSet(Sending(p))
  BY PlaceFacts
<1>3. /\ Cardinality(Loose(p)') \in Nat /\ Open(p)' \in Nat /\ Cardinality(Sending(p)') \in Nat
  BY PlacesNext
<1>4. Cardinality(Sending(p)') <= Cardinality(Sending(p)) + 1
  BY <1>2, CardMore
<1>. QED
  BY <1>1, <1>2, <1>3, <1>4 DEF FiresAtMost, Costs

LEMMA FiresPosted ==
  ASSUME Base, Base', NEW p \in Pairs, NEW s \in Servers, NEW ok \in BOOLEAN,
         Posts(p, s, ok), FiresAtMost(p)
  PROVE  FiresAtMost(p)'
<1>1. /\ Pending(p)' = Pending(p) \cup (IF ok THEN {s} ELSE {}) /\ s \in Sending(p)
      /\ Sending(p)' = Sending(p) \ {s} /\ holder' = holder /\ Active' = Active
      /\ Free /\ rules' = rules /\ note'[p] = note[p]
  BY DEF Posts
<1>2. /\ IsFiniteSet(Loose(p)) /\ Cardinality(Loose(p)) \in Nat
      /\ IsFiniteSet(Sending(p)) /\ Cardinality(Sending(p)) \in Nat
      /\ Open(p) \in {0, 1} /\ faults \in Nat /\ s \in Active /\ s \notin Pending(p)
      /\ Cardinality(Deliveries(p)) \in Nat /\ IsFiniteSet(Deliveries(p))
  BY <1>1, PlaceFacts, DeliveryFacts
<1>3. /\ Cardinality(Loose(p)') \in Nat /\ Open(p)' \in {0, 1}
      /\ Cardinality(Sending(p)') \in Nat /\ Cardinality(Sending(p)') + 1 <= Cardinality(Sending(p))
  BY <1>1, <1>2, PlacesNext, CardLess
<1>4. CASE ok
  <2>1. /\ Cardinality(Deliveries(p)') <= Cardinality(Deliveries(p)) + 1
        /\ Cardinality(Deliveries(p)') \in Nat
    <3>1. Deliveries(p)' \subseteq Deliveries(p) \cup {Len(log[p]) + 1}
      BY <1>4, DeliveriesPosted
    <3>. QED
      BY <1>2, <3>1, CardMore
  <2>2. Pending(p)' = Pending(p) \cup {s}
    BY <1>1, <1>4
  <2>3. Cardinality(Loose(p)') + Open(p)' + 1 <= Cardinality(Loose(p)) + Open(p)
    <3>1. CASE s = holder
      <4>1. Open(p) = 1 /\ Open(p)' = 0
        BY <1>1, <1>2, <2>2, <3>1 DEF Open
      <4>2. Loose(p)' \subseteq Loose(p)
        BY <1>1, <2>2 DEF Loose
      <4>3. Cardinality(Loose(p)') <= Cardinality(Loose(p))
        BY <1>2, <4>2, CardSubset
      <4>. QED
        BY <1>2, <1>3, <4>1, <4>3
    <3>2. CASE s # holder
      <4>1. Open(p)' = Open(p)
        BY <1>1, <2>2, <3>2 DEF Open
      <4>2. s \in Loose(p) /\ Loose(p)' \subseteq Loose(p) \ {s}
        BY <1>1, <1>2, <2>2, <3>2 DEF Loose
      <4>3. Cardinality(Loose(p)') + 1 <= Cardinality(Loose(p))
        BY <1>2, <4>2, CardLess
      <4>. QED
        BY <1>2, <1>3, <4>1, <4>3
    <3>. QED
      BY <3>1, <3>2
  <2>. QED
    BY <1>1, <1>2, <1>3, <2>1, <2>3 DEF FiresAtMost, Free
<1>5. CASE ~ok
  <2>1. Deliveries(p)' = Deliveries(p)
    <3>1. Deliveries(p)' = Deliveries(p) \cup (IF ok THEN {Len(log[p]) + 1} ELSE {})
      BY DeliveriesPosted
    <3>. QED
      BY <1>5, <3>1
  <2>2. Pending(p)' = Pending(p)
    BY <1>1, <1>5
  <2>3. Loose(p)' = Loose(p) /\ Open(p)' = Open(p)
    BY <1>1, <2>2 DEF Loose, Open
  <2>. QED
    BY <1>1, <1>2, <1>3, <2>1, <2>3 DEF FiresAtMost, Free
<1>. QED
  BY <1>4, <1>5

LEMMA FiresWritten ==
  ASSUME Base, Base', NEW p \in Pairs, NEW s \in Servers, Writes(p, s), FiresAtMost(p)
  PROVE  FiresAtMost(p)'
<1>1. /\ log'[p] = log[p] /\ Deliveries(p)' = Deliveries(p) /\ rules' = rules /\ Free
      /\ holder' = holder /\ Active' = Active /\ Sending(p)' = Sending(p)
      /\ Pending(p)' = Pending(p) \ {s} /\ (ev[s].delivered <=> s \in Pending(p))
      /\ note'[p] = Attempted(note[p], ev[s].now, ev[s].delivered)
      /\ s \in Pending(p) \cup Failing(p)
  BY DeliveriesSame DEF Writes
<1>2. /\ IsFiniteSet(Loose(p)) /\ Cardinality(Loose(p)) \in Nat
      /\ IsFiniteSet(Sending(p)) /\ Cardinality(Sending(p)) \in Nat
      /\ Open(p) \in {0, 1} /\ faults \in Nat /\ Sending(p) \cap Pending(p) = {}
      /\ Cardinality(Deliveries(p)) \in Nat /\ Sending(p) \subseteq Active
  BY PlaceFacts, DeliveryFacts
<1>3. s \in Active /\ ev[s].now # Never
  BY <1>1, BoundAssumption DEF Base, Placed, Time, Never, Pending, Failing, Active
<1>4. CASE s \in Pending(p)
  <2>1. note'[p].notified # Never
    BY <1>1, <1>3, <1>4 DEF Attempted
  <2>2. Cardinality(Sending(p)) <= Cardinality(Loose(p)) + Open(p)
    <3>1. CASE holder \in Sending(p)
      <4>1. Open(p) = 1 /\ Sending(p) \subseteq Loose(p) \cup {holder}
        BY <1>2, <3>1 DEF Open, Loose
      <4>. QED
        BY <1>2, <4>1, CardMore
    <3>2. CASE holder \notin Sending(p)
      <4>1. Sending(p) \subseteq Loose(p)
        BY <1>2, <3>2 DEF Loose
      <4>2. Cardinality(Sending(p)) <= Cardinality(Loose(p))
        BY <1>2, <4>1, CardSubset
      <4>. QED
        BY <1>2, <4>2
    <3>. QED
      BY <3>1, <3>2
  <2>. QED
    BY <1>1, <1>2, <2>1, <2>2 DEF FiresAtMost, Free
<1>5. CASE s \notin Pending(p)
  <2>1. note'[p].notified = note[p].notified
    BY <1>1, <1>5 DEF Attempted
  <2>2. Pending(p)' = Pending(p)
    BY <1>1, <1>5
  <2>3. Loose(p)' = Loose(p) /\ Open(p)' = Open(p)
    BY <1>1, <2>2 DEF Loose, Open
  <2>. QED
    BY <1>1, <2>1, <2>3 DEF FiresAtMost, Free
<1>. QED
  BY <1>4, <1>5

LEMMA FiresStep ==
  ASSUME Base, Base', NEW p \in Pairs, Seen(p), FiresAtMost(p)
  PROVE  FiresAtMost(p)'
<1>0. /\ IsFiniteSet(Loose(p)) /\ Cardinality(Loose(p)) \in Nat
      /\ Open(p) \in {0, 1} /\ faults \in Nat /\ NoOne \notin Active
      /\ Pending(p) \subseteq Active /\ (holder = NoOne \/ holder \in Active)
      /\ Cardinality(Loose(p)') \in Nat /\ Open(p)' \in {0, 1}
      /\ Failing(p) \cap Pending(p) = {} /\ Sending(p) \cap Pending(p) = {}
  BY PlaceFacts, PlacesNext
<1>1. CASE Drifts(p)
  <2>1. Loose(p)' = Loose(p) /\ Open(p)' = Open(p) /\ Sending(p)' = Sending(p) /\ SameRecord(p)
    BY <1>1 DEF Drifts, SamePlaces, Loose, Open
  <2>2. Cardinality(Loose(p)') + Open(p)' <= Cardinality(Loose(p)) + Open(p)
    BY <1>0, <2>1
  <2>3. Sending(p)' \subseteq Sending(p) \cup {p}
    BY <2>1
  <2>4. Cardinality(Loose(p)') + Open(p)' <= Cardinality(Loose(p)) + Open(p) + 1
    BY <1>0, <2>2
  <2>. QED
    BY <1>1, <2>1, <2>2, <2>3, <2>4, FiresQuiet, FiresFault DEF Drifts
<1>2. ASSUME NEW s \in Servers, Joins(p, s) PROVE FiresAtMost(p)'
  <2>1. /\ SameRecord(p) /\ Free /\ Sending(p)' = Sending(p) /\ Pending(p)' = Pending(p)
        /\ holder = NoOne /\ holder' = s /\ s \notin Active /\ Active' = Active \cup {s}
    BY <1>2 DEF Joins, SamePlaces
  <2>2. Loose(p)' = Loose(p) /\ Open(p)' = Open(p)
    BY <1>0, <2>1 DEF Loose, Open
  <2>3. Cardinality(Loose(p)') + Open(p)' <= Cardinality(Loose(p)) + Open(p)
    BY <1>0, <2>2
  <2>. QED
    BY <2>1, <2>3, FiresQuiet
<1>3. ASSUME NEW s \in Servers, Starts(p, s) PROVE FiresAtMost(p)'
  <2>1. /\ SameRecord(p) /\ Sending(p)' = Sending(p) \cup {s} /\ Pending(p)' = Pending(p)
        /\ holder' = holder /\ Active' = Active
    BY <1>3 DEF Starts
  <2>2. Loose(p)' = Loose(p) /\ Open(p)' = Open(p)
    BY <2>1 DEF Loose, Open
  <2>3. /\ Cardinality(Loose(p)') + Open(p)' <= Cardinality(Loose(p)) + Open(p)
        /\ Cardinality(Loose(p)') + Open(p)' <= Cardinality(Loose(p)) + Open(p) + 1
    BY <1>0, <2>2
  <2>4. CASE Costs
    BY <2>1, <2>3, <2>4, FiresFault
  <2>5. CASE Free /\ note[p].notified = Never
    BY <2>1, <2>3, <2>5, FiresQuiet
  <2>6. CASE rules[p[1]].condition # "new_issue"
    BY <2>1, <2>6 DEF SameRecord, FiresAtMost
  <2>. QED
    BY <1>3, <2>4, <2>5, <2>6 DEF Starts, InCooldown
<1>4. ASSUME NEW s \in Servers, Forgets(p, s) PROVE FiresAtMost(p)'
  <2>1. /\ SameRecord(p) /\ Costs /\ Sending(p)' = Sending(p) /\ holder' = holder
        /\ Active' = Active /\ Pending(p)' = Pending(p) \ {s}
    BY <1>4 DEF Forgets
  <2>2. Cardinality(Loose(p)') + Open(p)' <= Cardinality(Loose(p)) + Open(p) + 1
    <3>1. CASE s = holder
      <4>1. Loose(p)' = Loose(p)
        BY <2>1, <3>1 DEF Loose
      <4>. QED
        BY <1>0, <4>1
    <3>2. CASE s # holder
      <4>1. Open(p)' = Open(p)
        BY <2>1, <3>2 DEF Open
      <4>2. Loose(p)' \subseteq Loose(p) \cup {s}
        BY <2>1 DEF Loose
      <4>3. Cardinality(Loose(p)') <= Cardinality(Loose(p)) + 1
        BY <1>0, <4>2, CardMore
      <4>. QED
        BY <1>0, <4>1, <4>3
    <3>. QED
      BY <3>1, <3>2
  <2>3. Sending(p)' \subseteq Sending(p) \cup {s}
    BY <2>1
  <2>. QED
    BY <2>1, <2>2, <2>3, FiresFault
<1>5. ASSUME NEW s \in Servers, Leaves(p, s) PROVE FiresAtMost(p)'
  <2>1. /\ SameRecord(p) /\ Sending(p)' = Sending(p) \ {s} /\ Pending(p)' = Pending(p) \ {s}
        /\ holder' = Released(s) /\ Active' = Active \ {s}
        /\ Costs \/ (Free /\ s \notin Pending(p))
    BY <1>5 DEF Leaves
  <2>2. Loose(p)' \subseteq Loose(p)
    BY <1>0, <2>1 DEF Loose, Released
  <2>3. Cardinality(Loose(p)') <= Cardinality(Loose(p))
    BY <1>0, <2>2, CardSubset
  <2>4. s \notin Pending(p) => Open(p)' = Open(p)
    BY <1>0, <2>1 DEF Open, Released
  <2>5. /\ s \notin Pending(p) =>
             Cardinality(Loose(p)') + Open(p)' <= Cardinality(Loose(p)) + Open(p)
        /\ Cardinality(Loose(p)') + Open(p)' <= Cardinality(Loose(p)) + Open(p) + 1
    BY <1>0, <2>3, <2>4
  <2>6. Sending(p)' \subseteq Sending(p) /\ Sending(p)' \subseteq Sending(p) \cup {s}
    BY <2>1
  <2>7. CASE Costs
    BY <2>1, <2>5, <2>6, <2>7, FiresFault
  <2>8. CASE Free /\ s \notin Pending(p)
    BY <2>1, <2>5, <2>6, <2>8, FiresQuiet
  <2>. QED
    BY <2>1, <2>7, <2>8
<1>6. ASSUME NEW s \in Servers, Unlocks(p, s) PROVE FiresAtMost(p)'
  <2>1. /\ SameRecord(p) /\ Costs /\ Sending(p)' = Sending(p) /\ Pending(p)' = Pending(p)
        /\ holder = s /\ holder' = NoOne /\ Active' = Active
    BY <1>6 DEF Unlocks, SamePlaces
  <2>2. CASE s \in Pending(p)
    <3>1. Loose(p)' \subseteq Loose(p)
      BY <2>1, <2>2 DEF Loose
    <3>2. Cardinality(Loose(p)') <= Cardinality(Loose(p))
      BY <1>0, <3>1, CardSubset
    <3>3. Cardinality(Loose(p)') + Open(p)' <= Cardinality(Loose(p)) + Open(p) + 1
      BY <1>0, <3>2
    <3>. QED
      BY <2>1, <3>3, FiresFault
  <2>3. CASE s \notin Pending(p)
    <3>1. Loose(p)' \subseteq Loose(p) \cup {s} /\ Open(p)' = Open(p)
      BY <1>0, <2>1, <2>3 DEF Loose, Open
    <3>2. Cardinality(Loose(p)') <= Cardinality(Loose(p)) + 1
      BY <1>0, <3>1, CardMore
    <3>3. Cardinality(Loose(p)') + Open(p)' <= Cardinality(Loose(p)) + Open(p) + 1
      BY <1>0, <3>1, <3>2
    <3>. QED
      BY <2>1, <3>3, FiresFault
  <2>. QED
    BY <2>2, <2>3
<1>. QED
  BY <1>1, <1>2, <1>3, <1>4, <1>5, <1>6, FiresPosted, FiresWritten DEF Seen

-----------------------------------------------------------------------------
(* CooldownPerFault.                                                       *)

\* Evaluations without the lock that may still deliver, and those that may
\* still put last_notified_at back.
Stray(p)  == (Active \ {holder}) \cap (Ahead(p) \cup Sending(p))
Astray(p) == (Active \ {holder}) \cap (Ahead(p) \cup Sending(p) \cup Pending(p))

\* The table does not know of the youngest delivery and will not be told by the holder.
Outdated(p) ==
  holder \notin Pending(p) /\ \E k \in Deliveries(p) : log[p][k].now > note[p].notified

Within(p, s) == \E k \in Deliveries(p) : ev[s].now < log[p][k].now + rules[p[1]].cooldown
Newest(p, s) == \A k \in Deliveries(p) : log[p][k].now < ev[s].now
Hasty(p)     == \E s \in Sending(p) : Within(p, s) /\ (s = holder \/ Newest(p, s))

Misled(p) == IF Outdated(p) \/ Hasty(p) THEN 1 ELSE 0

\* A stray evaluation costs the delivery it makes, and one more for its record.
CoolsAtMost(p) ==
  Cardinality(Repeated(p)) + Cardinality(Stray(p)) + Cardinality(Astray(p)) + Misled(p)
    <= 2 * faults

-----------------------------------------------------------------------------
(* SpacedWithoutFault.                                                     *)

\* The row of p speaks of the first n rounds: the failures since the last
\* delivery, the time of that delivery, and that of the n-th round.
Reflects(p, n) ==
  LET m == n - note[p].failures IN
  /\ m \in {0} \cup {d \in Deliveries(p) : d <= n}
  /\ \A d \in Deliveries(p) : d <= n => d <= m
  /\ n > 0 => note[p].attempted = log[p][n].now
  /\ m > 0 => note[p].notified = log[p][m].now

\* Without a fault only the holder of the lock evaluates, and the row lags
\* behind the log by the round it is about to record.
SpacedSoFar(p) ==
  faults = 0 =>
    /\ Active \subseteq {holder}
    /\ \A s \in Sending(p) : ~InCooldown(rules[p[1]], note[p], ev[s].now)
    /\ Pending(p) \cup Failing(p) = {} => Reflects(p, Len(log[p]))
    /\ \A s \in Pending(p) \cup Failing(p) :
         /\ Len(log[p]) > 0 /\ Reflects(p, Len(log[p]) - 1)
         /\ log[p][Len(log[p])].now = ev[s].now
         /\ log[p][Len(log[p])].delivered <=> s \in Pending(p)
    /\ \A k \in 2 .. Len(log[p]) : ~TooEarly(p, k)

Inv == Base /\ \A p \in Pairs : /\ RecordsTrue(p) /\ FiresAtMost(p)
                                /\ CoolsAtMost(p) /\ SpacedSoFar(p)

-----------------------------------------------------------------------------
(* CooldownPerFault, step by step.                                         *)

LEMMA CoolFacts ==
  ASSUME Base, NEW p \in Pairs
  PROVE  /\ IsFiniteSet(Repeated(p)) /\ Cardinality(Repeated(p)) \in Nat
         /\ IsFiniteSet(Stray(p)) /\ Cardinality(Stray(p)) \in Nat
         /\ IsFiniteSet(Astray(p)) /\ Cardinality(Astray(p)) \in Nat
         /\ Misled(p) \in {0, 1} /\ faults \in Nat /\ rules[p[1]].cooldown \in Nat
<1>1. IsFiniteSet(Repeated(p)) /\ Cardinality(Repeated(p)) \in Nat
  <2>1. Repeated(p) \subseteq Deliveries(p)
    BY DEF Repeated
  <2>. QED
    BY <2>1, DeliveryFacts, CardSubset
<1>2. /\ IsFiniteSet(Stray(p)) /\ Cardinality(Stray(p)) \in Nat
      /\ IsFiniteSet(Astray(p)) /\ Cardinality(Astray(p)) \in Nat
  <2>1. Stray(p) \subseteq Active /\ Astray(p) \subseteq Active
    BY DEF Stray, Astray
  <2>. QED
    BY <2>1, CardSubset DEF Base
<1>3. rules[p[1]].cooldown \in Nat
  <2>1. rules \in Seq(RuleSpec) /\ p[1] \in 1 .. Len(rules)
    BY RuleAssumption DEF Base, TypeOK, Pairs, Rules
  <2>2. rules[p[1]] \in RuleSpec
    BY <2>1
  <2>. QED
    BY <2>2 DEF RuleSpec
<1>4. Misled(p) \in {0, 1} /\ faults \in Nat
  BY NowTypes DEF Misled, Base
<1>. QED
  BY <1>1, <1>2, <1>3, <1>4

LEMMA CoolNext ==
  ASSUME Base', NEW p
  PROVE  /\ IsFiniteSet(Stray(p)') /\ Cardinality(Stray(p)') \in Nat
         /\ IsFiniteSet(Astray(p)') /\ Cardinality(Astray(p)') \in Nat
         /\ Misled(p)' \in {0, 1}
<1>1. Stray(p)' \subseteq Active' /\ Astray(p)' \subseteq Active' /\ IsFiniteSet(Active')
  BY DEF Stray, Astray, Base
<1>2. Misled(p)' \in {0, 1}
  BY DEF Misled
<1>. QED
  BY <1>1, <1>2, CardSubset

\* While the log stays, two of the four terms grow by a fault at most.
LEMMA CoolsPaid ==
  ASSUME Base, Base', NEW p \in Pairs, CoolsAtMost(p), rules' = rules, log'[p] = log[p],
         NEW paid \in {0, 1}, faults' = faults + paid,
         Cardinality(Stray(p)') + Cardinality(Astray(p)') + Misled(p)'
           <= Cardinality(Stray(p)) + Cardinality(Astray(p)) + Misled(p) + 2 * paid
  PROVE  CoolsAtMost(p)'
<1>1. Repeated(p)' = Repeated(p)
  BY DEF Repeated, Deliveries
<1>2. /\ Cardinality(Repeated(p)) \in Nat /\ Cardinality(Stray(p)) \in Nat
      /\ Cardinality(Astray(p)) \in Nat /\ Misled(p) \in Nat /\ faults \in Nat
      /\ Cardinality(Stray(p)') \in Nat /\ Cardinality(Astray(p)') \in Nat
      /\ Misled(p)' \in Nat
  BY CoolFacts, CoolNext
<1>. QED
  BY <1>1, <1>2 DEF CoolsAtMost

\* Most steps set no evaluation astray, and mislead by a fault only.
LEMMA CoolsShrink ==
  ASSUME Base, Base', NEW p \in Pairs, CoolsAtMost(p), rules' = rules, log'[p] = log[p],
         NEW paid \in {0, 1}, faults' = faults + paid,
         Stray(p)' \subseteq Stray(p), Astray(p)' \subseteq Astray(p),
         (Outdated(p) \/ Hasty(p))' => Outdated(p) \/ Hasty(p) \/ paid = 1
  PROVE  CoolsAtMost(p)'
<1>1. /\ IsFiniteSet(Stray(p)) /\ Cardinality(Stray(p)) \in Nat /\ IsFiniteSet(Astray(p))
      /\ Cardinality(Astray(p)) \in Nat /\ Misled(p) \in Nat
  BY CoolFacts
<1>2. /\ Cardinality(Stray(p)') \in Nat /\ Cardinality(Astray(p)') \in Nat /\ Misled(p)' \in Nat
  BY CoolNext
<1>3. /\ Cardinality(Stray(p)') <= Cardinality(Stray(p))
      /\ Cardinality(Astray(p)') <= Cardinality(Astray(p))
  BY <1>1, CardSubset
<1>4. Misled(p)' <= Misled(p) + paid
  BY DEF Misled
<1>. QED
  BY <1>1, <1>2, <1>3, <1>4, CoolsPaid

LEMMA HastyKept ==
  ASSUME NEW p, rules' = rules, log'[p] = log[p], Sending(p)' \subseteq Sending(p),
         \A s \in Sending(p) : ev'[s].now = ev[s].now,
         \A s \in Sending(p)' : s = holder' => s = holder,
         Hasty(p)'
  PROVE  Hasty(p)
<1>1. Deliveries(p)' = Deliveries(p)
  BY DeliveriesSame
<1>2. PICK s \in Sending(p)' : Within(p, s)' /\ (s = holder' \/ Newest(p, s)')
  BY DEF Hasty
<1>3. s \in Sending(p) /\ ev'[s].now = ev[s].now
  BY <1>2
<1>4. Within(p, s)
  BY <1>1, <1>2, <1>3 DEF Within
<1>5. s = holder \/ Newest(p, s)
  BY <1>1, <1>2, <1>3 DEF Newest
<1>. QED
  BY <1>3, <1>4, <1>5 DEF Hasty

LEMMA OutdatedKept ==
  ASSUME NEW p, log'[p] = log[p], note'[p].notified = note[p].notified,
         holder \in Pending(p) => holder' \in Pending(p)', Outdated(p)'
  PROVE  Outdated(p)
<1>1. Deliveries(p)' = Deliveries(p)
  BY DeliveriesSame
<1>. QED
  BY <1>1 DEF Outdated

LEMMA CoolsDrift ==
  ASSUME Base, Base', NEW p \in Pairs, Drifts(p), CoolsAtMost(p)
  PROVE  CoolsAtMost(p)'
<1>1. /\ rules' = rules /\ log'[p] = log[p] /\ note'[p] = note[p] /\ holder' = holder
      /\ Sending(p)' = Sending(p) /\ Pending(p)' = Pending(p) /\ Active' = Active
      /\ Ahead(p)' \subseteq Ahead(p) /\ (Free \/ Costs)
      /\ \A t \in Servers : ev'[t].now = ev[t].now
  BY DEF Drifts, SameRecord, SamePlaces, SameNows
<1>2. \A t \in Sending(p) : t \in Servers
  BY DEF Sending
<1>3. /\ Hasty(p)' => Hasty(p)
      /\ Outdated(p)' => Outdated(p)
  BY <1>1, <1>2, HastyKept, OutdatedKept
<1>4. Stray(p)' \subseteq Stray(p) /\ Astray(p)' \subseteq Astray(p)
  BY <1>1 DEF Stray, Astray
<1>5. PICK paid \in {0, 1} : faults' = faults + paid
  BY <1>1, NowTypes DEF Free, Costs, Base
<1>. QED
  BY <1>1, <1>3, <1>4, <1>5, CoolsShrink

LEMMA CoolsJoin ==
  ASSUME Base, Base', NEW p \in Pairs, NEW s \in Servers, Joins(p, s), CoolsAtMost(p)
  PROVE  CoolsAtMost(p)'
<1>1. /\ rules' = rules /\ log'[p] = log[p] /\ note'[p] = note[p]
      /\ holder = NoOne /\ holder' = s /\ s \notin Active
      /\ Sending(p)' = Sending(p) /\ Pending(p)' = Pending(p)
      /\ Active' = Active \cup {s} /\ Ahead(p)' = Ahead(p) \cup {s}
      /\ \A t \in Servers \ {s} : ev'[t].now = ev[t].now
      /\ faults' = faults + 0
  BY NowTypes DEF Joins, SameRecord, SamePlaces, Free, Base
<1>2. \A t \in Sending(p) : t \in Servers \ {s}
  BY <1>1 DEF Sending, Active
<1>3. holder \notin Pending(p)
  BY <1>1, PlaceFacts
<1>4. /\ Hasty(p)' => Hasty(p)
      /\ Outdated(p)' => Outdated(p)
  BY <1>1, <1>2, <1>3, HastyKept, OutdatedKept
<1>5. Stray(p)' \subseteq Stray(p) /\ Astray(p)' \subseteq Astray(p)
  BY <1>1, PlaceFacts DEF Stray, Astray
<1>. QED
  BY <1>1, <1>4, <1>5, CoolsShrink

\* Who passes the cooldown check without a fault and is too early all the same
\* was told of an older delivery than there was: the row was outdated before.
LEMMA CoolsStart ==
  ASSUME Base, Base', NEW p \in Pairs, NEW s \in Servers, Starts(p, s),
         RecordsTrue(p), CoolsAtMost(p)
  PROVE  CoolsAtMost(p)'
<1>1. /\ rules' = rules /\ log'[p] = log[p] /\ note'[p] = note[p] /\ holder' = holder
      /\ s \in Ahead(p) /\ Ahead(p)' = Ahead(p) \ {s} /\ Sending(p)' = Sending(p) \cup {s}
      /\ Pending(p)' = Pending(p) /\ Active' = Active
      /\ \A t \in Servers : ev'[t].now = ev[t].now
  BY DEF Starts, SameRecord, SameNows
<1>2. Deliveries(p)' = Deliveries(p)
  BY <1>1, DeliveriesSame
<1>3. Outdated(p)' => Outdated(p)
  BY <1>1, OutdatedKept
<1>4. Stray(p)' \subseteq Stray(p) /\ Astray(p)' \subseteq Astray(p)
  BY <1>1 DEF Stray, Astray
<1>5. CASE Costs
  BY <1>1, <1>4, <1>5, CoolsShrink DEF Costs
<1>6. CASE Free /\ ~InCooldown(rules[p[1]], note[p], ev[s].now)
  <2> DEFINE cooldown == rules[p[1]].cooldown
  <2>1. /\ ev[s].now \in Int /\ note[p].notified \in Int /\ cooldown \in Nat
        /\ \A k \in Deliveries(p) : log[p][k].now \in Nat
    BY NowTypes, CoolFacts, DeliveryFacts DEF Base
  <2>2. note[p].notified = Never \/ ev[s].now >= note[p].notified + cooldown
    BY <1>6, <2>1 DEF InCooldown
  <2>3. ASSUME Within(p, s), s = holder \/ Newest(p, s)
        PROVE  Outdated(p)
    <3>1. PICK k \in Deliveries(p) : ev[s].now < log[p][k].now + cooldown
      BY <2>3 DEF Within
    <3>2. log[p][k].now > note[p].notified
      BY <2>1, <2>2, <3>1 DEF Never
    <3>3. holder \notin Pending(p)
      <4>1. CASE s = holder
        BY <1>1, <4>1, PlaceFacts
      <4>2. ASSUME Newest(p, s), holder \in Pending(p) PROVE FALSE
        <5>1. PICK l \in Deliveries(p) : log[p][l].now = ev[holder].now
          BY <4>2 DEF RecordsTrue
        <5>2. s \in Active /\ holder # NoOne
          BY <1>1, <4>2, PlaceFacts
        <5>3. ev[s].now <= ev[holder].now
          BY <5>2 DEF Base, Latest
        <5>. QED
          BY <2>1, <4>2, <5>1, <5>3 DEF Newest
      <4>. QED
        BY <2>3, <4>1, <4>2
    <3>. QED
      BY <3>2, <3>3 DEF Outdated
  <2>4. ASSUME Hasty(p)' PROVE Hasty(p) \/ Outdated(p)
    <3>1. PICK t \in Sending(p)' : Within(p, t)' /\ (t = holder' \/ Newest(p, t)')
      BY <2>4 DEF Hasty
    <3>2. t \in Servers /\ ev'[t].now = ev[t].now
      BY <1>1, <3>1 DEF Sending
    <3>3. Within(p, t) /\ (t = holder \/ Newest(p, t))
      BY <1>1, <1>2, <3>1, <3>2 DEF Within, Newest
    <3>4. t \in Sending(p) \/ t = s
      BY <1>1, <3>1
    <3>. QED
      BY <2>3, <3>3, <3>4 DEF Hasty
  <2>5. faults' = faults + 0
    BY <1>6, NowTypes DEF Free, Base
  <2>. QED
    BY <1>1, <1>3, <1>4, <2>4, <2>5, CoolsShrink
<1>. QED
  BY <1>5, <1>6 DEF Starts

LEMMA CoolsForget ==
  ASSUME Base, Base', NEW p \in Pairs, NEW s \in Servers, Forgets(p, s), CoolsAtMost(p)
  PROVE  CoolsAtMost(p)'
<1>1. Stray(p)' \subseteq Stray(p) /\ Astray(p)' \subseteq Astray(p)
  BY DEF Forgets, Stray, Astray
<1>. QED
  BY <1>1, CoolsShrink DEF Forgets, SameRecord, Costs

LEMMA CoolsLeave ==
  ASSUME Base, Base', NEW p \in Pairs, NEW s \in Servers, Leaves(p, s), CoolsAtMost(p)
  PROVE  CoolsAtMost(p)'
<1>1. /\ rules' = rules /\ log'[p] = log[p] /\ note'[p] = note[p] /\ holder' = Released(s)
      /\ Active' = Active \ {s} /\ Ahead(p)' = Ahead(p) \ {s}
      /\ Sending(p)' = Sending(p) \ {s} /\ Pending(p)' = Pending(p) \ {s}
      /\ \A t \in Servers : ev'[t].now = ev[t].now
      /\ Costs \/ (Free /\ s \notin Pending(p))
  BY DEF Leaves, SameRecord, SameNows
<1>2. Stray(p)' \subseteq Stray(p) /\ Astray(p)' \subseteq Astray(p)
  BY <1>1, PlaceFacts DEF Stray, Astray, Released
<1>3. CASE Costs
  BY <1>1, <1>2, <1>3, CoolsShrink DEF Costs
<1>4. CASE Free /\ s \notin Pending(p)
  <2>1. holder \in Pending(p) => holder' \in Pending(p)'
    BY <1>1, <1>4 DEF Released
  <2>2. \A t \in Sending(p) : t \in Servers /\ t # NoOne
    BY NoOneAssumption DEF Sending
  <2>3. \A t \in Sending(p)' : t = holder' => t = holder
    BY <1>1, <2>2 DEF Released
  <2>4. /\ Hasty(p)' => Hasty(p)
        /\ Outdated(p)' => Outdated(p)
    BY <1>1, <2>1, <2>2, <2>3, HastyKept, OutdatedKept
  <2>5. faults' = faults + 0
    BY <1>4, NowTypes DEF Free, Base
  <2>. QED
    BY <1>1, <1>2, <2>4, <2>5, CoolsShrink
<1>. QED
  BY <1>1, <1>3, <1>4

\* A lost session pays for two: the delivery and the record of its evaluation.
LEMMA CoolsUnlock ==
  ASSUME Base, Base', NEW p \in Pairs, NEW s \in Servers, Unlocks(p, s), CoolsAtMost(p)
  PROVE  CoolsAtMost(p)'
<1>1. /\ rules' = rules /\ log'[p] = log[p] /\ note'[p] = note[p]
      /\ holder = s /\ holder' = NoOne /\ Active' = Active /\ Ahead(p)' = Ahead(p)
      /\ Sending(p)' = Sending(p) /\ Pending(p)' = Pending(p)
      /\ \A t \in Servers : ev'[t].now = ev[t].now
      /\ faults' = faults + 1
  BY DEF Unlocks, SameRecord, SamePlaces, SameNows, Costs
<1>2. /\ Stray(p)' \subseteq Stray(p) \cup {s} /\ Astray(p)' \subseteq Astray(p) \cup {s}
  BY <1>1 DEF Stray, Astray
<1>3. /\ IsFiniteSet(Stray(p)) /\ Cardinality(Stray(p)) \in Nat
      /\ IsFiniteSet(Astray(p)) /\ Cardinality(Astray(p)) \in Nat /\ Misled(p) \in {0, 1}
      /\ Cardinality(Stray(p)') \in Nat /\ Cardinality(Astray(p)') \in Nat
      /\ Misled(p)' \in {0, 1}
  BY CoolFacts, CoolNext
<1>4. /\ Cardinality(Stray(p)') <= Cardinality(Stray(p)) + 1
      /\ Cardinality(Astray(p)') <= Cardinality(Astray(p)) + 1
  BY <1>2, <1>3, CardMore
<1>5. CASE s \in Pending(p)
  <2>1. Stray(p)' \subseteq Stray(p)
    BY <1>1, <1>5, PlaceFacts DEF Stray
  <2>2. Cardinality(Stray(p)') <= Cardinality(Stray(p))
    BY <1>3, <2>1, CardSubset
  <2>3. Cardinality(Stray(p)') + Cardinality(Astray(p)') + Misled(p)'
          <= Cardinality(Stray(p)) + Cardinality(Astray(p)) + Misled(p) + 2 * 1
    BY <1>3, <1>4, <2>2
  <2>. QED
    BY <1>1, <2>3, CoolsPaid
<1>6. CASE s \notin Pending(p)
  <2>1. \A t \in Sending(p) : t \in Servers /\ t # NoOne
    BY NoOneAssumption DEF Sending
  <2>2. /\ Hasty(p)' => Hasty(p)
        /\ Outdated(p)' => Outdated(p)
    BY <1>1, <1>6, <2>1, HastyKept, OutdatedKept
  <2>3. Misled(p)' <= Misled(p)
    BY <2>2 DEF Misled
  <2>4. Cardinality(Stray(p)') + Cardinality(Astray(p)') + Misled(p)'
          <= Cardinality(Stray(p)) + Cardinality(Astray(p)) + Misled(p) + 2 * 1
    BY <1>3, <1>4, <2>3
  <2>. QED
    BY <1>1, <2>4, CoolsPaid
<1>. QED
  BY <1>5, <1>6

LEMMA CoolsWritten ==
  ASSUME Base, Base', NEW p \in Pairs, NEW s \in Servers, Writes(p, s), CoolsAtMost(p)
  PROVE  CoolsAtMost(p)'
<1>1. /\ rules' = rules /\ log'[p] = log[p] /\ holder' = holder /\ Active' = Active
      /\ Ahead(p)' = Ahead(p) /\ Sending(p)' = Sending(p)
      /\ Pending(p)' = Pending(p) \ {s} /\ (ev[s].delivered <=> s \in Pending(p))
      /\ note'[p] = Attempted(note[p], ev[s].now, ev[s].delivered)
      /\ \A t \in Servers : ev'[t].now = ev[t].now
      /\ s \in Pending(p) \cup Failing(p) /\ faults' = faults + 0
  BY NowTypes DEF Writes, SameNows, Free, Base
<1>2. Stray(p)' \subseteq Stray(p) /\ Astray(p)' \subseteq Astray(p)
  BY <1>1 DEF Stray, Astray
<1>3. \A t \in Sending(p) : t \in Servers
  BY DEF Sending
<1>4. Hasty(p)' => Hasty(p)
  BY <1>1, <1>3, HastyKept
<1>5. CASE s \notin Pending(p)
  <2>1. note'[p].notified = note[p].notified
    BY <1>1, <1>5 DEF Attempted
  <2>2. Outdated(p)' => Outdated(p)
    BY <1>1, <1>5, <2>1, OutdatedKept
  <2>. QED
    BY <1>1, <1>2, <1>4, <2>2, CoolsShrink
<1>6. CASE s \in Pending(p) /\ s = holder
  <2>1. note'[p].notified = ev[s].now
    BY <1>1, <1>6 DEF Attempted
  <2>2. \A k \in Deliveries(p) : log[p][k].now <= ev[s].now /\ log[p][k].now \in Int
    <3>1. holder # NoOne
      BY <1>6, NoOneAssumption
    <3>2. \A k \in 1 .. Len(log[p]) : log[p][k].now <= ev[s].now
      BY <1>6, <3>1 DEF Base, Latest
    <3>. QED
      BY <3>2, DeliveryFacts
  <2>3. Deliveries(p)' = Deliveries(p) /\ ev[s].now \in Int
    BY <1>1, DeliveriesSame, NowTypes DEF Base
  <2>4. ~Outdated(p)'
    BY <1>1, <2>1, <2>2, <2>3 DEF Outdated
  <2>. QED
    BY <1>1, <1>2, <1>4, <2>4, CoolsShrink
<1>7. CASE s \in Pending(p) /\ s # holder
  <2>1. /\ IsFiniteSet(Stray(p)) /\ Cardinality(Stray(p)) \in Nat
        /\ IsFiniteSet(Astray(p)) /\ Cardinality(Astray(p)) \in Nat /\ Misled(p) \in {0, 1}
        /\ Cardinality(Stray(p)') \in Nat /\ Cardinality(Astray(p)') \in Nat
        /\ Misled(p)' \in {0, 1}
    BY CoolFacts, CoolNext
  <2>2. s \in Astray(p) /\ Astray(p)' \subseteq Astray(p) \ {s}
    BY <1>1, <1>7, PlaceFacts DEF Astray
  <2>3. Cardinality(Astray(p)') + 1 <= Cardinality(Astray(p))
    BY <2>1, <2>2, CardLess
  <2>4. Cardinality(Stray(p)') <= Cardinality(Stray(p))
    BY <1>2, <2>1, CardSubset
  <2>5. Cardinality(Stray(p)') + Cardinality(Astray(p)') + Misled(p)'
          <= Cardinality(Stray(p)) + Cardinality(Astray(p)) + Misled(p) + 2 * 0
    BY <2>1, <2>3, <2>4
  <2>. QED
    BY <1>1, <2>5, CoolsPaid
<1>. QED
  BY <1>5, <1>6, <1>7

\* What a round does to the deliveries and to who is early.
LEMMA RepeatedPosted ==
  ASSUME Base, NEW p \in Pairs, NEW s \in Servers, NEW ok \in BOOLEAN, Posts(p, s, ok)
  PROVE  /\ Repeated(p)' \subseteq Repeated(p) \cup {Len(log[p]) + 1}
         /\ ~Within(p, s) \/ ~ok => Repeated(p)' \subseteq Repeated(p)
<1> DEFINE n == Len(log[p])
           cooldown == rules[p[1]].cooldown
<1>1. /\ n \in Nat /\ log'[p][n + 1].now = ev[s].now
      /\ n + 1 \notin Deliveries(p) /\ ev[s].now \in Nat
      /\ Deliveries(p) \subseteq 1 .. n
  BY DeliveriesPosted, DeliveryFacts
<1>2. /\ \A k \in Deliveries(p) : log'[p][k] = log[p][k] /\ log[p][k].now \in Nat /\ k \in Nat
      /\ Deliveries(p)' = Deliveries(p) \cup (IF ok THEN {n + 1} ELSE {})
  BY DeliveriesPosted, DeliveryFacts
<1>3. rules' = rules /\ cooldown \in Nat
  BY CoolFacts DEF Posts
<1>4. ASSUME NEW k \in Repeated(p)', k # n + 1 PROVE k \in Repeated(p)
  <2>1. PICK l \in Deliveries(p)' : l < k /\ log'[p][k].now - log'[p][l].now < rules'[p[1]].cooldown
    BY <1>4 DEF Repeated
  <2>2. k \in Deliveries(p)' /\ k \in Deliveries(p)
    BY <1>2, <1>4 DEF Repeated
  <2>3. l # n + 1
    <3> SUFFICES ASSUME l = n + 1 PROVE FALSE
      OBVIOUS
    <3>1. k <= n /\ k \in Nat
      BY <1>1, <2>2
    <3>. QED
      BY <1>1, <2>1, <3>1
  <2>4. l \in Deliveries(p)
    BY <1>2, <2>3
  <2>. QED
    BY <1>2, <1>3, <2>1, <2>2, <2>4 DEF Repeated
<1>5. ASSUME n + 1 \in Repeated(p)' PROVE Within(p, s) /\ ok
  <2>1. n + 1 \in Deliveries(p)'
    BY <1>5 DEF Repeated
  <2>2. ok
    BY <1>1, <1>2, <2>1
  <2>3. PICK l \in Deliveries(p)' : /\ l < n + 1
                                    /\ log'[p][n + 1].now - log'[p][l].now < cooldown
    BY <1>3, <1>5 DEF Repeated
  <2>4. l \in Deliveries(p)
    BY <1>1, <1>2, <2>3
  <2>5. ev[s].now - log[p][l].now < cooldown
    <3>1. log'[p][l] = log[p][l] /\ log'[p][n + 1].now = ev[s].now
      BY <1>1, <1>2, <2>4
    <3>. QED
      BY <2>3, <3>1
  <2>6. ev[s].now < log[p][l].now + cooldown
    BY <1>1, <1>2, <1>3, <2>4, <2>5
  <2>. QED
    BY <2>2, <2>4, <2>6 DEF Within
<1> HIDE DEF n
<1>6. Repeated(p)' \subseteq Repeated(p) \cup {n + 1}
  BY <1>4
<1>7. ~Within(p, s) \/ ~ok => Repeated(p)' \subseteq Repeated(p)
  BY <1>4, <1>5
<1>. QED
  BY <1>6, <1>7 DEF n

\* The holder's delivery is the youngest; a stray one is covered by the stray
\* itself, unless it comes too early, and then the row had misled it.
LEMMA CoolsPosted ==
  ASSUME Base, Base', NEW p \in Pairs, NEW s \in Servers, NEW ok \in BOOLEAN,
         Posts(p, s, ok), CoolsAtMost(p)
  PROVE  CoolsAtMost(p)'
<1> DEFINE n == Len(log[p])
           cooldown == rules[p[1]].cooldown
<1>1. /\ rules' = rules /\ note'[p] = note[p] /\ faults' = faults /\ holder' = holder
      /\ s \in Sending(p) /\ Sending(p)' = Sending(p) \ {s} /\ Ahead(p)' = Ahead(p)
      /\ Active' = Active /\ Pending(p)' = Pending(p) \cup (IF ok THEN {s} ELSE {})
      /\ \A t \in Servers : ev'[t].now = ev[t].now
  BY DEF Posts, SameNows, Free
<1>2. /\ \A k \in Deliveries(p) : log'[p][k] = log[p][k] /\ log[p][k].now \in Nat
      /\ Deliveries(p)' = Deliveries(p) \cup (IF ok THEN {n + 1} ELSE {})
  BY DeliveriesPosted, DeliveryFacts
<1>3. log'[p][n + 1].now = ev[s].now /\ ev[s].now \in Nat /\ s \in Active
  BY DeliveriesPosted
<1>4. /\ IsFiniteSet(Repeated(p)) /\ Cardinality(Repeated(p)) \in Nat
      /\ IsFiniteSet(Stray(p)) /\ Cardinality(Stray(p)) \in Nat
      /\ IsFiniteSet(Astray(p)) /\ Cardinality(Astray(p)) \in Nat
      /\ Misled(p) \in {0, 1} /\ faults \in Nat /\ cooldown \in Nat
      /\ Cardinality(Stray(p)') \in Nat /\ Cardinality(Astray(p)') \in Nat
      /\ Misled(p)' \in {0, 1}
  BY CoolFacts, CoolNext
<1>5. /\ Cardinality(Repeated(p)') \in Nat
      /\ Cardinality(Repeated(p)') <= Cardinality(Repeated(p)) + 1
      /\ ~Within(p, s) \/ ~ok => Cardinality(Repeated(p)') <= Cardinality(Repeated(p))
  <2>1. /\ Repeated(p)' \subseteq Repeated(p) \cup {n + 1}
        /\ ~Within(p, s) \/ ~ok => Repeated(p)' \subseteq Repeated(p)
    BY RepeatedPosted
  <2>2. /\ Cardinality(Repeated(p)') \in Nat
        /\ Cardinality(Repeated(p)') <= Cardinality(Repeated(p)) + 1
    BY <1>4, <2>1, CardMore
  <2>3. Repeated(p)' \subseteq Repeated(p) =>
          Cardinality(Repeated(p)') <= Cardinality(Repeated(p))
    BY <1>4, CardSubset
  <2>. QED
    BY <2>1, <2>2, <2>3
<1>6. /\ Sending(p) \subseteq Active /\ Active \subseteq Servers /\ s \notin Pending(p)
      /\ NoOne \notin Active /\ s \notin Ahead(p)
  BY <1>1, PlaceFacts
<1>7. Stray(p)' \subseteq Stray(p) /\ Astray(p)' \subseteq Astray(p)
  BY <1>1 DEF Stray, Astray
<1>8. /\ Cardinality(Stray(p)') <= Cardinality(Stray(p))
      /\ Cardinality(Astray(p)') <= Cardinality(Astray(p))
  BY <1>4, <1>7, CardSubset
<1> HIDE DEF n
\* What was misled after the round was so before, or is about the round.
<1>9. ASSUME Hasty(p)' PROVE \E t \in Sending(p) \ {s} :
                          /\ Within(p, t)' /\ (t = holder \/ Newest(p, t)')
                          /\ Newest(p, t)' => Newest(p, t)
                          /\ ev'[t].now = ev[t].now /\ ev[t].now \in Int /\ t \in Active
  <2>1. PICK t \in Sending(p)' : Within(p, t)' /\ (t = holder' \/ Newest(p, t)')
    BY <1>9 DEF Hasty
  <2>2. t \in Sending(p) \ {s} /\ t \in Servers /\ t \in Active
    BY <1>1, <1>6, <2>1
  <2>3. Newest(p, t)' => Newest(p, t)
    BY <1>1, <1>2, <2>2 DEF Newest
  <2>4. ev[t].now \in Int
    BY <2>2, NowTypes DEF Base
  <2>. QED
    BY <1>1, <2>1, <2>2, <2>3, <2>4
<1>10. CASE ~ok
  <2>1. Deliveries(p)' = Deliveries(p) /\ Pending(p)' = Pending(p)
    BY <1>1, <1>2, <1>10
  <2>2. Outdated(p)' => Outdated(p)
    BY <1>1, <1>2, <2>1 DEF Outdated
  <2>3. ASSUME Hasty(p)' PROVE Hasty(p)
    <3>1. PICK t \in Sending(p) : /\ Within(p, t)' /\ (t = holder \/ Newest(p, t)')
                                  /\ Newest(p, t)' => Newest(p, t)
                                  /\ ev'[t].now = ev[t].now
      BY <1>9, <2>3
    <3>2. Within(p, t)
      BY <1>1, <1>2, <2>1, <3>1 DEF Within
    <3>. QED
      BY <3>1, <3>2 DEF Hasty
  <2>4. Misled(p)' <= Misled(p)
    BY <2>2, <2>3 DEF Misled
  <2>. QED
    BY <1>1, <1>4, <1>5, <1>8, <1>10, <2>4 DEF CoolsAtMost
<1>11. CASE ok /\ s = holder
  <2>1. ~Outdated(p)'
    BY <1>1, <1>11 DEF Outdated
  <2>2. ~Hasty(p)'
    <3> SUFFICES ASSUME Hasty(p)' PROVE FALSE
      OBVIOUS
    <3>1. PICK t \in Sending(p) \ {s} : /\ t = holder \/ Newest(p, t)'
                                        /\ ev'[t].now = ev[t].now /\ ev[t].now \in Int
                                        /\ t \in Active
      BY <1>9
    <3>2. n + 1 \in Deliveries(p)'
      BY <1>2, <1>11
    <3>3. ev[s].now < ev[t].now
      BY <1>3, <1>11, <3>1, <3>2 DEF Newest
    <3>4. ev[t].now <= ev[s].now
      BY <1>6, <1>3, <1>11, <3>1 DEF Base, Latest
    <3>. QED
      BY <1>3, <3>1, <3>3, <3>4
  <2>3. Misled(p)' = 0
    BY <2>1, <2>2 DEF Misled
  <2>4. Within(p, s) => Misled(p) = 1
    BY <1>1, <1>11 DEF Hasty, Misled
  <2>. QED
    BY <1>1, <1>4, <1>5, <1>8, <2>3, <2>4 DEF CoolsAtMost
<1>12. CASE ok /\ s # holder
  <2>1. s \in Stray(p) /\ Stray(p)' \subseteq Stray(p) \ {s}
    BY <1>1, <1>3, <1>6, <1>12 DEF Stray
  <2>2. Cardinality(Stray(p)') + 1 <= Cardinality(Stray(p))
    BY <1>4, <2>1, CardLess
  <2>3. ASSUME Within(p, s), Outdated(p)' \/ Hasty(p)' PROVE Outdated(p) \/ Hasty(p)
    <3>1. CASE Newest(p, s)
      BY <1>1, <2>3, <3>1 DEF Hasty
    <3>2. CASE ~Newest(p, s)
      <4>1. PICK j \in Deliveries(p) : ~(log[p][j].now < ev[s].now)
        BY <3>2 DEF Newest
      <4>2. log[p][j].now \in Nat /\ ev[s].now <= log[p][j].now
        BY <1>2, <1>3, <4>1
      <4>3. ASSUME Outdated(p)' PROVE Outdated(p)
        <5>1. holder \notin Pending(p)
          BY <1>1, <4>3 DEF Outdated
        <5>2. PICK k \in Deliveries(p)' : log'[p][k].now > note[p].notified
          BY <1>1, <4>3 DEF Outdated
        <5>3. CASE k \in Deliveries(p)
          BY <1>2, <5>1, <5>2, <5>3 DEF Outdated
        <5>4. CASE k \notin Deliveries(p)
          <6>1. k = n + 1 /\ ev[s].now > note[p].notified
            BY <1>2, <1>3, <5>2, <5>4
          <6>2. log[p][j].now > note[p].notified
            BY <4>2, <1>3, <6>1, NowTypes DEF Base
          <6>. QED
            BY <5>1, <6>2 DEF Outdated
        <5>. QED
          BY <5>3, <5>4
      <4>4. ASSUME Hasty(p)' PROVE Hasty(p)
        <5>1. PICK t \in Sending(p) : /\ Within(p, t)' /\ (t = holder \/ Newest(p, t)')
                                      /\ Newest(p, t)' => Newest(p, t)
                                      /\ ev'[t].now = ev[t].now /\ ev[t].now \in Int
          BY <1>9, <4>4
        <5>2. PICK k \in Deliveries(p)' : ev[t].now < log'[p][k].now + cooldown
          BY <1>1, <5>1 DEF Within
        <5>3. CASE k \in Deliveries(p)
          BY <1>2, <5>1, <5>2, <5>3 DEF Within, Hasty
        <5>4. CASE k \notin Deliveries(p)
          <6>1. k = n + 1 /\ ev[t].now < ev[s].now + cooldown
            BY <1>2, <1>3, <5>2, <5>4
          <6>2. ev[t].now < log[p][j].now + cooldown
            BY <1>3, <1>4, <4>2, <5>1, <6>1
          <6>3. Within(p, t)
            BY <6>2 DEF Within
          <6>. QED
            BY <5>1, <6>3 DEF Hasty
        <5>. QED
          BY <5>3, <5>4
      <4>. QED
        BY <2>3, <4>3, <4>4
    <3>. QED
      BY <3>1, <3>2
  <2>4. Within(p, s) => Misled(p)' <= Misled(p)
    BY <2>3 DEF Misled
  <2>. QED
    BY <1>1, <1>4, <1>5, <1>8, <2>2, <2>4 DEF CoolsAtMost
<1>. QED
  BY <1>10, <1>11, <1>12

LEMMA CoolsStep ==
  ASSUME Base, Base', NEW p \in Pairs, Seen(p), RecordsTrue(p), CoolsAtMost(p)
  PROVE  CoolsAtMost(p)'
BY CoolsDrift, CoolsJoin, CoolsStart, CoolsForget, CoolsLeave, CoolsUnlock, CoolsWritten,
   CoolsPosted DEF Seen

-----------------------------------------------------------------------------
(* SpacedWithoutFault, step by step.                                       *)

LEMMA MaxIs ==
  ASSUME NEW S, S \subseteq Int, NEW x \in S, \A y \in S : y <= x
  PROVE  Max(S) = x
<1>1. \A z \in S : (\A y \in S : z >= y) => z = x
  OBVIOUS
<1>2. \A y \in S : x >= y
  OBVIOUS
<1>3. x = CHOOSE z \in S : \A y \in S : z >= y
  BY <1>1, <1>2
<1>. QED
  BY <1>3 DEF Max

\* A row that speaks of n rounds counts their last failures.
LEMMA ReflectedFailures ==
  ASSUME Base, NEW p \in Pairs, NEW n \in Nat, Reflects(p, n)
  PROVE  FailuresAt(p, n) = note[p].failures
<1> DEFINE m == n - note[p].failures
           S == {0} \cup {d \in Deliveries(p) : d <= n}
<1>1. \A d \in Deliveries(p) : d \in Nat
  BY DeliveryFacts
<1>2. note[p].failures \in Nat
  BY NowTypes DEF Base, Row
<1>3. m \in S /\ S \subseteq Int
  BY <1>1 DEF Reflects
<1>4. \A y \in S : y <= m
  <2>1. m \in Nat
    BY <1>1, <1>3
  <2>. QED
    BY <2>1 DEF Reflects
<1>5. Max(S) = m
  <2> HIDE DEF m, S
  <2>. QED
    BY <1>3, <1>4, MaxIs
<1>6. FailuresAt(p, n) = n - m
  BY <1>5 DEF FailuresAt
<1>. QED
  BY <1>2, <1>6

\* A row that speaks of all rounds is up to date.
LEMMA ReflectsAll ==
  ASSUME Base, NEW p \in Pairs, Reflects(p, Len(log[p]))
  PROVE  UpToDate(p)
<1>. DEFINE n == Len(log[p])
            m == n - note[p].failures
<1>1. n \in Nat /\ log[p] \in Seq(Round) /\ (log[p] # <<>> => n > 0)
  BY NowTypes DEF Base
<1>2. Deliveries(p) \subseteq 1 .. n
  BY DEF Deliveries
<1>3. note[p].failures = FailuresAt(p, n)
  BY <1>1, ReflectedFailures
<1>4. log[p] # <<>> => note[p].attempted = log[p][n].now
  BY <1>1 DEF Reflects
<1>5. ASSUME Deliveries(p) # {} PROVE note[p].notified = log[p][Max(Deliveries(p))].now
  <2>1. \A d \in Deliveries(p) : d \in Nat /\ d > 0 /\ d <= n
    BY <1>1, <1>2
  <2>2. m \in {0} \cup Deliveries(p) /\ \A d \in Deliveries(p) : d <= m
    BY <2>1 DEF Reflects
  <2>3. m \in Deliveries(p) /\ m > 0
    BY <1>5, <2>1, <2>2
  <2>4. Max(Deliveries(p)) = m
    <3>. DEFINE S == Deliveries(p)
    <3>1. m \in S /\ S \subseteq Int
      BY <2>1, <2>3
    <3>2. \A y \in S : y <= m
      BY <2>2
    <3>3. Max(S) = m
      <4>. HIDE DEF m, S
      <4>. QED
        BY <3>1, <3>2, MaxIs
    <3>. QED
      BY <3>3
  <2>. QED
    BY <2>3, <2>4 DEF Reflects
<1>. QED
  BY <1>3, <1>4, <1>5 DEF UpToDate

\* Who passes the cooldown check on such a row is not too early for the last round.
LEMMA PassedIsLate ==
  ASSUME Base, NEW p \in Pairs, NEW s \in Servers, ev[s].now \in Int, Len(log[p]) > 0,
         Reflects(p, Len(log[p])), ~InCooldown(rules[p[1]], note[p], ev[s].now)
  PROVE  LET n == Len(log[p]) IN
         ~(ev[s].now < log[p][n].now + IF log[p][n].delivered THEN rules[p[1]].cooldown
                                       ELSE RetryDelay(FailuresAt(p, n), rules[p[1]].cooldown))
<1> DEFINE n == Len(log[p])
           m == n - note[p].failures
           cooldown == rules[p[1]].cooldown
<1>1. n \in Nat /\ n > 0 /\ n \in 1 .. n /\ log[p][n].now \in Nat /\ note[p].failures \in Nat
  BY NowTypes DEF Base, Row
<1>2. FailuresAt(p, n) = note[p].failures
  BY <1>1, ReflectedFailures
<1>3. note[p].attempted = log[p][n].now
  BY <1>1 DEF Reflects
<1>4. cooldown \in Nat
  BY CoolFacts
<1>5. CASE log[p][n].delivered
  <2>1. n \in Deliveries(p)
    BY <1>1, <1>5 DEF Deliveries
  <2>2. m = n
    <3>1. n <= m
      BY <1>1, <2>1 DEF Reflects
    <3>. QED
      BY <1>1, <3>1
  <2>3. note[p].notified = log[p][n].now
    BY <1>1, <2>2 DEF Reflects
  <2>4. ~(ev[s].now - log[p][n].now < cooldown)
    BY <1>1, <2>3 DEF InCooldown, Never
  <2>. QED
    BY <1>1, <1>4, <1>5, <2>4
<1>6. CASE ~log[p][n].delivered
  <2>1. n \notin Deliveries(p)
    BY <1>6 DEF Deliveries
  <2>2. m # n
    BY <1>1, <2>1 DEF Reflects
  <2>3. note[p].failures > 0
    BY <1>1, <2>2
  <2>4. ~(ev[s].now < log[p][n].now + RetryDelay(note[p].failures, cooldown))
    BY <1>1, <1>3, <2>3 DEF InCooldown, Never
  <2>. QED
    BY <1>2, <1>6, <2>4
<1>. QED
  BY <1>5, <1>6

\* Nothing but the row and the first n rounds matter to Reflects.
LEMMA ReflectsSame ==
  ASSUME NEW p, NEW n \in Nat, note'[p] = note[p], Reflects(p, n),
         \A k \in 1 .. n : log'[p][k] = log[p][k],
         \A d \in Nat : d <= n => (d \in Deliveries(p)' <=> d \in Deliveries(p)),
         Deliveries(p) \subseteq Nat \ {0}, Deliveries(p)' \subseteq Nat,
         note[p].failures \in Nat
  PROVE  Reflects(p, n)'
<1> DEFINE m == n - note[p].failures
<1>1. m \in {0} \cup {d \in Deliveries(p)' : d <= n}
  BY DEF Reflects
<1>2. \A d \in Deliveries(p)' : d <= n => d <= m
  BY DEF Reflects
<1>3. n > 0 => note[p].attempted = log'[p][n].now
  BY DEF Reflects
<1>4. m > 0 => note[p].notified = log'[p][m].now
  <2>1. m > 0 => m \in 1 .. n
    BY <1>1
  <2>. QED
    BY <2>1 DEF Reflects
<1>. QED
  BY <1>1, <1>2, <1>3, <1>4 DEF Reflects

LEMMA FailuresSame ==
  ASSUME NEW p, NEW n \in Nat,
         \A d \in Nat : d <= n => (d \in Deliveries(p)' <=> d \in Deliveries(p)),
         Deliveries(p) \subseteq Nat, Deliveries(p)' \subseteq Nat
  PROVE  FailuresAt(p, n)' = FailuresAt(p, n)
<1>1. {d \in Deliveries(p)' : d <= n} = {d \in Deliveries(p) : d <= n}
  OBVIOUS
<1>. QED
  BY <1>1 DEF FailuresAt

\* The log, the row and the rules stay.
LEMMA SpacedQuiet ==
  ASSUME Base, NEW p \in Pairs, SameRecord(p)
  PROVE  /\ Reflects(p, Len(log[p])) => Reflects(p, Len(log[p]))'
         /\ Len(log[p]) > 0 /\ Reflects(p, Len(log[p]) - 1) => Reflects(p, Len(log[p]) - 1)'
         /\ \A k \in 2 .. Len(log[p]) : ~TooEarly(p, k) => ~TooEarly(p, k)'
<1>1. /\ Deliveries(p)' = Deliveries(p) /\ log'[p] = log[p] /\ note'[p] = note[p]
      /\ rules' = rules
  BY DeliveriesSame DEF SameRecord
<1>2. /\ Len(log[p]) \in Nat /\ note[p].failures \in Nat
      /\ Deliveries(p) \subseteq Nat \ {0}
  BY DeliveryFacts, NowTypes DEF Base, Row, Deliveries
<1>3. ASSUME NEW n \in Nat, Reflects(p, n) PROVE Reflects(p, n)'
  BY <1>1, <1>2, <1>3, ReflectsSame
<1>4. ASSUME NEW k \in 2 .. Len(log[p]), ~TooEarly(p, k) PROVE ~TooEarly(p, k)'
  <2>1. FailuresAt(p, k - 1)' = FailuresAt(p, k - 1)
    BY <1>1 DEF FailuresAt
  <2>. QED
    BY <1>1, <1>4, <2>1 DEF TooEarly
<1>5. Reflects(p, Len(log[p])) => Reflects(p, Len(log[p]))'
  BY <1>1, <1>2, <1>3 DEF Reflects
<1>6. Len(log[p]) > 0 /\ Reflects(p, Len(log[p]) - 1) => Reflects(p, Len(log[p]) - 1)'
  BY <1>1, <1>2, <1>3 DEF Reflects
<1>. QED
  BY <1>4, <1>5, <1>6

LEMMA SpacedOrdinary ==
  ASSUME Base, NEW p \in Pairs, SpacedSoFar(p), SameRecord(p), Free,
         faults = 0 => Active' \subseteq {holder'},
         Pending(p)' = Pending(p), Failing(p)' = Failing(p),
         \A t \in Active : ev'[t].now = ev[t].now,
         \A t \in Sending(p)' :
           \/ t \in Sending(p)
           \/ ~InCooldown(rules[p[1]], note[p], ev[t].now) /\ t \in Active
  PROVE  SpacedSoFar(p)'
<1>. SUFFICES ASSUME faults = 0 PROVE SpacedSoFar(p)'
  BY DEF SpacedSoFar, Free
<1>1. log'[p] = log[p] /\ note'[p] = note[p] /\ rules' = rules /\ faults' = 0
  BY DEF SameRecord, Free
<1>2. /\ Sending(p) \subseteq Active /\ Pending(p) \subseteq Active /\ Failing(p) \subseteq Active
  BY DEF Sending, Pending, Failing, Active
<1>3. \A t \in Sending(p)' : ~InCooldown(rules'[p[1]], note'[p], ev'[t].now)
  <2> SUFFICES ASSUME NEW t \in Sending(p)' PROVE ~InCooldown(rules[p[1]], note[p], ev[t].now)
                                                  /\ t \in Active
    BY <1>1
  <2>. QED
    BY <1>2 DEF SpacedSoFar
<1>4. Pending(p) \cup Failing(p) = {} => Reflects(p, Len(log[p]))'
  BY SpacedQuiet DEF SpacedSoFar
<1>5. \A t \in Pending(p) \cup Failing(p) :
         /\ Len(log[p]) > 0 /\ Reflects(p, Len(log[p]) - 1)'
         /\ log[p][Len(log[p])].now = ev'[t].now
         /\ log[p][Len(log[p])].delivered <=> t \in Pending(p)
  BY <1>2, SpacedQuiet DEF SpacedSoFar
<1>6. \A k \in 2 .. Len(log[p]) : ~TooEarly(p, k)'
  BY SpacedQuiet DEF SpacedSoFar
<1>7. (\A s \in Sending(p) : ~InCooldown(rules[p[1]], note[p], ev[s].now))'
  BY <1>3
<1>8. (Pending(p) \cup Failing(p) = {} => Reflects(p, Len(log[p])))'
  BY <1>1, <1>4
<1>9. (\A s \in Pending(p) \cup Failing(p) :
         /\ Len(log[p]) > 0 /\ Reflects(p, Len(log[p]) - 1)
         /\ log[p][Len(log[p])].now = ev[s].now
         /\ log[p][Len(log[p])].delivered <=> s \in Pending(p))'
  BY <1>1, <1>5
<1>10. (\A k \in 2 .. Len(log[p]) : ~TooEarly(p, k))'
  BY <1>1, <1>6
<1>11. (Active \subseteq {holder})'
  OBVIOUS
<1>. QED
  BY <1>7, <1>8, <1>9, <1>10, <1>11 DEF SpacedSoFar

LEMMA SpacedPosted ==
  ASSUME Base, NEW p \in Pairs, NEW s \in Servers, NEW ok \in BOOLEAN, Posts(p, s, ok),
         SpacedSoFar(p)
  PROVE  SpacedSoFar(p)'
<1>0. PICK n \in Nat : n = Len(log[p])
  BY NowTypes DEF Base
<1>1. /\ rules' = rules /\ note'[p] = note[p] /\ faults' = faults /\ holder' = holder
      /\ s \in Sending(p) /\ Sending(p)' = Sending(p) \ {s} /\ Active' = Active
      /\ Pending(p)' = Pending(p) \cup (IF ok THEN {s} ELSE {})
      /\ Failing(p)' = Failing(p) \cup (IF ok THEN {} ELSE {s})
      /\ \A t \in Servers : ev'[t].now = ev[t].now
  BY DEF Posts, SameNows, Free
<1>. SUFFICES ASSUME faults = 0 PROVE SpacedSoFar(p)'
  BY <1>1 DEF SpacedSoFar
<1>2. /\ n \in Nat /\ Len(log'[p]) = n + 1 /\ n + 1 > 0 /\ (n + 1) - 1 = n
      /\ log'[p][n + 1].now = ev[s].now /\ ev[s].now \in Int
      /\ log'[p][n + 1].delivered <=> ok
  BY <1>0, DeliveriesPosted
<1>3. \A k \in 1 .. n : log'[p][k] = log[p][k]
  BY <1>0, DeliveriesPosted
<1>4. Deliveries(p)' = Deliveries(p) \cup (IF ok THEN {n + 1} ELSE {})
  BY <1>0, DeliveriesPosted
<1>5. Deliveries(p) \subseteq 1 .. n /\ note[p].failures \in Nat
  BY <1>0, DeliveryFacts, NowTypes DEF Base, Row
<1>6. /\ \A d \in Nat : d <= n => (d \in Deliveries(p)' <=> d \in Deliveries(p))
      /\ Deliveries(p) \subseteq Nat \ {0} /\ Deliveries(p)' \subseteq Nat
  BY <1>2, <1>4, <1>5
\* The holder alone evaluates, so that no record is pending while it sends.
<1>7. Active \subseteq {s} /\ Active \subseteq {holder} /\ Pending(p) = {} /\ Failing(p) = {}
  <2>1. Active \subseteq {holder} /\ s \in Active
    BY <1>1 DEF SpacedSoFar, Sending, Active
  <2>. QED
    BY <1>1, <2>1 DEF Sending, Pending, Failing, Active
<1>8. Reflects(p, n) /\ ~InCooldown(rules[p[1]], note[p], ev[s].now)
  BY <1>0, <1>1, <1>7 DEF SpacedSoFar
<1>9. Reflects(p, n)'
  BY <1>1, <1>3, <1>5, <1>6, <1>8, ReflectsSame
<1>10. ASSUME NEW k \in 2 .. n PROVE ~TooEarly(p, k)'
  <2>1. /\ k - 1 \in Nat /\ k \in 1 .. n /\ k - 1 \in 1 .. n
        /\ \A d \in Nat : d <= k - 1 => d <= n
    BY <1>2
  <2>2. FailuresAt(p, k - 1)' = FailuresAt(p, k - 1)
    <3>1. ASSUME NEW j \in Nat, j <= n PROVE FailuresAt(p, j)' = FailuresAt(p, j)
      <4>1. \A d \in Nat : d <= j => d <= n
        BY <1>2, <3>1
      <4>. QED
        BY <1>6, <4>1, FailuresSame
    <3>2. k - 1 \in Nat /\ k - 1 <= n
      BY <1>2
    <3>. QED
      BY <3>1, <3>2 DEF FailuresAt
  <2>3. ~TooEarly(p, k)
    BY <1>0, <1>2 DEF SpacedSoFar
  <2>. QED
    BY <1>1, <1>3, <2>1, <2>2, <2>3 DEF TooEarly
<1>11. n > 0 => ~TooEarly(p, n + 1)'
  <2>. SUFFICES ASSUME n > 0 PROVE ~TooEarly(p, n + 1)'
    OBVIOUS
  <2>1. n \in 1 .. n /\ (n + 1) - 1 = n
    BY <1>2
  <2>2. FailuresAt(p, n)' = FailuresAt(p, n)
    BY <1>6, FailuresSame
  <2>3. ~(ev[s].now < log[p][n].now + IF log[p][n].delivered THEN rules[p[1]].cooldown
                                 ELSE RetryDelay(FailuresAt(p, n), rules[p[1]].cooldown))
    BY <1>0, <1>2, <1>8, PassedIsLate
  <2>. QED
    BY <1>1, <1>2, <1>3, <2>1, <2>2, <2>3 DEF TooEarly
<1>12. (\A t \in Sending(p) : ~InCooldown(rules[p[1]], note[p], ev[t].now))'
  BY <1>1, <1>7 DEF Sending, Active
<1>13. (Pending(p) \cup Failing(p))' = {s}
  BY <1>1, <1>7
<1>14. Pending(p)' = IF ok THEN {s} ELSE {}
  BY <1>1, <1>7
<1>15. (\A t \in Pending(p) \cup Failing(p) :
          /\ Len(log[p]) > 0 /\ Reflects(p, Len(log[p]) - 1)
          /\ log[p][Len(log[p])].now = ev[t].now
          /\ log[p][Len(log[p])].delivered <=> t \in Pending(p))'
  <2>1. Reflects(p, Len(log[p]) - 1)'
    BY <1>2, <1>9 DEF Reflects
  <2>2. log'[p][Len(log'[p])].delivered <=> s \in Pending(p)'
    BY <1>2, <1>14
  <2>3. Len(log'[p]) > 0 /\ log'[p][Len(log'[p])].now = ev'[s].now
    BY <1>1, <1>2
  <2>. QED
    BY <1>13, <2>1, <2>2, <2>3
<1>16. (\A k \in 2 .. Len(log[p]) : ~TooEarly(p, k))'
  <2>1. \A k \in 2 .. (n + 1) : k \in 2 .. n \/ (k = n + 1 /\ n > 0)
    BY <1>2
  <2>2. \A k \in 2 .. (n + 1) : ~TooEarly(p, k)'
    BY <1>10, <1>11, <2>1
  <2>. QED
    BY <1>2, <2>2
<1>17. (Active \subseteq {holder} /\ ~(Pending(p) \cup Failing(p) = {}))'
  BY <1>1, <1>7, <1>13
<1>. QED
  BY <1>12, <1>15, <1>16, <1>17 DEF SpacedSoFar

LEMMA SpacedWritten ==
  ASSUME Base, NEW p \in Pairs, NEW s \in Servers, Writes(p, s), SpacedSoFar(p)
  PROVE  SpacedSoFar(p)'
<1>0. PICK n \in Nat : n = Len(log[p])
  BY NowTypes DEF Base
<1>1. /\ rules' = rules /\ log'[p] = log[p] /\ faults' = faults /\ holder' = holder
      /\ Active' = Active /\ Sending(p)' = Sending(p)
      /\ Pending(p)' = Pending(p) \ {s} /\ Failing(p)' = Failing(p) \ {s}
      /\ s \in Pending(p) \cup Failing(p) /\ (ev[s].delivered <=> s \in Pending(p))
      /\ note'[p] = Attempted(note[p], ev[s].now, ev[s].delivered)
  BY DEF Writes, Free
<1>. SUFFICES ASSUME faults = 0 PROVE SpacedSoFar(p)'
  BY <1>1 DEF SpacedSoFar
<1>2. Deliveries(p)' = Deliveries(p) /\ note[p].failures \in Nat
  BY <1>1, DeliveriesSame, NowTypes DEF Base, Row
<1>3. Active \subseteq {s} /\ Active \subseteq {holder} /\ Sending(p) = {}
  <2>1. Active \subseteq {holder} /\ s \in Active
    BY <1>1 DEF SpacedSoFar, Pending, Failing, Active
  <2>. QED
    BY <1>1, <2>1 DEF Sending, Pending, Failing, Active
<1>4. Pending(p)' \cup Failing(p)' = {}
  BY <1>1, <1>3 DEF Pending, Failing, Active
<1>5. /\ n > 0 /\ Reflects(p, n - 1) /\ log[p][n].now = ev[s].now
      /\ log[p][n].delivered <=> s \in Pending(p)
  BY <1>0, <1>1 DEF SpacedSoFar
<1>6. /\ n \in Deliveries(p) <=> s \in Pending(p)
      /\ \A d \in Deliveries(p) : d \in Nat /\ d > 0
  BY <1>0, <1>5, DeliveryFacts DEF Deliveries
<1>7. Reflects(p, n)'
  <2>1. CASE s \in Pending(p)
    <3>1. note'[p].failures = 0 /\ note'[p].attempted = ev[s].now /\ note'[p].notified = ev[s].now
      BY <1>1, <2>1 DEF Attempted
    <3>2. n - note'[p].failures = n /\ n <= n
      BY <3>1
    <3>3. n \in {0} \cup {d \in Deliveries(p) : d <= n}
      BY <1>6, <2>1
    <3>. QED
      BY <1>1, <1>2, <1>5, <1>6, <2>1, <3>1, <3>2, <3>3 DEF Reflects
  <2>2. CASE s \notin Pending(p)
    <3>1. /\ note'[p].failures = note[p].failures + 1 /\ note'[p].attempted = ev[s].now
          /\ note'[p].notified = note[p].notified
      BY <1>1, <2>2 DEF Attempted
    <3>2. PICK m \in Int : m = n - 1 - note[p].failures /\ m = n - note'[p].failures
      BY <1>2, <3>1
    <3>3. \A d \in Deliveries(p) : d <= n => d <= n - 1
      BY <1>6, <2>2
    <3>4. \A d \in Deliveries(p) : d <= n - 1 => d <= n
      BY <1>6
    <3>5. /\ m \in {0} \cup {d \in Deliveries(p) : d <= n - 1}
          /\ \A d \in Deliveries(p) : d <= n - 1 => d <= m
          /\ m > 0 => note[p].notified = log[p][m].now
      BY <1>5, <3>2 DEF Reflects
    <3>6. /\ m \in {0} \cup {d \in Deliveries(p) : d <= n}
          /\ \A d \in Deliveries(p) : d <= n => d <= m
      BY <3>3, <3>4, <3>5
    <3>. QED
      BY <1>1, <1>2, <1>5, <3>1, <3>2, <3>5, <3>6 DEF Reflects
  <2>. QED
    BY <2>1, <2>2
<1>8. (\A k \in 2 .. Len(log[p]) : ~TooEarly(p, k))'
  <2>1. ASSUME NEW k \in 2 .. n PROVE ~TooEarly(p, k)'
    <3>1. FailuresAt(p, k - 1)' = FailuresAt(p, k - 1)
      BY <1>2 DEF FailuresAt
    <3>2. ~TooEarly(p, k)
      BY <1>0 DEF SpacedSoFar
    <3>. QED
      BY <1>1, <3>1, <3>2 DEF TooEarly
  <2>. QED
    BY <1>0, <1>1, <2>1
<1>9. Reflects(p, Len(log[p]))'
  BY <1>0, <1>1, <1>7 DEF Reflects
<1>10. (Active \subseteq {holder})' /\ Sending(p)' = {} /\ (Pending(p) \cup Failing(p) = {})'
  BY <1>1, <1>3, <1>4
<1>. QED
  BY <1>8, <1>9, <1>10 DEF SpacedSoFar

LEMMA SpacedStep ==
  ASSUME Base, NEW p \in Pairs, Seen(p), SpacedSoFar(p)
  PROVE  SpacedSoFar(p)'
<1>1. faults \in Nat /\ Active \subseteq Servers
  BY NowTypes DEF Base, Active
<1>2. Costs => SpacedSoFar(p)'
  BY <1>1 DEF Costs, SpacedSoFar
<1>3. faults = 0 => Active \subseteq {holder}
  BY DEF SpacedSoFar
<1>4. CASE Drifts(p) /\ Free
  BY <1>1, <1>3, <1>4, SpacedOrdinary DEF Drifts, SamePlaces, SameNows
<1>5. ASSUME NEW s \in Servers, Joins(p, s) PROVE SpacedSoFar(p)'
  <2>1. /\ SameRecord(p) /\ Free /\ Sending(p)' = Sending(p) /\ Pending(p)' = Pending(p)
        /\ Failing(p)' = Failing(p) /\ holder = NoOne /\ holder' = s
        /\ Active' = Active \cup {s} /\ s \notin Active
        /\ \A t \in Servers \ {s} : ev'[t].now = ev[t].now
    BY <1>5 DEF Joins, SamePlaces
  <2>2. faults = 0 => Active = {}
    BY <1>1, <1>3, <2>1, NoOneAssumption
  <2>. QED
    BY <1>1, <2>1, <2>2, SpacedOrdinary
<1>6. ASSUME NEW s \in Servers, Starts(p, s), Free PROVE SpacedSoFar(p)'
  <2>1. /\ SameRecord(p) /\ Sending(p)' = Sending(p) \cup {s} /\ Pending(p)' = Pending(p)
        /\ Failing(p)' = Failing(p) /\ holder' = holder /\ Active' = Active
        /\ \A t \in Servers : ev'[t].now = ev[t].now
        /\ s \in Active
    BY <1>6, PlaceFacts DEF Starts, SameNows
  <2>2. ~InCooldown(rules[p[1]], note[p], ev[s].now)
    BY <1>1, <1>6 DEF Starts, Free, Costs
  <2>. QED
    BY <1>1, <1>3, <1>6, <2>1, <2>2, SpacedOrdinary
<1>7. ASSUME NEW s \in Servers, Leaves(p, s), Free PROVE SpacedSoFar(p)'
  <2>1. s \notin Ahead(p) \cup Sending(p) \cup Pending(p) \cup Failing(p)
    BY <1>1, <1>7 DEF Leaves, Free, Costs
  <2>2. /\ SameRecord(p) /\ Sending(p)' = Sending(p) /\ Pending(p)' = Pending(p)
        /\ Failing(p)' = Failing(p) /\ holder' = Released(s) /\ Active' = Active \ {s}
        /\ \A t \in Servers : ev'[t].now = ev[t].now
    BY <1>7, <2>1 DEF Leaves, SameNows
  <2>3. faults = 0 => Active' \subseteq {holder'}
    BY <1>3, <2>2 DEF Released
  <2>. QED
    BY <1>1, <1>7, <2>2, <2>3, SpacedOrdinary
<1>8. \A s \in Servers : (Forgets(p, s) \/ Unlocks(p, s)) => Costs
  BY DEF Forgets, Unlocks
<1>9. Drifts(p) => Free \/ Costs
  BY DEF Drifts
<1>10. \A s \in Servers : Starts(p, s) \/ Leaves(p, s) => Free \/ Costs
  BY DEF Starts, Leaves
<1>. QED
  BY <1>2, <1>4, <1>5, <1>6, <1>7, <1>8, <1>9, <1>10, SpacedPosted, SpacedWritten DEF Seen

-----------------------------------------------------------------------------
(* The inductive invariant and what follows from it.                       *)

LEMMA InvInit == Init => Inv
<1>. SUFFICES ASSUME Init PROVE Inv
  OBVIOUS
<1>1. Base
  BY InitBase
<1>2. Active = {} /\ faults = 0 /\ \A s \in Servers : ev[s].phase = "idle"
  BY DEF Init, Active, Idle
<1> SUFFICES ASSUME NEW p \in Pairs
             PROVE  RecordsTrue(p) /\ FiresAtMost(p) /\ CoolsAtMost(p) /\ SpacedSoFar(p)
  BY <1>1 DEF Inv
<1>3. /\ note[p] = NoRow /\ log[p] = <<>> /\ Len(log[p]) = 0
      /\ note[p].notified = Never /\ note[p].failures = 0
  BY DEF Init, NoRow
<1>4. /\ Sending(p) = {} /\ Pending(p) = {} /\ Failing(p) = {} /\ Deliveries(p) = {}
      /\ Loose(p) = {} /\ Stray(p) = {} /\ Astray(p) = {}
  BY <1>2, <1>3 DEF Sending, Pending, Failing, Deliveries, Loose, Stray, Astray
<1>5. Repeated(p) = {} /\ Open(p) = 1 /\ Misled(p) = 0
  BY <1>4 DEF Repeated, Open, Misled, Outdated, Hasty
<1>6. Cardinality(Deliveries(p)) = 0 /\ Cardinality(Loose(p)) = 0 /\ Cardinality(Failing(p)) = 0
      /\ Cardinality(Stray(p)) = 0 /\ Cardinality(Astray(p)) = 0 /\ Cardinality(Repeated(p)) = 0
      /\ IsFiniteSet(Failing(p))
  BY <1>4, <1>5, NoneCounted
<1>7. RecordsTrue(p)
  BY <1>3, <1>4, <1>6 DEF RecordsTrue
<1>8. FiresAtMost(p)
  BY <1>2, <1>3, <1>5, <1>6 DEF FiresAtMost
<1>9. CoolsAtMost(p)
  BY <1>2, <1>5, <1>6 DEF CoolsAtMost
<1>10. SpacedSoFar(p)
  BY <1>2, <1>3, <1>4 DEF SpacedSoFar, Reflects
<1>. QED
  BY <1>7, <1>8, <1>9, <1>10

LEMMA InvNext == Inv /\ [Next]_vars => Inv'
<1>. SUFFICES ASSUME Inv, [Next]_vars PROVE Inv'
  OBVIOUS
<1>1. Base /\ Base' /\ \A p \in Pairs : Seen(p)
  BY Steps DEF Inv
<1>2. rules' = rules
  BY DEF Next, vars, issueVars, Tick, Arrive, Resolve, Evaluate, Begin, Query, Consider, Send,
         Record, Finish, LoseSession, Crash
<1>3. Pairs' = Pairs
  BY <1>2 DEF Pairs, Rules
<1>4. ASSUME NEW p \in Pairs
      PROVE  RecordsTrue(p)' /\ FiresAtMost(p)' /\ CoolsAtMost(p)' /\ SpacedSoFar(p)'
  <2>1. RecordsTrue(p) /\ FiresAtMost(p) /\ CoolsAtMost(p) /\ SpacedSoFar(p) /\ Seen(p)
    BY <1>1 DEF Inv
  <2>. QED
    BY <1>1, <2>1, RecordsStep, FiresStep, CoolsStep, SpacedStep
<1>. QED
  BY <1>1, <1>3, <1>4 DEF Inv

\* Spec keeps the inductive invariant: where evaluations stand, who holds the
\* lock, and the account of deliveries of every rule and Issue.
THEOREM EvaluationInvariant == Spec => []Inv
BY InvInit, InvNext, PTL DEF Spec

\* What sentryx_alert_notification_state says was delivered was delivered, in
\* whatever order evaluations overlap, die or lose the write of recordAlertAttempt.
THEOREM RecordsHold == Spec => []RecordsAreTrue
<1>1. Inv => RecordsAreTrue
  <2>. SUFFICES ASSUME Inv, NEW p \in Pairs
       PROVE /\ note[p].notified # Never =>
                  \E k \in Deliveries(p) : log[p][k].now = note[p].notified
             /\ note[p].failures <= Len(log[p]) - Cardinality(Deliveries(p))
             /\ faults = 0 /\ (\A s \in Servers : ev[s].phase = "recording" => Pair(s) # p) =>
                  UpToDate(p)
    BY DEF RecordsAreTrue
  <2>1. Base /\ RecordsTrue(p)
    BY DEF Inv
  <2>2. /\ Cardinality(Failing(p)) \in Nat /\ note[p].failures \in Nat
        /\ Cardinality(Deliveries(p)) \in Nat /\ Len(log[p]) \in Nat
    BY <2>1, FS_CardinalityType, DeliveryFacts, NowTypes DEF RecordsTrue, Base, Row
  <2>3. ASSUME faults = 0, \A s \in Servers : ev[s].phase = "recording" => Pair(s) # p
        PROVE  UpToDate(p)
    <3>1. Reflects(p, Len(log[p]))
      BY <2>3 DEF Inv, SpacedSoFar, Pending, Failing
    <3>. QED
      BY <2>1, <3>1, ReflectsAll
  <2>. QED
    BY <2>1, <2>2, <2>3 DEF RecordsTrue
<1>. QED
  BY <1>1, EvaluationInvariant, PTL

\* A new_issue rule notifies once, and once more for each fault at most: what
\* EvaluateAlerts may repeat is what it delivered and could not record, or what a
\* second evaluation did that outlived its advisory lock.
THEOREM FiresOnce == Spec => []FiresOncePerFault
<1>1. Inv => FiresOncePerFault
  <2>. SUFFICES ASSUME Inv, NEW p \in Pairs, rules[p[1]].condition = "new_issue"
       PROVE Cardinality(Deliveries(p)) <= 1 + faults
    BY DEF FiresOncePerFault
  <2>1. Base /\ FiresAtMost(p)
    BY DEF Inv
  <2>2. /\ Cardinality(Loose(p)) \in Nat /\ Cardinality(Sending(p)) \in Nat
        /\ Open(p) \in Nat /\ faults \in Nat /\ Cardinality(Deliveries(p)) \in Nat
    BY <2>1, PlaceFacts, DeliveryFacts
  <2>. QED
    BY <2>1, <2>2 DEF FiresAtMost
<1>. QED
  BY <1>1, EvaluationInvariant, PTL

\* No fault makes a rule break its cooldown more than twice.
THEOREM CooldownHolds == Spec => []CooldownPerFault
<1>1. Inv => CooldownPerFault
  <2>. SUFFICES ASSUME Inv, NEW p \in Pairs
       PROVE Cardinality(Repeated(p)) <= 2 * faults
    BY DEF CooldownPerFault
  <2>1. Base /\ CoolsAtMost(p)
    BY DEF Inv
  <2>. QED
    BY <2>1, CoolFacts DEF CoolsAtMost
<1>. QED
  BY <1>1, EvaluationInvariant, PTL

\* While nothing but webhooks fails, rounds keep the cooldown after a success
\* and the growing delay of alertRetryDelay after failures, on whichever server.
THEOREM RoundsAreSpaced == Spec => []SpacedWithoutFault
<1>1. Inv => SpacedWithoutFault
  BY DEF Inv, SpacedWithoutFault, SpacedSoFar
<1>. QED
  BY <1>1, EvaluationInvariant, PTL
=============================================================================
