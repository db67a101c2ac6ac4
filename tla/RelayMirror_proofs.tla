--------------------------- MODULE RelayMirror_proofs ---------------------------
(* Theorems about RelayMirror for every set of requests and digests, finite or  *)
(* not, every number of slots and of faults.                                    *)
EXTENDS RelayMirror, FiniteSetTheorems, TLAPS

\* The copies in flight fit the slots.
Slots == IsFiniteSet(Busy) /\ Cardinality(Busy) <= MirrorSlots

\* A copy begins with its request, and who writes has a file open.
Opened == \A r \in Requests : /\ primary[r] = "new" => copy[r] = "none"
                              /\ copy[r] = "writing" => node[r] # None

\* The loop has a name in hand, and removes only what the mirror has.
InHand ==
  /\ replay.phase # "idle" => replay.at \in Digests
  /\ replay.phase = "removing" => replay.at \in mirrored

Kept(d) == json[d] # None \/ d \in mirrored

\* From Open on a copy is under one of its two names, unless replay has moved it on.
Traceable ==
  \A r \in Requests :
    /\ copy[r] \in {"writing", "renaming"} => tmp[Digest[r]] # None \/ Kept(Digest[r])
    /\ copy[r] = "done" => Kept(Digest[r])

BeingWritten(file) == \E r \in Requests : copy[r] = "writing" /\ node[r] = file
Sound(file) == file # None /\ file \notin full => BeingWritten(file)

\* While nothing fails every incomplete file, under either name, is still being written.
Whole == faults = 0 => \A d \in Digests : Sound(tmp[d]) /\ Sound(json[d])

Inv == TypeOK /\ Slots /\ Opened /\ InHand /\ Traceable /\ Whole

-----------------------------------------------------------------------------
LEMMA InitInv == Init => Inv
<1>. SUFFICES ASSUME Init PROVE Inv
  OBVIOUS
<1>. USE DEF Init
<1>1. TypeOK
  BY BoundAssumption DEF TypeOK, AtRest, Inode
<1>2. Slots
  <2>1. Busy = {}
    BY DEF Busy, InFlight
  <2>. QED
    BY <2>1, FS_EmptySet, BoundAssumption DEF Slots
<1>3. Opened /\ InHand /\ Traceable
  BY DEF Opened, InHand, Traceable, AtRest
<1>4. Whole
  BY DigestAssumption DEF Whole, Sound
<1>. QED
  BY <1>1, <1>2, <1>3, <1>4 DEF Inv

-----------------------------------------------------------------------------
(* Types.                                                                  *)

LEMMA FaultType == TypeOK /\ Fault => faults' \in 0 .. MaxFaults /\ faults' # 0
BY BoundAssumption DEF TypeOK, Fault

LEMMA HandlerType ==
  ASSUME TypeOK, NEW r \in Requests, Receive(r) \/ PrimaryAnswers(r) \/ MirrorCopy(r)
  PROVE  TypeOK'
BY DigestAssumption
DEF TypeOK, Receive, PrimaryAnswers, MirrorCopy, SpoolsFailure, files, InFlight

LEMMA SaveType ==
  ASSUME TypeOK, Opened, NEW r \in Requests, Save(r) \/ SaveFails(r)
  PROVE  TypeOK'
<1>. Digest[r] \in Digests
  BY DigestAssumption
<1>1. CASE Open(r)
  BY <1>1 DEF TypeOK, Open, InFlight, Inode
<1>2. CASE Write(r)
  BY <1>2 DEF TypeOK, Opened, Write, Written, InFlight, Inode
<1>3. CASE Rename(r)
  BY <1>3 DEF TypeOK, Rename, Renamed, InFlight, Inode
<1>4. CASE SaveFails(r)
  BY <1>4, FaultType DEF TypeOK, SaveFails, InFlight, Inode
<1>. QED
  BY <1>1, <1>2, <1>3, <1>4 DEF Save

LEMMA ReplayType == TypeOK /\ InHand /\ ReplayStep => TypeOK'
<1>. SUFFICES ASSUME TypeOK, InHand, ReplayStep PROVE TypeOK'
  OBVIOUS
<1>1. CASE List
  BY <1>1 DEF TypeOK, List, AtRest, files
<1>2. CASE \E d \in Digests : Read(d)
  BY <1>2 DEF TypeOK, Read, files
<1>3. CASE ReplayAccepted \/ ReplayFails
  <2>1. replay.at \in Digests
    BY <1>3 DEF InHand, ReplayAccepted, ReplayFails
  <2>2. mirrored' \subseteq Digests
    BY <1>3, <2>1 DEF TypeOK, ReplayAccepted, ReplayFails
  <2>3. replay' \in [todo : SUBSET Digests, at : Digests \cup {None},
                    phase : {"idle", "sending", "removing"}]
    BY <1>3 DEF TypeOK, ReplayAccepted, ReplayFails, AfterFailure
  <2>. QED
    BY <1>3, <2>2, <2>3 DEF TypeOK, ReplayAccepted, ReplayFails, files
<1>4. CASE Remove
  BY <1>4 DEF TypeOK, InHand, Remove, Inode
<1>. QED
  BY <1>1, <1>2, <1>3, <1>4 DEF ReplayStep

LEMMA CrashType == TypeOK /\ Crash => TypeOK'
BY FaultType DEF TypeOK, Crash, AtRest, InFlight, Inode

LEMMA StepType == Inv /\ [Next]_vars => TypeOK'
<1>. SUFFICES ASSUME Inv, [Next]_vars PROVE TypeOK'
  OBVIOUS
<1>1. CASE UNCHANGED vars
  BY <1>1 DEF Inv, TypeOK, vars
<1>. QED
  BY <1>1, HandlerType, SaveType, ReplayType, CrashType DEF Inv, Next

-----------------------------------------------------------------------------
(* Slots.                                                                  *)

\* Only Receive puts a copy in flight, and only into a free slot.
LEMMA StepSlots == Inv /\ [Next]_vars => Slots'
<1>. SUFFICES ASSUME Inv, [Next]_vars PROVE Slots'
  OBVIOUS
<1>. IsFiniteSet(Busy) /\ Cardinality(Busy) <= MirrorSlots /\ MirrorSlots \in Nat
  BY BoundAssumption DEF Inv, Slots
<1>1. ASSUME Busy' \subseteq Busy PROVE Slots'
  <2>1. /\ IsFiniteSet(Busy') /\ Cardinality(Busy') <= Cardinality(Busy)
        /\ Cardinality(Busy) \in Nat /\ Cardinality(Busy') \in Nat
    BY <1>1, FS_Subset, FS_CardinalityType
  <2>. QED
    BY <2>1 DEF Slots
<1>2. ASSUME NEW r \in Requests, Receive(r) PROVE Slots'
  <2>1. CASE ~SlotFree
    <3>1. Busy' \subseteq Busy
      BY <1>2, <2>1 DEF Inv, TypeOK, Receive, Busy, InFlight
    <3>. QED
      BY <3>1, <1>1
  <2>2. CASE SlotFree
    <3>1. Busy' \subseteq Busy \cup {r}
      BY <1>2 DEF Inv, TypeOK, Receive, Busy, InFlight
    <3>2. /\ IsFiniteSet(Busy \cup {r}) /\ Cardinality(Busy \cup {r}) <= MirrorSlots
          /\ Cardinality(Busy \cup {r}) \in Nat
      BY <2>2, FS_AddElement, FS_CardinalityType DEF SlotFree
    <3>3. /\ IsFiniteSet(Busy') /\ Cardinality(Busy') <= Cardinality(Busy \cup {r})
          /\ Cardinality(Busy') \in Nat
      BY <3>1, <3>2, FS_Subset, FS_CardinalityType
    <3>. QED
      BY <3>2, <3>3 DEF Slots
  <2>. QED
    BY <2>1, <2>2
<1>3. ASSUME NEW r \in Requests,
             PrimaryAnswers(r) \/ MirrorCopy(r) \/ Save(r) \/ SaveFails(r)
      PROVE  Busy' \subseteq Busy
  BY <1>3 DEF Inv, TypeOK, PrimaryAnswers, MirrorCopy, SpoolsFailure, Save, Open, Write,
              Rename, SaveFails, Busy, InFlight
<1>4. ASSUME ReplayStep \/ Crash \/ UNCHANGED vars PROVE Busy' \subseteq Busy
  BY <1>4 DEF ReplayStep, List, Read, ReplayAccepted, ReplayFails, Remove, Crash, vars,
              Inv, TypeOK, Busy, InFlight
<1>. QED
  BY <1>1, <1>2, <1>3, <1>4 DEF Next

-----------------------------------------------------------------------------
(* What is open, in hand and accounted for.                                *)

LEMMA StepOpened == Inv /\ [Next]_vars => Opened'
<1>. SUFFICES ASSUME Inv, [Next]_vars PROVE Opened'
  OBVIOUS
<1>. TypeOK /\ Opened
  BY DEF Inv
<1>1. ASSUME NEW r \in Requests, Receive(r) \/ PrimaryAnswers(r) \/ MirrorCopy(r) PROVE Opened'
  BY <1>1 DEF TypeOK, Opened, Receive, PrimaryAnswers, MirrorCopy, SpoolsFailure, files
<1>2. ASSUME NEW r \in Requests, Save(r) \/ SaveFails(r) PROVE Opened'
  BY <1>2, NoneAssumption DEF TypeOK, Opened, Save, Open, Write, Rename, SaveFails, InFlight
<1>3. CASE ReplayStep \/ UNCHANGED vars
  BY <1>3 DEF Opened, ReplayStep, List, Read, ReplayAccepted, ReplayFails, Remove, vars, files
<1>4. CASE Crash
  BY <1>4 DEF Opened, Crash, InFlight
<1>. QED
  BY <1>1, <1>2, <1>3, <1>4 DEF Next

LEMMA StepInHand == Inv /\ [Next]_vars => InHand'
<1>. SUFFICES ASSUME Inv, [Next]_vars PROVE InHand'
  OBVIOUS
<1>. TypeOK /\ InHand
  BY DEF Inv
<1>1. ASSUME NEW r \in Requests,
             Receive(r) \/ PrimaryAnswers(r) \/ MirrorCopy(r) \/ Save(r) \/ SaveFails(r)
      PROVE  InHand'
  BY <1>1 DEF InHand, Receive, PrimaryAnswers, MirrorCopy, Save, Open, Write, Rename, SaveFails
<1>2. CASE List \/ ReplayFails \/ Remove
  <2>1. replay'.phase = "idle"
    BY <1>2 DEF TypeOK, List, AtRest, ReplayFails, AfterFailure, Remove
  <2>. QED
    BY <2>1 DEF InHand
<1>3. CASE (\E d \in Digests : Read(d)) \/ ReplayAccepted
  BY <1>3 DEF TypeOK, InHand, Read, ReplayAccepted
<1>4. CASE Crash \/ UNCHANGED vars
  BY <1>4 DEF InHand, Crash, AtRest, vars
<1>. QED
  BY <1>1, <1>2, <1>3, <1>4 DEF Next, ReplayStep

LEMMA StepTraceable == Inv /\ [Next]_vars => Traceable'
<1>. SUFFICES ASSUME Inv, [Next]_vars PROVE Traceable'
  OBVIOUS
<1>. TypeOK /\ Traceable /\ InHand
  BY DEF Inv
<1>. USE DigestAssumption
<1>1. ASSUME NEW r \in Requests, Receive(r) \/ PrimaryAnswers(r) \/ MirrorCopy(r)
      PROVE  Traceable'
  BY <1>1 DEF TypeOK, Traceable, Kept, Receive, PrimaryAnswers, MirrorCopy, SpoolsFailure, files
<1>2. ASSUME NEW r \in Requests, Open(r) PROVE Traceable'
  BY <1>2, NoneAssumption DEF TypeOK, Traceable, Kept, Open
<1>3. ASSUME NEW r \in Requests, Write(r) \/ SaveFails(r) PROVE Traceable'
  BY <1>3 DEF TypeOK, Traceable, Kept, Write, SaveFails
<1>4. ASSUME NEW r \in Requests, Rename(r) PROVE Traceable'
  BY <1>4 DEF TypeOK, Traceable, Kept, Rename, Renamed
<1>5. CASE ReplayStep
  BY <1>5 DEF TypeOK, Traceable, Kept, InHand, ReplayStep, List, Read, ReplayAccepted,
              ReplayFails, Remove, files
<1>6. CASE Crash \/ UNCHANGED vars
  BY <1>6 DEF TypeOK, Traceable, Kept, Crash, InFlight, vars
<1>. QED
  BY <1>1, <1>2, <1>3, <1>4, <1>5, <1>6 DEF Next, Save

-----------------------------------------------------------------------------
(* Incomplete files.                                                       *)

LEMMA StepWhole == Inv /\ [Next]_vars => Whole'
<1>. SUFFICES ASSUME Inv, [Next]_vars PROVE Whole'
  OBVIOUS
<1>. TypeOK /\ Whole /\ InHand /\ Opened
  BY DEF Inv
<1>. USE DigestAssumption
<1>1. ASSUME NEW r \in Requests, Receive(r) \/ PrimaryAnswers(r) \/ MirrorCopy(r)
      PROVE  Whole'
  <2>1. UNCHANGED <<node, tmp, json, full, faults>>
    BY <1>1 DEF Receive, PrimaryAnswers, MirrorCopy, files
  <2>2. ASSUME NEW q \in Requests, copy[q] = "writing" PROVE copy'[q] = "writing"
    <3>1. copy[r] # "writing" \/ UNCHANGED copy
      BY <1>1 DEF Opened, Receive, PrimaryAnswers, MirrorCopy
    <3>. QED
      BY <1>1, <2>2, <3>1 DEF TypeOK, Receive, PrimaryAnswers, MirrorCopy
  <2>. QED
    BY <2>1, <2>2 DEF Whole, Sound, BeingWritten
<1>2. ASSUME NEW r \in Requests, Open(r) PROVE Whole'
  <2>1. PICK file \in Requests : /\ file = (IF tmp[Digest[r]] = None THEN r ELSE tmp[Digest[r]])
                                 /\ node' = [node EXCEPT ![r] = file]
                                 /\ tmp' = [tmp EXCEPT ![Digest[r]] = file]
                                 /\ full' = full \ {file}
                                 /\ copy' = [copy EXCEPT ![r] = "writing"]
                                 /\ UNCHANGED <<json, faults>>
    BY <1>2 DEF Open, TypeOK, Inode
  <2>2. BeingWritten(file)'
    BY <2>1 DEF TypeOK, BeingWritten
  <2>3. ASSUME NEW f, BeingWritten(f) PROVE BeingWritten(f)'
    BY <1>2, <2>1, <2>3 DEF TypeOK, BeingWritten, Open
  <2>4. ASSUME NEW f, Sound(f) PROVE f # None /\ f \notin full' => BeingWritten(f)'
    BY <2>1, <2>2, <2>3, <2>4 DEF Sound
  <2>. QED
    BY <2>1, <2>2, <2>4 DEF Whole, Sound, TypeOK
<1>3. ASSUME NEW r \in Requests, Write(r) PROVE Whole'
  <2>1. ASSUME NEW f, Sound(f) PROVE f # None /\ f \notin full' => BeingWritten(f)'
    BY <1>3, <2>1 DEF TypeOK, Write, Written, Sound, BeingWritten
  <2>. QED
    BY <1>3, <2>1 DEF Whole, Sound, Write
<1>4. ASSUME NEW r \in Requests, Rename(r) PROVE Whole'
  <2>1. ASSUME NEW f, Sound(f) PROVE f # None /\ f \notin full' => BeingWritten(f)'
    BY <1>4, <2>1 DEF TypeOK, Rename, Sound, BeingWritten
  <2>2. ASSUME NEW d \in Digests
        PROVE  /\ tmp'[d] \in {None, tmp[d]}
               /\ json'[d] \in {json[d], tmp[d]}
    BY <1>4 DEF TypeOK, Rename, Renamed
  <2>3. UNCHANGED faults
    BY <1>4 DEF Rename
  <2>. QED
    BY <2>1, <2>2, <2>3 DEF Whole, Sound
<1>5. CASE ReplayStep
  BY <1>5 DEF TypeOK, Whole, Sound, BeingWritten, ReplayStep, List, Read, ReplayAccepted,
              ReplayFails, Remove, InHand, files
<1>6. CASE Crash \/ \E r \in Requests : SaveFails(r)
  BY <1>6, FaultType DEF Crash, SaveFails, Whole
<1>7. CASE UNCHANGED vars
  BY <1>7 DEF Whole, Sound, BeingWritten, vars
<1>. QED
  BY <1>1, <1>2, <1>3, <1>4, <1>5, <1>6, <1>7 DEF Next, Save

-----------------------------------------------------------------------------
\* Every reachable state is well typed; copies fit the slots, are under one of their two
\* names or with the mirror, and incomplete files have a writer while nothing fails.
THEOREM MirrorInvariant == Spec => []Inv
<1>1. Inv /\ [Next]_vars => Inv'
  BY StepType, StepSlots, StepOpened, StepInHand, StepTraceable, StepWhole DEF Inv
<1>. QED
  BY <1>1, InitInv, PTL DEF Spec

\* No more copies than slots are in flight, and one that is done is with the mirror or on
\* disk, however Saves of one digest and its replay interleave (Save, replay).
THEOREM CopiesAreAccounted == Spec => []CopyAccounted
<1>1. Inv => CopyAccounted
  BY DEF Inv, Slots, Traceable, Kept, CopyAccounted
<1>. QED
  BY <1>1, MirrorInvariant, PTL

\* Until something fails a file under a final name that is not whole is still written:
\* the replay loop, which passes it over, comes back to it (Save).
THEOREM IncompleteIsWritten == Spec => []IncompleteIsTransient
<1>1. Inv => IncompleteIsTransient
  BY DEF Inv, Whole, Sound, BeingWritten, IncompleteIsTransient
<1>. QED
  BY <1>1, MirrorInvariant, PTL

\* A spool file is removed only if the mirror has accepted a copy of that digest (replay).
THEOREM RemovalIsSafe == Spec => RemovedIsMirrored
<1>1. ASSUME Inv, [Next]_vars, NEW d \in Digests, json[d] # None, json'[d] = None
      PROVE  d \in mirrored
  <2>. TypeOK /\ InHand
    BY <1>1 DEF Inv
  <2>1. CASE \E r \in Requests : Save(r)
    BY <1>1, <2>1, DigestAssumption DEF TypeOK, Save, Open, Write, Rename, Renamed
  <2>2. CASE Remove
    BY <1>1, <2>2 DEF TypeOK, InHand, Remove
  <2>3. CASE UNCHANGED json
    BY <1>1, <2>3
  <2>. QED
    BY <1>1, <2>1, <2>2, <2>3
    DEF Next, Receive, PrimaryAnswers, MirrorCopy, SaveFails, ReplayStep, List, Read,
        ReplayAccepted, ReplayFails, Crash, files, vars
<1>2. Inv /\ [Next]_vars => [\A d \in Digests : json[d] # None /\ json'[d] = None => d \in mirrored]_vars
  BY <1>1
<1>. QED
  BY <1>2, MirrorInvariant, PTL DEF Spec, RemovedIsMirrored
=============================================================================
