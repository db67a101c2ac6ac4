----------------------------- MODULE RelayMirror -----------------------------
(***************************************************************************)
(* The relay (relay.go) and its mirror spool (mirror_spool.go): a request  *)
(* goes to the primary and, if one of the mirror slots is free, also to    *)
(* the mirror by a goroutine of its own; a failed copy is written to the   *)
(* spool directory, which one loop replays every 15 s.                     *)
(*                                                                         *)
(* One action is one network exchange or one file system call.             *)
(***************************************************************************)
EXTENDS Naturals, FiniteSets

CONSTANTS
  Requests,    \* POSTs of Envelopes that clients make
  Digests,     \* names of spool files: URL and body hashed
  Digest,      \* that of each request
  HeaderAuth,  \* digests whose requests authenticate by a header, not the URL
  MirrorSlots, \* copies in flight at most (32)
  MaxFaults    \* bound on crashes and failing writes

ASSUME DigestAssumption == Digest \in [Requests -> Digests] /\ HeaderAuth \subseteq Digests
ASSUME BoundAssumption  == MirrorSlots \in Nat \ {0} /\ MaxFaults \in Nat

None == "none"
ASSUME NoneAssumption == None \notin Requests

VARIABLES
  primary,    \* where the exchange of each request with the primary stands
  copy,       \* where the goroutine that mirrors it stands
  node,       \* the file each saving goroutine has open
  tmp,        \* the file under each digest's temporary name
  json,       \* the file under each digest's final name
  full,       \* files that hold a whole record
  replay,     \* the loop: names listed and not yet tried, the name in hand
  mirrored,   \* digests the mirror has accepted
  faults

vars == <<primary, copy, node, tmp, json, full, replay, mirrored, faults>>
files == <<node, tmp, json, full>>

\* A file is known by the request whose Save created it.
Inode == Requests \cup {None}

InFlight == {"sending", "opening", "writing", "renaming"}

Busy == {r \in Requests : copy[r] \in InFlight}

\* Every variable has its type, and no more copies are in flight than there are slots.
TypeOK ==
  /\ primary \in [Requests -> {"new", "sent", "answered", "failed"}]
  /\ copy \in [Requests -> InFlight \cup {"none", "dropped", "done", "lost"}]
  /\ node \in [Requests -> Inode]
  /\ tmp \in [Digests -> Inode] /\ json \in [Digests -> Inode]
  /\ full \subseteq Requests
  /\ replay \in [todo : SUBSET Digests, at : Digests \cup {None},
                 phase : {"idle", "sending", "removing"}]
  /\ mirrored \subseteq Digests
  /\ faults \in 0 .. MaxFaults

AtRest == [todo |-> {}, at |-> None, phase |-> "idle"]

Init ==
  /\ primary = [r \in Requests |-> "new"]
  /\ copy = [r \in Requests |-> "none"]
  /\ node = [r \in Requests |-> None]
  /\ tmp = [d \in Digests |-> None] /\ json = [d \in Digests |-> None]
  /\ full = {}
  /\ replay = AtRest
  /\ mirrored = {}
  /\ faults = 0

Fault == faults < MaxFaults /\ faults' = faults + 1

-----------------------------------------------------------------------------
(* The handler.                                                            *)

SlotFree == Cardinality(Busy) < MirrorSlots

\* The copy is started, or dropped for want of a slot, before the primary is asked.
Receive(r) ==
  /\ primary[r] = "new"
  /\ primary' = [primary EXCEPT ![r] = "sent"]
  /\ copy' = [copy EXCEPT ![r] = IF SlotFree THEN "sending" ELSE "dropped"]
  /\ UNCHANGED <<files, replay, mirrored, faults>>

PrimaryAnswers(r) ==
  /\ primary[r] = "sent"
  /\ \E result \in {"answered", "failed"} : primary' = [primary EXCEPT ![r] = result]
  /\ UNCHANGED <<copy, files, replay, mirrored, faults>>

\* mirrorRelayRequest: anything below 400 is final, a refusal or an error goes to
\* the spool, although the mirror may have accepted a copy whose answer is lost.
SpoolsErrorsOnly(refused) == IF refused THEN "done" ELSE "opening"
SpoolsFailure(refused) == "opening"

MirrorCopy(r) ==
  /\ copy[r] = "sending"
  /\ \/ /\ copy' = [copy EXCEPT ![r] = "done"]
        /\ mirrored' = mirrored \cup {Digest[r]}
     \/ /\ copy' = [copy EXCEPT ![r] = SpoolsFailure(TRUE)]
        /\ UNCHANGED mirrored
     \/ /\ copy' = [copy EXCEPT ![r] = SpoolsFailure(FALSE)]
        /\ mirrored' \in {mirrored, mirrored \cup {Digest[r]}}
  /\ UNCHANGED <<primary, files, replay, faults>>

-----------------------------------------------------------------------------
(* MirrorSpool.Save.                                                       *)

\* os.WriteFile opens and truncates the temporary name, which a concurrent Save
\* of the same digest has perhaps created and is still writing.
Open(r) ==
  LET d == Digest[r]
      file == IF tmp[d] = None THEN r ELSE tmp[d] IN
  /\ copy[r] = "opening"
  /\ node' = [node EXCEPT ![r] = file]
  /\ tmp' = [tmp EXCEPT ![d] = file]
  /\ full' = full \ {file}
  /\ copy' = [copy EXCEPT ![r] = "writing"]
  /\ UNCHANGED <<primary, json, replay, mirrored, faults>>

WrittenShort(r) == full
Written(r) == full \cup {node[r]}

\* The open file is written, whatever name it has by now.
Write(r) ==
  /\ copy[r] = "writing"
  /\ full' = Written(r)
  /\ copy' = [copy EXCEPT ![r] = "renaming"]
  /\ UNCHANGED <<primary, node, tmp, json, replay, mirrored, faults>>

\* os.Rename moves what the temporary name holds now; if a concurrent Save has
\* moved it already the error is ignored.
Renamed(r, d) == IF tmp[d] = None THEN json[d] ELSE tmp[d]

Rename(r) ==
  LET d == Digest[r] IN
  /\ copy[r] = "renaming"
  /\ json' = [json EXCEPT ![d] = Renamed(r, d)]
  /\ tmp' = [tmp EXCEPT ![d] = None]
  /\ node' = [node EXCEPT ![r] = None]
  /\ copy' = [copy EXCEPT ![r] = "done"]
  /\ UNCHANGED <<primary, full, replay, mirrored, faults>>

\* A full or failing disk: Save's error is ignored.
SaveFails(r) ==
  /\ copy[r] \in {"opening", "writing", "renaming"}
  /\ Fault
  /\ copy' = [copy EXCEPT ![r] = "lost"]
  /\ node' = [node EXCEPT ![r] = None]
  /\ UNCHANGED <<primary, tmp, json, full, replay, mirrored>>

-----------------------------------------------------------------------------
(* MirrorSpool.replay.                                                     *)

List ==
  /\ replay = AtRest
  /\ \E d \in Digests : json[d] # None
  /\ replay' = [AtRest EXCEPT !.todo = {d \in Digests : json[d] # None}]
  /\ UNCHANGED <<primary, copy, files, mirrored, faults>>

Readable(d) == json[d] # None /\ json[d] \in full

\* A file that is gone or does not decode is passed over.
Read(d) ==
  /\ replay.phase = "idle" /\ d \in replay.todo
  /\ replay' = IF Readable(d)
               THEN [todo |-> replay.todo \ {d}, at |-> d, phase |-> "sending"]
               ELSE [replay EXCEPT !.todo = @ \ {d}]
  /\ UNCHANGED <<primary, copy, files, mirrored, faults>>

\* The mirror knows a copy by its credentials, and Save keeps no header that holds
\* any.
Accepts(d) == d \notin HeaderAuth

ReplayAccepted ==
  /\ replay.phase = "sending" /\ Accepts(replay.at)
  /\ mirrored' = mirrored \cup {replay.at}
  /\ replay' = [replay EXCEPT !.phase = "removing"]
  /\ UNCHANGED <<primary, copy, files, faults>>

RetriedInPlace(loop) == loop
RemovedAnyway(loop) == [loop EXCEPT !.phase = "removing"]
AfterFailure(loop)  == [loop EXCEPT !.at = None, !.phase = "idle"]

\* A refusal, or an error after which the mirror may still have it.
ReplayFails ==
  /\ replay.phase = "sending"
  /\ mirrored' \in {mirrored} \cup {mirrored \cup {d} : d \in {replay.at} \ HeaderAuth}
  /\ replay' = AfterFailure(replay)
  /\ UNCHANGED <<primary, copy, files, faults>>

Remove ==
  /\ replay.phase = "removing"
  /\ json' = [json EXCEPT ![replay.at] = None]
  /\ replay' = [replay EXCEPT !.at = None, !.phase = "idle"]
  /\ UNCHANGED <<primary, copy, node, tmp, full, mirrored, faults>>

\* The process dies or is shut down: main waits for handlers, never for mirroring
\* goroutines.  It starts again with empty slots and the same directory.
Crash ==
  /\ Fault
  /\ primary' = [r \in Requests |-> IF primary[r] = "sent" THEN "failed" ELSE primary[r]]
  /\ copy' = [r \in Requests |-> IF copy[r] \in InFlight THEN "lost" ELSE copy[r]]
  /\ node' = [r \in Requests |-> None]
  /\ replay' = AtRest
  /\ UNCHANGED <<tmp, json, full, mirrored>>

-----------------------------------------------------------------------------
Save(r) == Open(r) \/ Write(r) \/ Rename(r)

ReplayStep == List \/ (\E d \in Digests : Read(d)) \/ ReplayAccepted \/ ReplayFails \/ Remove

Next ==
  \/ \E r \in Requests : Receive(r) \/ PrimaryAnswers(r) \/ MirrorCopy(r) \/ Save(r) \/ SaveFails(r)
  \/ ReplayStep
  \/ Crash

Spec == Init /\ [][Next]_vars

\* Goroutines and the loop run on; the mirror, asked again and again, answers 2xx
\* some time to a copy it can authenticate.
Fairness ==
  /\ \A r \in Requests : WF_vars(MirrorCopy(r)) /\ WF_vars(Save(r))
  /\ WF_vars(ReplayStep)
  /\ \A d \in Digests : SF_vars(replay.at = d /\ ReplayAccepted) /\ SF_vars(Read(d))

FairSpec == Spec /\ Fairness

-----------------------------------------------------------------------------
(* Safety.                                                                 *)

\* No more copies are in flight than slots.  One that was neither dropped for capacity
\* nor lost with its process or disk is with the mirror or on disk in the end, however
\* Saves of one digest and the replay of it interleave (Save, replay).
CopyAccounted ==
  /\ Cardinality(Busy) <= MirrorSlots
  /\ \A r \in Requests : copy[r] = "done" => Digest[r] \in mirrored \/ json[Digest[r]] # None

\* The replay loop passes over a file it cannot decode, so an incomplete file under
\* a final name must be one that a Save still writes, unless a fault struck.
IncompleteIsTransient ==
  \A d \in Digests : json[d] # None /\ json[d] \notin full /\ faults = 0 =>
    \E r \in Requests : copy[r] = "writing" /\ node[r] = json[d]

\* Only what the mirror has is removed from the spool (replay removes by name, so a
\* file that was saved after the one it sent goes with it).
RemovedIsMirrored ==
  [][\A d \in Digests : json[d] # None /\ json'[d] = None => d \in mirrored]_vars

-----------------------------------------------------------------------------
(* Liveness.                                                               *)

Spooled(d) == Readable(d) /\ \A r \in Requests : Digest[r] = d => copy[r] \notin InFlight

\* A copy on disk whose URL authenticates reaches the mirror, although others that
\* are refused for ever stay in the same directory.
SpoolDrains == \A d \in Digests \ HeaderAuth : Spooled(d) ~> d \in mirrored
=============================================================================
