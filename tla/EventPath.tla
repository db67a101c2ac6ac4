------------------------------- MODULE EventPath -------------------------------
(***************************************************************************)
(* One Envelope from the client through the relay (relay.go) and the server *)
(* (app.go, Ingest) to the worker that decodes its Events, symbolicates them *)
(* frame by frame and groups them, while source maps are uploaded.  It       *)
(* composes Envelope, SourceMaps and Grouping; whether a job is processed at *)
(* all is IngestQueue, what its hashes become is IssueAggregation.           *)
(***************************************************************************)
EXTENDS Envelope

CONSTANTS
  Vendored,
  Sent,      \* what the client may send, each with a configuration
  RawEvents, \* the Events the payloads are
  Tables,    \* the source map of each build of the application
  Sources,   \* what its source indexes stand for
  Names      \* and its name indexes

\* Nothing is also an empty string, a mapping without a name and a map nobody uploaded.
INSTANCE SourceMaps WITH NoName <- Nothing
INSTANCE Grouping

Builds == DOMAIN Tables

\* What the server makes of the file of a build.
Uploaded(b) == DecodeMappings(Encoded(Tables[b]))

NameOf(m) == IF m.name \in 0 .. Len(Names) - 1 THEN Names[m.name + 1] ELSE Nothing

\* The frame of the source that a decoded map has for one of the bundle, or Nothing.
Resolved(frame, lines) ==
  LET m == Position(lines, Len(Sources), frame.line, frame.column) IN
  IF m = Nothing THEN Nothing ELSE Frame(NameOf(m), Sources[m.source + 1], Nothing, TRUE)

\* Where a frame is in the source, as the build wrote it.
Original(e, k) == Resolved(RawEvents[e].frames[k], Tables[RawEvents[e].build])

\* Frames are those of the exception, each of which reads function@file.
RawFrames == UNION {Range(RawEvents[e].frames) : e \in DOMAIN RawEvents}

ASSUME FramesAssumption ==
  /\ \A e \in DOMAIN RawEvents :
       /\ RawEvents[e].frames \in Seq(RawFrames) /\ RawEvents[e].build \in Builds
       /\ RawEvents[e].frames # <<>> => RawEvents[e].exception # Nothing
  /\ \A f \in RawFrames : Culprit(f) # Nothing

\* Two Events are one error if the SDK gave them one fingerprint, or if they say the same
\* and their frames are those of one place in the source.
OneError(e, f) ==
  LET raw == RawEvents[e]
      other == RawEvents[f] IN
  /\ raw.fingerprint = other.fingerprint
  /\ \/ Custom(raw.fingerprint)
     \/ /\ raw.exception = other.exception /\ raw.culprit = other.culprit
        /\ MessagePart(raw.message) = MessagePart(other.message)
        /\ Len(raw.frames) = Len(other.frames)
        /\ \A k \in 1 .. Len(raw.frames) : Original(e, k) = Original(f, k)

ASSUME OriginAssumption ==
  \A e, f \in DOMAIN RawEvents : RawEvents[e].origin = RawEvents[f].origin => OneError(e, f)

VARIABLES
  settings,  \* of relay, server and worker, and the maps that are uploaded
  intended,  \* the items the client means, and if it declares their lengths
  body, packed,
  stage,     \* who has the Envelope
  items, at, \* the items of the worker and the one it is at
  event,     \* the Event of that item, while it is worked at
  artifacts, \* the decoded map of each build
  grouped    \* the Events that have their hash

pathVars == <<settings, intended, body, packed, stage, items, at, event, artifacts, grouped>>

\* The client writes a header and a payload for each item.
Declared(item) ==
  <<Header(item.type, IF item.declared THEN Len(item.payload) ELSE Nothing, item.text, item.id)>>
    \o (IF item.payload = <<>> THEN <<Blank>> ELSE item.payload)

Serialized(sent) ==
  <<Json("envelope header")>> \o FlattenSeq([k \in 1 .. Len(sent) |-> Declared(sent[k])])

PathTypeOK ==
  /\ stage \in {"relay", "policy", "server", "stored", "working", "refused"}
  /\ packed \in BOOLEAN
  /\ \A k \in 1 .. Len(items) : items[k].type \in Types
  /\ at \in 0 .. Len(items) + 1
  /\ DOMAIN artifacts = Builds

PathInit ==
  /\ \E s \in Sent :
       /\ settings = s.config /\ intended = s.items
       /\ body = Serialized(s.items) /\ packed = s.config.gzip
  /\ stage = "relay"
  /\ items = <<>> /\ at = 0
  /\ event = Nothing
  /\ artifacts = [b \in Builds |-> Nothing]
  /\ grouped = <<>>

Worker == <<items, at, event, artifacts, grouped>>

-----------------------------------------------------------------------------
(* The relay.  It unpacks a body only to scrub it.                         *)

Advance(result, next) ==
  /\ body' = result.body
  /\ stage' = IF result.ok THEN next ELSE "refused"

RelayScrubs ==
  /\ stage = "relay"
  /\ IF settings.relayPII
     THEN Advance(Scrub(body, settings.remove), "policy") /\ packed' = FALSE
     ELSE stage' = "policy" /\ UNCHANGED <<body, packed>>
  /\ UNCHANGED <<settings, intended, Worker>>

\* The lines of a compressed body are no item headers.
RelayFilters ==
  /\ stage = "policy"
  /\ IF packed /\ DOMAIN settings.policy # {}
     THEN stage' = "refused" /\ UNCHANGED body
     ELSE Advance(ApplyItemPolicy(body, settings.policy, settings.kept), "server")
  /\ UNCHANGED <<settings, intended, packed, Worker>>

-----------------------------------------------------------------------------
(* The server scrubs in the handler and again in Ingest, which also parses.*)

ServerIngests ==
  LET once == IF settings.serverPII THEN Scrub(body, settings.remove)
              ELSE [ok |-> TRUE, body |-> body]
      twice == IF settings.serverPII /\ once.ok THEN Scrub(once.body, settings.remove) ELSE once IN
  /\ stage = "server"
  /\ Advance([twice EXCEPT !.ok = @ /\ Parse(twice.body).ok], "stored")
  /\ packed' = FALSE
  /\ UNCHANGED <<settings, intended, Worker>>

-----------------------------------------------------------------------------
(* The worker.                                                             *)

TakeJob ==
  /\ stage = "stored"
  /\ stage' = "working" /\ items' = Parse(body).items /\ at' = 1
  /\ UNCHANGED <<settings, intended, body, packed, event, artifacts, grouped>>

IsEvent(item) == /\ item.type \in Errors
                 /\ Len(item.payload) = 1 /\ item.payload[1].kind = "json"
                 /\ item.payload[1].value \in DOMAIN RawEvents

\* Items of other kinds are stored, ones that do not decode are skipped.
NextItem ==
  /\ stage = "working" /\ event = Nothing /\ at <= Len(items)
  /\ IF IsEvent(items[at])
     THEN /\ event' = [of |-> items[at].payload[1].value, frame |-> 1,
                       data |-> Decoded(RawEvents[items[at].payload[1].value])]
          /\ at' = at
     ELSE event' = Nothing /\ at' = at + 1
  /\ UNCHANGED <<settings, intended, body, packed, stage, items, artifacts, grouped>>

\* Each frame is looked up in the maps of that moment.
Mapped(frame, build) ==
  IF artifacts[build] = Nothing THEN Nothing ELSE Resolved(frame, artifacts[build])

\* Broken on purpose: a variant the checks must refute.
CulpritKept(data, frame, mapped) == data

\* The memory backend lets the culprit follow the frame it was, PostgreSQL does not.
CulpritFollows(data, frame, mapped) ==
  IF settings.backend = "memory" /\ data.culprit \in {Nothing, Culprit(frame)}
  THEN [data EXCEPT !.culprit = Culprit(mapped)] ELSE data

SymbolicateFrame ==
  LET data == event.data
      frame == data.frames[event.frame]
      mapped == Mapped(frame, RawEvents[event.of].build)
      longer == [data EXCEPT !.symbolicated = Append(data.symbolicated, mapped)] IN
  /\ event # Nothing /\ event.frame <= Len(data.frames)
  /\ event' = [event EXCEPT
       !.frame = @ + 1,
       !.data = IF mapped = Nothing THEN data ELSE CulpritFollows(longer, frame, mapped)]
  /\ UNCHANGED <<settings, intended, body, packed, stage, items, at, artifacts, grouped>>

Group ==
  /\ event # Nothing /\ event.frame > Len(event.data.frames)
  /\ grouped' = Append(grouped, [of |-> event.of, data |-> event.data,
                                 hash |-> GroupingHash(event.data, settings.version)])
  /\ event' = Nothing /\ at' = at + 1
  /\ UNCHANGED <<settings, intended, body, packed, stage, items, artifacts>>

-----------------------------------------------------------------------------
(* An upload.  A file that does not decode is refused.                     *)

Upload(b) ==
  /\ b \in settings.uploads /\ artifacts[b] = Nothing
  /\ Uploaded(b).ok
  /\ artifacts' = [artifacts EXCEPT ![b] = Uploaded(b).lines]
  /\ UNCHANGED <<settings, intended, body, packed, stage, items, at, event, grouped>>

PathNext ==
  \/ RelayScrubs \/ RelayFilters \/ ServerIngests
  \/ TakeJob \/ NextItem \/ SymbolicateFrame \/ Group
  \/ \E b \in Builds : Upload(b)

PathSpec == PathInit /\ [][PathNext]_pathVars

-----------------------------------------------------------------------------
(* Safety.                                                                 *)

Meant == [k \in 1 .. Len(intended) |-> Item(intended[k], intended[k].payload)]

ScrubbedBy(side, sequence) == IF side THEN ScrubbedItems(sequence, settings.remove) ELSE sequence

\* The policy sees what the relay has scrubbed.
ToStore ==
  LET atPolicy == ScrubbedBy(settings.relayPII, Meant) IN
  ScrubbedBy(settings.serverPII,
             IF DOMAIN settings.policy = {} THEN atPolicy
             ELSE SelectSeq(atPolicy, LAMBDA item : Stored(item, settings.policy, settings.kept)))

\* Where parseEnvelope reads what was meant: a length, an Event, or the last item; and
\* no payload that is empty or that scrubbing empties, as its length reads as none.
Legible(k) ==
  LET scrubbed == ScrubbedBy(settings.relayPII \/ settings.serverPII, Meant) IN
  \/ k = Len(intended)
  \/ /\ intended[k].payload # <<>> /\ scrubbed[k].payload # <<>>
     /\ intended[k].declared \/ intended[k].type \in Errors

\* The worker sees the items the client meant, scrubbed, without the ones the policy
\* drops and in their order, however often the Envelope was rebuilt on the way
\* (ScrubEnvelope in relay, handler and Ingest, ApplyItemPolicy, parseEnvelope).
ItemsArrive ==
  stage = "working" /\ (\A k \in 1 .. Len(intended) : Legible(k)) => items = ToStore

\* An Envelope that a client has written is refused nowhere on its way, except by a
\* relay that filters without unpacking: no rebuilt body is worse than its original.
RefusedOnlyPacked ==
  stage = "refused" => settings.gzip /\ ~settings.relayPII /\ DOMAIN settings.policy # {}

\* A source map that was accepted says what the build wrote into it: sums run over its
\* lines, generated columns start again with each (decodeMappings, decodeVLQ).
MapsDecoded == \A b \in Builds : artifacts[b] # Nothing => artifacts[b] = Tables[b]

Origin(g) == RawEvents[g.of].origin
Whole(g) == Len(g.data.symbolicated) = Len(g.data.frames)

\* In the bundle no other frame reads like the last one.
Distinct(g) ==
  LET frames == g.data.frames IN
  \A k \in 1 .. Len(frames) - 1 : Culprit(frames[k]) # Culprit(Last(frames))

\* One error in two builds is one Issue once all its frames are mapped and the SDK gave
\* a message: neither names nor files of the bundle are left in the hash (symbolicate
\* of the memory backend, GroupingHashForVersion; PostgreSQL keeps the culprit of the
\* bundle, which only version 1 leaves out).
BuildsGroupTogether ==
  \A i, j \in 1 .. Len(grouped) :
    LET both == {grouped[i], grouped[j]} IN
    /\ Origin(grouped[i]) = Origin(grouped[j])
    /\ \A g \in both : Whole(g) /\ RawEvents[g.of].message # Nothing
    /\ settings.version = 1 \/ (settings.backend = "memory" /\ \A g \in both : Distinct(g))
    => grouped[i].hash = grouped[j].hash
=============================================================================
