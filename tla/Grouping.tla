------------------------------- MODULE Grouping -------------------------------
(***************************************************************************)
(* Which Events are one Issue (app.go): decodeEvent as far as grouping goes, *)
(* and GroupingHashForVersion.  A hash is the sequence of its parts: SHA-256 *)
(* is taken to tell any two apart.                                          *)
(*                                                                          *)
(* A file is a name and the content hash a bundler puts into it, a message  *)
(* a text and the numbers, identifiers and URLs in it: normalizePath drops   *)
(* the hash, normalizePathV1 keeps it, normalizeMessage drops the numbers.   *)
(***************************************************************************)
EXTENDS Integers, Sequences, SequencesExt

CONSTANT
  Nothing,  \* the empty string
  Vendored  \* names of files below node_modules or webpack-internal

Frame(func, name, build, inApp) ==
  [func |-> func, file |-> [name |-> name, build |-> build], inApp |-> inApp]

\* The rendering function@file.
Culprit(frame) == [func |-> frame.func, file |-> frame.file]

Path(file)   == file.name
PathV1(file) == <<file.name, file.build>>

CulpritPart(culprit, PathOf(_)) ==
  IF culprit = Nothing THEN <<>> ELSE <<<<culprit.func, PathOf(culprit.file)>>>>

MessagePart(message) ==
  IF message = Nothing THEN Nothing ELSE message.text

-----------------------------------------------------------------------------
(* decodeEvent.                                                            *)

\* The culprit is the last frame of the exception, or what the SDK says; without a
\* message it is the message, too.
Decoded(raw) ==
  LET culprit == IF raw.exception = Nothing \/ raw.frames = <<>> THEN raw.culprit
                 ELSE Culprit(Last(raw.frames))
      asText == [text |-> CulpritPart(culprit, Path), number |-> 0] IN
  [exception |-> raw.exception,
   message |-> IF raw.message # Nothing THEN raw.message
               ELSE IF culprit = Nothing THEN Nothing ELSE asText,
   culprit |-> culprit, frames |-> raw.frames, symbolicated |-> <<>>,
   fingerprint |-> raw.fingerprint]

-----------------------------------------------------------------------------
(* groupingFrames.                                                         *)

InApp(frame) == frame.inApp /\ frame.file.name \notin Vendored

LastThree(frames) == SubSeq(frames, Max({1, Len(frames) - 2}), Len(frames))

\* The last three frames of the application, or the last three that say anything.
GroupingFrames(frames) ==
  LET said == SelectSeq(frames, LAMBDA f : f.func # Nothing \/ f.file.name # Nothing)
      own == SelectSeq(said, InApp) IN
  LastThree(IF own = <<>> THEN said ELSE own)

-----------------------------------------------------------------------------
(* GroupingHashForVersion.  The parts of a fingerprint, which are joined by *)
(* "|" and not hashed, are taken to hold no "|".                            *)

Default == "{{ default }}"
Custom(fingerprint) == fingerprint # <<>> /\ ~Contains(fingerprint, Default)

FrameParts(frames) ==
  FlattenSeq([k \in 1 .. Len(frames) |-> <<Path(frames[k].file), frames[k].func>>])

FrameV1(frame) == <<PathV1(frame.file), frame.func>>

\* Where the exception was symbolicated its last frame is all version 1 looks at;
\* otherwise the last frame, of the application or not, and the culprit.
PartsV1(event) ==
  IF event.exception = Nothing THEN CulpritPart(event.culprit, PathV1)
  ELSE <<event.exception>>
         \o (IF event.symbolicated # <<>> THEN FrameV1(Last(event.symbolicated))
             ELSE (IF event.frames = <<>> THEN <<>> ELSE FrameV1(Last(event.frames)))
                    \o CulpritPart(event.culprit, PathV1))

PartsV2(event) ==
  LET frames == IF event.symbolicated = <<>> THEN event.frames ELSE event.symbolicated IN
  (IF event.exception = Nothing THEN <<>>
   ELSE <<event.exception>> \o FrameParts(GroupingFrames(frames)))
    \o CulpritPart(event.culprit, Path)

\* A fingerprint of the SDK decides alone, unless it names the default anywhere.
GroupingHash(event, version) ==
  IF Custom(event.fingerprint) THEN <<"fp">> \o event.fingerprint
  ELSE <<version, MessagePart(event.message)>>
         \o (IF version = 1 THEN PartsV1(event) ELSE PartsV2(event))
=============================================================================
