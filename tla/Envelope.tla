------------------------------- MODULE Envelope -------------------------------
(***************************************************************************)
(* Envelopes as the code reads and rewrites them: parseEnvelope (app.go),   *)
(* the scrubbing of PII (pii.go) and the item policy (item_policy.go).      *)
(*                                                                          *)
(* A body is a sequence of lines, and a length counts lines: a payload of n *)
(* lines is n lines long, the empty one is followed by a blank line.  What  *)
(* a line says is a value and whether that was scrubbed.                    *)
(***************************************************************************)
EXTENDS Integers, Sequences, SequencesExt

CONSTANTS
  Nothing,  \* no length, no identifier
  Types,    \* types of items, the known ones and others
  Errors,   \* types whose payload is an Event: event and error
  Known     \* types the server has a use for

ASSUME TypesAssumption == Errors \subseteq Known /\ Known \subseteq Types /\ Nothing \notin Types

\* An item header may name a length and an identifier; text says if its content type
\* or file name makes an attachment text.
Header(type, length, text, id) ==
  [kind |-> "header", type |-> type, length |-> length, text |-> text, id |-> id]
Json(value) == [kind |-> "json", value |-> value, clean |-> FALSE]
Text(value) == [kind |-> "text", value |-> value, clean |-> FALSE]
Blank       == [kind |-> "blank"]

Item(header, payload) ==
  [type |-> header.type, payload |-> payload, text |-> header.text, id |-> header.id]

Broken == [ok |-> FALSE, items |-> <<>>]
Parsed(items) == [ok |-> TRUE, items |-> items]
Prepend(item, parsed) == IF parsed.ok THEN Parsed(<<item>> \o parsed.items) ELSE Broken

IsBlank(line) == line.kind = "blank"
IsJson(line)  == line.kind \in {"json", "header"}

\* TrimSpace.
Trimmed(lines) ==
  LET full == {k \in 1 .. Len(lines) : ~IsBlank(lines[k])} IN
  IF full = {} THEN <<>> ELSE SubSeq(lines, Min(full), Max(full))

-----------------------------------------------------------------------------
(* parseEnvelope.                                                          *)

\* Broken on purpose, as LengthLeft below: variants the checks must refute.
HasLengthUnread(header) == FALSE

\* The zero value of a header without a length is also what a length of 0 reads as.
HasLength(header) == header.length # Nothing /\ header.length > 0

Rest(body, i) == Trimmed(SubSeq(body, i, Len(body)))

\* The first line is the header of the Envelope and is not looked at.
Parse(body) ==
  LET
    From[i \in 2 .. Len(body) + 1] ==
      LET h == body[i]
          line == SelectInSubSeq(body, i + 1, Len(body), LAMBDA l : ~IsBlank(l))
          end == i + h.length IN
      CASE i > Len(body) -> Parsed(<<>>)
        [] IsBlank(h) -> From[i + 1]
        [] h.kind # "header" -> Broken
        [] HasLength(h) ->
             IF end > Len(body) THEN Broken
             ELSE Prepend(Item(h, SubSeq(body, i + 1, end)), From[end + 1])
        \* An Event without a length is one JSON value.
        [] h.type \in Errors ->
             IF line = 0 \/ ~IsJson(body[line]) THEN Broken
             ELSE Prepend(Item(h, <<body[line]>>), From[line + 1])
        \* Anything else takes the rest of the body.
        [] OTHER -> Parsed(<<Item(h, Rest(body, i + 1))>>)
  IN IF Trimmed(body) = <<>> THEN Broken ELSE From[2]

-----------------------------------------------------------------------------
(* Bodies that are written anew.                                           *)

LengthLeft(item) == 1
NewLength(item) == Len(item.payload)

Written(item) ==
  <<Header(item.type, NewLength(item), item.text, item.id)>>
    \o (IF item.payload = <<>> THEN <<Blank>> ELSE item.payload)

Rebuilt(body, items) ==
  <<body[1]>> \o FlattenSeq([k \in 1 .. Len(items) |-> Written(items[k])])

-----------------------------------------------------------------------------
(* ScrubEnvelope.                                                          *)

Clean(line) == IF line.kind \in {"json", "text"} THEN [line EXCEPT !.clean = TRUE] ELSE line

\* A rule with the action remove takes a whole match out of a text.
ScrubbedText(line, remove) ==
  IF remove /\ line.kind = "text" /\ line.value = "secret" THEN Blank ELSE Clean(line)

\* JSON is scrubbed value by value and stays JSON; a text line by line, and a single
\* line that goes leaves nothing; bytes that are neither stay as they are.
ScrubbedPayload(item, remove) ==
  LET lines == [k \in 1 .. Len(item.payload) |-> ScrubbedText(item.payload[k], remove)] IN
  CASE Len(item.payload) = 1 /\ IsJson(item.payload[1]) -> <<Clean(item.payload[1])>>
    [] item.text -> IF lines = <<Blank>> THEN <<>> ELSE lines
    [] OTHER -> item.payload

ScrubbedItem(item, remove) == [item EXCEPT !.payload = ScrubbedPayload(item, remove)]
ScrubbedItems(items, remove) == [k \in 1 .. Len(items) |-> ScrubbedItem(items[k], remove)]

Scrub(body, remove) ==
  LET parsed == Parse(body) IN
  IF parsed.ok THEN [ok |-> TRUE, body |-> Rebuilt(body, ScrubbedItems(parsed.items, remove))]
  ELSE [ok |-> FALSE, body |-> body]

-----------------------------------------------------------------------------
(* ApplyItemPolicy.  A policy says store, drop or sample for some types; of  *)
(* what is sampled, some identifiers and digests of payloads are kept.      *)

\* By its identifier, or the digest of its payload.
SampleKey(item) == [id |-> item.id, payload |-> IF item.id = Nothing THEN item.payload ELSE <<>>]

Stored(item, policy, kept) ==
  IF item.type \notin DOMAIN policy THEN item.type \in Known
  ELSE \/ policy[item.type] = "store"
       \/ policy[item.type] = "sample" /\ SampleKey(item) \in kept

ApplyItemPolicy(body, policy, kept) ==
  LET parsed == Parse(body) IN
  CASE DOMAIN policy = {} -> [ok |-> TRUE, body |-> body]
    [] parsed.ok ->
         [ok |-> TRUE, body |-> Rebuilt(body, SelectSeq(parsed.items, LAMBDA item : Stored(item, policy, kept)))]
    [] OTHER -> [ok |-> FALSE, body |-> body]
=============================================================================
