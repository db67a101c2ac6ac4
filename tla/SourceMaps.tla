------------------------------ MODULE SourceMaps ------------------------------
(***************************************************************************)
(* Source maps (sourcemap.go): the mappings of a file, differences written  *)
(* as base64 VLQ, decoded into a table, and the original position of a      *)
(* frame.  A file is a sequence of lines, a line of segments, a segment of  *)
(* the values 0 .. 63 of its characters.                                    *)
(*                                                                          *)
(* Encoded is the reference: what the format says of a table, written from  *)
(* the table and not from the decoder.                                      *)
(***************************************************************************)
EXTENDS Integers, Sequences, SequencesExt

CONSTANT NoName   \* the name of a mapping that has none, the source of code that has none

Failed == [ok |-> FALSE, lines |-> <<>>]

-----------------------------------------------------------------------------
(* The format.                                                             *)

Digits == [v \in 0 .. 2047 |->
  CASE v < 32 -> <<v>>
    [] v < 1024 -> <<32 + (v % 32), v \div 32>>
    [] OTHER -> <<32 + (v % 32), 32 + ((v \div 32) % 32), v \div 1024>>]

VLQ(n) == Digits[IF n < 0 THEN 1 - 2 * n ELSE 2 * n]

Places(table) == UNION {{l} \X DOMAIN table[l] : l \in DOMAIN table}
At(table, p) == table[p[1]][p[2]]
Earlier(p, q) == p[1] < q[1] \/ (p[1] = q[1] /\ p[2] < q[2])

\* The value of a field in the last mapping before a place that is in S, or 0.
Before(table, p, S, Field(_)) ==
  LET earlier == {q \in S : Earlier(q, p)} IN
  IF earlier = {} THEN 0
  ELSE Field(At(table, CHOOSE q \in earlier : \A r \in earlier : r = q \/ Earlier(r, q)))

Segment(table, p) ==
  LET m == At(table, p)
      all == Places(table)
      sameLine == {q \in all : q[1] = p[1]}
      mapped == {q \in all : At(table, q).source # NoName}
      named == {q \in mapped : At(table, q).name # NoName} IN
  VLQ(m.gen - Before(table, p, sameLine, LAMBDA x : x.gen))
    \o (IF m.source = NoName THEN <<>>
        ELSE VLQ(m.source - Before(table, p, mapped, LAMBDA x : x.source))
               \o VLQ(m.line - Before(table, p, mapped, LAMBDA x : x.line))
               \o VLQ(m.column - Before(table, p, mapped, LAMBDA x : x.column))
               \o (IF m.name = NoName THEN <<>>
                   ELSE VLQ(m.name - Before(table, p, named, LAMBDA x : x.name))))

Encoded(table) ==
  [l \in 1 .. Len(table) |-> [s \in 1 .. Len(table[l]) |-> Segment(table, <<l, s>>)]]

-----------------------------------------------------------------------------
(* decodeVLQ.                                                              *)

Signed(value) == IF value % 2 = 1 THEN - (value \div 2) ELSE value \div 2

Digit(state, digit) ==
  LET current == state.current + (digit % 32) * 2 ^ state.shift IN
  IF digit >= 32 THEN [state EXCEPT !.current = current, !.shift = @ + 5]
  ELSE [current |-> 0, shift |-> 0, values |-> Append(state.values, Signed(current))]

\* Values, of which a segment needs four, and none that is cut off.
DecodeVLQ(segment) ==
  LET end == FoldLeft(Digit, [current |-> 0, shift |-> 0, values |-> <<>>], segment) IN
  [ok |-> end.shift = 0, values |-> end.values]

-----------------------------------------------------------------------------
(* decodeMappings: running sums, of which only the generated column starts  *)
(* again with every line.                                                   *)

Start == [ok |-> TRUE, lines |-> <<>>, gen |-> 0, source |-> 0, line |-> 0, column |-> 0, name |-> 0]

SegmentRead(state, segment) ==
  LET v == DecodeVLQ(segment)
      values == v.values
      named == Len(values) >= 5
      next == [state EXCEPT !.gen = @ + values[1], !.source = @ + values[2],
                            !.line = @ + values[3], !.column = @ + values[4],
                            !.name = IF named THEN @ + values[5] ELSE @]
      mapping == [gen |-> next.gen, source |-> next.source, line |-> next.line,
                  column |-> next.column, name |-> IF named THEN next.name ELSE NoName] IN
  \* A segment of one value, code without a source, fails the whole map.
  IF ~state.ok \/ ~v.ok \/ Len(values) < 4 THEN [state EXCEPT !.ok = FALSE]
  ELSE [next EXCEPT !.lines[Len(next.lines)] = Append(@, mapping)]

\* Broken on purpose: a variant the checks must refute.
SameLine(state) == [state EXCEPT !.lines = Append(@, <<>>)]

NewLine(state) == [state EXCEPT !.lines = Append(@, <<>>), !.gen = 0]

LineRead(state, line) == FoldLeft(SegmentRead, NewLine(state), line)

DecodeMappings(file) ==
  LET end == FoldLeft(LineRead, Start, file) IN
  IF end.ok THEN [ok |-> TRUE, lines |-> end.lines] ELSE Failed

-----------------------------------------------------------------------------
(* SourceMap.Map: the last mapping before the first one that is past the     *)
(* column.                                                                  *)

Best(mappings, column) ==
  LET past == SelectInSeq(mappings, LAMBDA m : m.gen > column) IN
  IF past = 0 THEN Len(mappings) ELSE past - 1

\* The mapping of a position, or nothing: no such line, none before the column, or a
\* source the map does not list.
Position(lines, sources, line, column) ==
  LET best == Best(lines[line], column) IN
  IF line \notin 1 .. Len(lines) THEN NoName
  ELSE IF best = 0 \/ lines[line][best].source \notin 0 .. sources - 1 THEN NoName
  ELSE lines[line][best]
=============================================================================
