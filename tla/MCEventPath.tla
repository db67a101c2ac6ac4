----------------------------- MODULE MCEventPath -----------------------------
(* Two families of Envelopes: all sequences of a few items under every way to *)
(* scrub and filter them, and pairs of Events of two builds whose maps are    *)
(* uploaded meanwhile.                                                        *)
EXTENDS EventPath

MCTypes  == {"event", "attachment", "log", "profile"}
MCErrors == {"event"}
MCKnown  == {"event", "attachment", "log"}

MCVendored == {"react"}
MCSources  == <<"view", "react">>
MCNames    == <<"draw", "render">>

Map(gen, source, line, column, name) ==
  [gen |-> gen, source |-> source, line |-> line, column |-> column, name |-> name]

\* The second line of b1 is at other columns of b2, whose lines are swapped; a column
\* needs two characters, a line a negative one.  In b3 some code has no source.
MCTables == [
  b1 |-> << <<Map(0, 1, 40, 2, 1), Map(9, 0, 3, 1, Nothing)>>,
            <<Map(2, 0, 3, 4, 0), Map(70, 1, 40, 2, 1)>> >>,
  b2 |-> << <<Map(5, 0, 3, 4, 0), Map(6, 1, 40, 2, 1)>>, <<>>,
            <<Map(1, 0, 3, 1, Nothing)>> >>,
  b3 |-> << <<Map(0, Nothing, 0, 0, Nothing), Map(3, 0, 1, 1, 0)>> >>]

At3(func, build, line, column) ==
  [func |-> func, file |-> [name |-> "app", build |-> build], inApp |-> TRUE,
   line |-> line, column |-> column]

Raw(message, frames, build, origin) ==
  [exception |-> "TypeError", message |-> message, culprit |-> Nothing, frames |-> frames,
   fingerprint |-> <<>>, build |-> build, origin |-> origin]

Boom(n) == [text |-> "boom", number |-> n]

\* One error in two builds; again, but in b1 both functions have one short name; and
\* without a message.
MCRawEvents == [
  e1 |-> Raw(Boom(1), <<At3("a", "b1", 2, 71), At3("b", "b1", 2, 3)>>, "b1", "draw"),
  e2 |-> Raw(Boom(2), <<At3("x", "b2", 1, 6), At3("y", "b2", 1, 5)>>, "b2", "draw"),
  r1 |-> Raw(Boom(1), <<At3("a", "b1", 2, 71), At3("a", "b1", 2, 3)>>, "b1", "short"),
  r2 |-> Raw(Boom(1), <<At3("x", "b2", 1, 6), At3("y", "b2", 1, 5)>>, "b2", "short"),
  m1 |-> Raw(Nothing, <<At3("b", "b1", 2, 3)>>, "b1", "silent"),
  m2 |-> Raw(Nothing, <<At3("y", "b2", 1, 5)>>, "b2", "silent"),
  f1 |-> [Raw(Boom(1), <<At3("a", "b1", 2, 71)>>, "b1", "own") EXCEPT !.fingerprint = <<"own">>],
  f2 |-> [Raw(Boom(1), <<At3("z", "b2", 3, 4)>>, "b2", "own") EXCEPT !.fingerprint = <<"own">>],
  n1 |-> [Raw(Nothing, <<>>, "b1", "other") EXCEPT !.exception = Nothing]]

Entry(type, payload, text, id, declared) ==
  [type |-> type, payload |-> payload, text |-> text, id |-> id, declared |-> declared]

Entries == {
  Entry("event", <<Json("n1")>>, FALSE, Nothing, FALSE),
  Entry("log", <<Json("l1")>>, FALSE, Nothing, TRUE),
  Entry("log", <<Json("l1")>>, FALSE, Nothing, FALSE),
  Entry("log", <<Json("l2")>>, FALSE, "i1", TRUE),
  Entry("attachment", <<Text("plain"), Text("secret")>>, TRUE, Nothing, TRUE),
  Entry("attachment", <<Text("secret")>>, TRUE, Nothing, TRUE),
  Entry("attachment", <<Text("bytes"), Blank>>, FALSE, Nothing, TRUE),
  Entry("attachment", <<>>, FALSE, Nothing, TRUE),
  Entry("profile", <<Json("p1")>>, FALSE, Nothing, TRUE)}

NoPolicy == [t \in {} |-> "store"]
Sampled  == [attachment |-> "store", log |-> "sample"]
Dropped  == [attachment |-> "drop"]

Settings(relay, server, remove, gzip, policy, uploads, backend, version) ==
  [relayPII |-> relay, serverPII |-> server, remove |-> remove, gzip |-> gzip,
   policy |-> policy,
   kept |-> {[id |-> "i1", payload |-> <<>>], [id |-> Nothing, payload |-> <<Clean(Json("l1"))>>]},
   uploads |-> uploads, backend |-> backend, version |-> version]

Filtering ==
  {Settings(relay, server, remove, gzip, policy, {}, "memory", 2) :
     relay \in BOOLEAN, server \in BOOLEAN, remove \in BOOLEAN, gzip \in BOOLEAN,
     policy \in {NoPolicy, Sampled, Dropped}}

Symbolicating ==
  {Settings(FALSE, FALSE, FALSE, FALSE, NoPolicy, DOMAIN MCTables, backend, version) :
     backend \in {"memory", "postgres"}, version \in {1, 2}}

Pairs == {<<"e1", "e2">>, <<"r1", "r2">>, <<"m2", "m1">>, <<"f1", "f2">>, <<"n1", "r1">>}

MCSent ==
  {[config |-> c, items |-> i] : c \in Filtering, i \in UNION {[1 .. n -> Entries] : n \in 1 .. 3}}
    \cup
  {[config |-> c,
    items |-> [k \in 1 .. 2 |-> Entry("event", <<Json(p[k])>>, FALSE, Nothing, TRUE)]] :
     c \in Symbolicating, p \in Pairs}
==============================================================================
