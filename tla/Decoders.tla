------------------------------- MODULE Decoders -------------------------------
(***************************************************************************)
(* The functions between texts and values, each called once with whatever  *)
(* may be given to it, and the answer it returns: a decoder of this code   *)
(* never sees a text before it is to be trusted with it.  Codecs has those *)
(* that do not call themselves; here is JSON.                              *)
(***************************************************************************)
EXTENDS Json, Codecs

CONSTANTS
  OverrideList,               \* what callers make bounds of
  JsonText, JsonValue         \* [text, overrides] and [value, overrides]

-----------------------------------------------------------------------------
DecodeJson ==
  /\ task = NoTask
  /\ \E t \in JsonText :
       LET b == new(t.overrides)
       IN  /\ b # NoBounds
           /\ Call([of |-> "json_decode", text |-> t.text, bounds |-> b], json_decode(t.text, b))

EncodeJson ==
  /\ task = NoTask
  /\ \E v \in JsonValue :
       LET b == new(v.overrides)
       IN  /\ b # NoBounds
           /\ Call([of |-> "jcs_encode", value |-> v.value, bounds |-> b], jcs_encode(v.value, b))

DecodersNext ==
  \/ CodecsNext
  \/ DecodeJson
  \/ EncodeJson

-----------------------------------------------------------------------------
(***************************************************************************)
(* JSON: the values that a text stands for, by RFC 8259's grammar.         *)
(***************************************************************************)

trimmed(s) ==
  LET solid == {i \in DOMAIN s : s[i] \notin Whitespace}
  IN  IF solid = {} THEN << >>
      ELSE SubSeq(s, CHOOSE i \in solid : \A j \in solid : i <= j,
                     CHOOSE i \in solid : \A j \in solid : j <= i)

inner(s) == SubSeq(s, 2, Len(s) - 1)
enclosed(s, open, close) == Len(s) >= 2 /\ s[1] = open /\ s[Len(s)] = close

RECURSIVE Bodies(_), Values(_), Items(_), Members(_)

Bodies(s) ==
  IF s = << >> THEN {<< >>}
  ELSE IF s[1] \in {Quote, Newline} THEN {}
  ELSE IF s[1] # Backslash THEN {<<s[1]>> \o rest : rest \in Bodies(Tail(s))}
  ELSE IF IsPrefix(<<Backslash, "uD800", Backslash, "uDC00">>, s)
  THEN {<<"U+10000">> \o rest : rest \in Bodies(SubSeq(s, 5, Len(s)))}
  ELSE IF Len(s) < 2 \/ s[2] \notin DOMAIN Unescaped THEN {}
  ELSE {<<Unescaped[s[2]]>> \o rest : rest \in Bodies(SubSeq(s, 3, Len(s)))}

Strings(s) == IF enclosed(s, Quote, Quote) THEN Bodies(inner(s)) ELSE {}

\* what comes before a separator and what comes after it
cuts(s, c) == {<<SubSeq(s, 1, i - 1), SubSeq(s, i + 1, Len(s))>> : i \in {j \in DOMAIN s : s[j] = c}}

Items(s) ==
  {<<v>> : v \in Values(s)}
    \cup UNION {{<<v>> \o rest : v \in Values(c[1]), rest \in Items(c[2])} : c \in cuts(s, ",")}

Member(s) ==
  UNION {{<<name, v>> : name \in Strings(trimmed(c[1])), v \in Values(c[2])} : c \in cuts(s, ":")}

Members(s) ==
  {<<m>> : m \in Member(s)}
    \cup UNION {{<<m>> \o rest : m \in Member(c[1]), rest \in Members(c[2])} : c \in cuts(s, ",")}

Values(text) ==
  LET s == trimmed(text)
      nothing == trimmed(inner(s)) = << >>
  IN  (IF s = <<"null">> THEN {Null} ELSE {})
        \cup (IF s # << >> /\ Range(s) \subseteq Digit /\ (s[1] = "0" => Len(s) = 1)
              THEN {Integer(s)} ELSE {})
        \cup {String(v) : v \in Strings(s)}
        \cup (IF ~ enclosed(s, "[", "]") THEN {}
              ELSE IF nothing THEN {Array(<< >>)} ELSE {Array(v) : v \in Items(inner(s))})
        \cup (IF ~ enclosed(s, "{", "}") THEN {}
              ELSE IF nothing THEN {Object(<< >>)}
              ELSE {Object(v) : v \in {m \in Members(inner(s)) : Cardinality(names(m)) = Len(m)}})

children(v) ==
  CASE v.tag = "array"  -> v.items
    [] v.tag = "object" -> [i \in DOMAIN v.members |-> v.members[i][2]]
    [] OTHER            -> << >>

\* v and what it holds, at which depth
RECURSIVE Parts(_, _)
Parts(v, depth) ==
  LET vs == children(v)
  IN  <<[value |-> v, depth |-> depth]>>
        \o FlattenSeq([i \in DOMAIN vs |-> Parts(vs[i], depth + 1)])

\* every bound of a value but those of its text and of its numbers
FitsValue(v, b) ==
  LET parts == Parts(v, 1)
  IN  /\ Len(parts) <= b.total_nodes
      /\ \A i \in DOMAIN parts :
           LET p == parts[i].value
           IN  CASE p.tag = "string" -> byte_len(p.s) <= b.string_bytes
                 [] p.tag = "array"  -> parts[i].depth <= b.depth /\ Len(p.items) <= b.array_items
                 [] p.tag = "object" -> /\ parts[i].depth <= b.depth
                                        /\ Len(p.members) <= b.object_members
                                        /\ \A name \in names(p.members) : byte_len(name) <= b.key_bytes
                 [] OTHER -> TRUE

FitsNumbers(v, b) ==
  \A p \in Range(Parts(v, 1)) :
    p.value.tag = "integer" => Len(p.value.digits) <= b.number_lexeme_bytes

OneName(v) ==
  \A p \in Range(Parts(v, 1)) :
    p.value.tag = "object" => Cardinality(names(p.value.members)) = Len(p.value.members)

\* a character that parse_object takes for the quote that opens a name
Openings(text) ==
  {i \in DOMAIN text :
     LET before == trimmed(SubSeq(text, 1, i - 1))
     IN  text[i] \notin Whitespace /\ before # << >> /\ Last(before) \in {"{", ","}}

Requoted(text) ==
  {[i \in DOMAIN text |-> IF i \in opened THEN Quote ELSE text[i]] : opened \in SUBSET Openings(text)}

\* the grammar: a text is accepted when it is a document within the bounds of
\* the call, with the value the grammar gives it, and nothing else is accepted
\* but a document whose names do not open with a quote (parse_object).
DecoderReads ==
  task.of = "json_decode" =>
    LET text == task.text
        b == task.bounds
        within_bounds(v) == FitsValue(v, b) /\ FitsNumbers(v, b) /\ byte_len(text) <= b.json_bytes
    IN  /\ answer.ok => /\ within_bounds(answer.value)
                        /\ \E u \in Requoted(text) : answer.value \in Values(u)
        /\ \A v \in Values(text) :
             within_bounds(v) => answer = [ok |-> TRUE, value |-> v]

\* "the input is exactly one RFC 8259 value" (src/sdks/rust/src/json.rs:13-14):
\* what is accepted is a document.
OnlyDocuments ==
  task.of = "json_decode" /\ answer.ok => Values(task.text) # {}

\* bounds: a caller's bounds only take away.  What the decoder accepts under
\* them it accepts, and reads alike, under those of the protocol.
TighterAdmitsLess ==
  task.of = "json_decode" /\ answer.ok => json_decode(task.text, Maximum) = answer

\* more than any text of the model
AnyLength == 1000

\* the members of v in any order, or of the first item
RECURSIVE Orders(_)
Orders(v) ==
  LET n == Len(v.members)
  IN  CASE v.tag = "object" ->
             {Object([i \in 1 .. n |-> v.members[p[i]]]) : p \in Permutations(1 .. n)}
        [] v.tag = "array" /\ v.items # << >> ->
             {Array(<<first>> \o Tail(v.items)) : first \in Orders(v.items[1])}
        [] OTHER -> {v}

\* the two codecs: the encoder writes every value within the bounds whose names
\* are unique, in bytes that do not depend on the order of its members, that the
\* digest's own walk lets through, and that the decoder reads as that value,
\* but for a number or a text too long for the decoder alone.
CodecsAgree ==
  task.of = "jcs_encode" =>
    LET v == task.value
        b == task.bounds
        read == json_decode(answer.text, b)
    IN  /\ answer.ok => FitsValue(v, b) /\ OneName(v) /\ validate_bounds(v, b)
        /\ \A w \in Orders(v) : jcs_encode(w, b) = answer
        /\ FitsValue(v, b) /\ OneName(v) =>
             LET e == jcs_encode(v, [b EXCEPT !.jcs_bytes = AnyLength])
             IN  e.ok /\ (answer.ok <=> byte_len(e.text) <= b.jcs_bytes)
        /\ answer.ok => (read.ok <=> FitsNumbers(v, b) /\ byte_len(answer.text) <= b.json_bytes)
        /\ answer.ok /\ read.ok => read.value \in Orders(v) /\ jcs_encode(read.value, b) = answer

=============================================================================
