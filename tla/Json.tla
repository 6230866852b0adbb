--------------------------------- MODULE Json ---------------------------------
(***************************************************************************)
(* The bounded JSON decoder and the canonical encoder, json.rs and jcs.rs, *)
(* that every header, payload, row and digest passes through, and the      *)
(* third walk over a value, in digest.rs.                                  *)
(*                                                                         *)
(* A text is a sequence of characters.  The literal null is one, for true  *)
(* and false as well, and so are the five bytes of an escape of four hex   *)
(* digits behind its backslash.  A number is its digits: NumberLexeme has  *)
(* signs, fractions, exponents and magnitudes.                             *)
(*                                                                         *)
(* Both work within the bounds of a call, of bounds.rs: the maximum of the *)
(* protocol, and what a caller's overrides make of it.  The fields are     *)
(* those that this module looks at; the others are read the same way.      *)
(***************************************************************************)
EXTENDS Integers, Sequences, SequencesExt, FiniteSets, TLC

CONSTANTS
  Maximum,      \* a bound of every field: MAX_DEPTH and its like
  FixedWidth    \* the widths that may be named but not changed: FIXED_DIGEST_BYTES

Field == DOMAIN Maximum

ASSUME MaximumAssumption ==
  /\ Maximum \in [Field -> Nat \ {0}]
  /\ FixedWidth \in [DOMAIN FixedWidth -> Nat \ {0}]
  /\ Field \cap DOMAIN FixedWidth = {}

NoBounds == [refused |-> TRUE]

\* variant: an override is compared with nothing
tighten_unchecked(b, field, value) == [b EXCEPT ![field] = value]

tighten(b, field, value) ==
  IF value \in 1 .. Maximum[field] THEN [b EXCEPT ![field] = value] ELSE NoBounds

fixed(b, field, value) == IF value = FixedWidth[field] THEN b ELSE NoBounds

apply_override(b, o) ==
  IF b = NoBounds \/ o.value <= 0 THEN NoBounds
  ELSE IF o.field \in Field THEN tighten(b, o.field, o.value)
  ELSE IF o.field \in DOMAIN FixedWidth THEN fixed(b, o.field, o.value)
  ELSE NoBounds

\* Bounds::new: overrides in the order they are written, a later one over an
\* earlier one of the same field
new(overrides) == FoldLeft(apply_override, Maximum, overrides)

-----------------------------------------------------------------------------
(***************************************************************************)
(* Texts and values.                                                       *)
(***************************************************************************)

Quote == "\""
Backslash == "\\"
Newline == "newline"
Whitespace == {" ", Newline}
Digit == {"0", "1"}

\* the characters of more than one byte
Wide == "null" :> 4 @@ "u0061" :> 5 @@ "uD800" :> 5 @@ "uDC00" :> 5 @@ "U+E000" :> 3 @@ "U+10000" :> 4

byte_len(s) == FoldLeft(LAMBDA n, c : n + (IF c \in DOMAIN Wide THEN Wide[c] ELSE 1), 0, s)

Null == [tag |-> "null"]
Integer(digits) == [tag |-> "integer", digits |-> digits]
String(s) == [tag |-> "string", s |-> s]
Array(items) == [tag |-> "array", items |-> items]
Object(members) == [tag |-> "object", members |-> members]

Invalid == [ok |-> FALSE]

-----------------------------------------------------------------------------
(***************************************************************************)
(* The decoder: a position, the nodes counted so far, and the value read.  *)
(***************************************************************************)

Read(value, pos, nodes) == [ok |-> TRUE, value |-> value, pos |-> pos, nodes |-> nodes]

peek(text, i) == IF i <= Len(text) THEN text[i] ELSE "end"

RECURSIVE skip_ws(_, _)
skip_ws(text, i) == IF peek(text, i) \in Whitespace THEN skip_ws(text, i + 1) ELSE i

\* what is written with a backslash: the other escapes go the same way
Unescaped == Quote :> Quote @@ Backslash :> Backslash @@ "n" :> Newline @@ "u0061" :> "a"

\* a surrogate is a character only with the one that follows it
RECURSIVE string_body(_, _, _)
string_body(text, i, buf) ==
  LET c == peek(text, i)
      escaped == peek(text, i + 1)
  IN  CASE c = Quote     -> Read(buf, i + 1, 0)
        [] c = Backslash ->
             IF escaped \in DOMAIN Unescaped
             THEN string_body(text, i + 2, Append(buf, Unescaped[escaped]))
             ELSE IF escaped = "uD800" /\ peek(text, i + 2) = Backslash /\ peek(text, i + 3) = "uDC00"
             THEN string_body(text, i + 4, Append(buf, "U+10000"))
             ELSE Invalid
        [] c \in {"end", Newline} -> Invalid
        [] OTHER         -> string_body(text, i + 1, Append(buf, c))

\* the character at i is taken for the quote that opens the string
parse_string(text, i, byte_limit) ==
  LET s == string_body(text, i + 1, << >>)
  IN  IF s.ok /\ byte_len(s.value) <= byte_limit THEN s ELSE Invalid

RECURSIVE digits_at(_, _)
digits_at(text, i) ==
  IF peek(text, i) \in Digit THEN <<text[i]>> \o digits_at(text, i + 1) ELSE << >>

\* a zero that leads is the whole number
parse_number(text, i, nodes, b) ==
  LET lexeme == IF text[i] = "0" THEN <<"0">> ELSE digits_at(text, i)
  IN  IF Len(lexeme) <= b.number_lexeme_bytes THEN Read(Integer(lexeme), i + Len(lexeme), nodes)
      ELSE Invalid

\* the items of an array from the one at i, the members of an object from that at i
RECURSIVE parse_value(_, _, _, _, _), parse_items(_, _, _, _, _, _), parse_members(_, _, _, _, _, _)

parse_items(text, i, items, nodes, depth, b) ==
  LET v == parse_value(text, i, nodes, depth + 1, b)
      j == skip_ws(text, v.pos)
  IN  IF Len(items) >= b.array_items \/ ~ v.ok THEN Invalid
      ELSE CASE peek(text, j) = "," ->
                  parse_items(text, skip_ws(text, j + 1), Append(items, v.value), v.nodes, depth, b)
             [] peek(text, j) = "]" -> Read(Array(Append(items, v.value)), j + 1, v.nodes)
             [] OTHER -> Invalid

parse_array(text, i, nodes, depth, b) ==
  LET j == skip_ws(text, i + 1)
  IN  IF depth > b.depth THEN Invalid
      ELSE IF peek(text, j) = "]" THEN Read(Array(<< >>), j + 1, nodes)
      ELSE parse_items(text, j, << >>, nodes, depth, b)

parse_members(text, i, members, nodes, depth, b) ==
  LET name == parse_string(text, i, b.key_bytes)
      colon == skip_ws(text, name.pos)
      v == parse_value(text, skip_ws(text, colon + 1), nodes, depth + 1, b)
      read == Append(members, <<name.value, v.value>>)
      j == skip_ws(text, v.pos)
  IN  IF Len(members) >= b.object_members \/ ~ name.ok THEN Invalid
      ELSE IF peek(text, colon) # ":" \/ ~ v.ok THEN Invalid
      ELSE IF \E k \in DOMAIN members : members[k][1] = name.value THEN Invalid
      ELSE CASE peek(text, j) = "," ->
                  parse_members(text, skip_ws(text, j + 1), read, v.nodes, depth, b)
             [] peek(text, j) = "}" -> Read(Object(read), j + 1, v.nodes)
             [] OTHER -> Invalid

parse_object(text, i, nodes, depth, b) ==
  LET j == skip_ws(text, i + 1)
  IN  IF depth > b.depth THEN Invalid
      ELSE IF peek(text, j) = "}" THEN Read(Object(<< >>), j + 1, nodes)
      ELSE parse_members(text, j, << >>, nodes, depth, b)

parse_value(text, i, counted, depth, b) ==
  LET c == peek(text, i)
      nodes == counted + 1
  IN  IF nodes > b.total_nodes THEN Invalid
      ELSE CASE c = "{"       -> parse_object(text, i, nodes, depth, b)
             [] c = "["       -> parse_array(text, i, nodes, depth, b)
             [] c = Quote     -> LET s == parse_string(text, i, b.string_bytes)
                                 IN  IF s.ok THEN Read(String(s.value), s.pos, nodes) ELSE Invalid
             [] c = "null"    -> Read(Null, i + 1, nodes)
             [] c \in Digit   -> parse_number(text, i, nodes, b)
             [] OTHER         -> Invalid

\* variant: what follows the value is not looked at
json_decode_prefix(text, b) ==
  LET v == parse_value(text, skip_ws(text, 1), 0, 1, b)
  IN  IF byte_len(text) <= b.json_bytes /\ v.ok THEN [ok |-> TRUE, value |-> v.value] ELSE Invalid

json_decode(text, b) ==
  LET v == parse_value(text, skip_ws(text, 1), 0, 1, b)
  IN  IF byte_len(text) <= b.json_bytes /\ v.ok /\ skip_ws(text, v.pos) = Len(text) + 1
      THEN [ok |-> TRUE, value |-> v.value] ELSE Invalid

-----------------------------------------------------------------------------
(***************************************************************************)
(* The encoder: the text so far and the nodes counted so far.              *)
(***************************************************************************)

\* the UTF-16 code units of the characters
Utf16 ==
  Newline :> <<10>> @@ " " :> <<32>> @@ Quote :> <<34>> @@ "," :> <<44>> @@ "0" :> <<48>>
    @@ "1" :> <<49>> @@ ":" :> <<58>> @@ "[" :> <<91>> @@ Backslash :> <<92>> @@ "]" :> <<93>>
    @@ "a" :> <<97>> @@ "n" :> <<110>> @@ "{" :> <<123>> @@ "}" :> <<125>>
    @@ "U+10000" :> <<55296, 56320>> @@ "U+E000" :> <<57344>>

utf16(s) == FlattenSeq([i \in DOMAIN s |-> Utf16[s[i]]])

\* variant: a name is not told from what it begins
utf16_less_prefix(s, t) ==
  LET u == utf16(s)  v == utf16(t)
  IN  \E i \in DOMAIN u \cap DOMAIN v : u[i] < v[i] /\ \A j \in 1 .. i - 1 : u[j] = v[j]

\* utf16_compare: the first unit that differs, or the shorter
utf16_less(s, t) ==
  LET u == utf16(s)  v == utf16(t)
  IN  \/ \E i \in DOMAIN u \cap DOMAIN v : u[i] < v[i] /\ \A j \in 1 .. i - 1 : u[j] = v[j]
      \/ Len(u) < Len(v) /\ SubSeq(v, 1, Len(u)) = u

encode_char(c) ==
  CASE c = Newline              -> <<Backslash, "n">>
    [] c \in {Quote, Backslash} -> <<Backslash, c>>
    [] OTHER                    -> <<c>>

encode_string(s) == <<Quote>> \o FlattenSeq([i \in DOMAIN s |-> encode_char(s[i])]) \o <<Quote>>

names(members) == {members[i][1] : i \in DOMAIN members}

\* variant: members of one name are encoded twice
names_ok_duplicates(members, b) == \A name \in names(members) : byte_len(name) <= b.key_bytes

names_ok(members, b) ==
  /\ \A name \in names(members) : byte_len(name) <= b.key_bytes
  /\ Cardinality(names(members)) = Len(members)

canonical_order(members) == SortSeq(members, LAMBDA m, n : utf16_less(m[1], n[1]))

Wrote(out, nodes) == [ok |-> TRUE, out |-> out, nodes |-> nodes]

\* each item with the text before it
RECURSIVE encode_value(_, _, _, _)
encode_value(v, counted, depth, b) ==
  LET nodes == counted + 1
      one(w, before, item) ==
        LET e == encode_value(item, w.nodes, depth + 1, b)
        IN  IF ~ w.ok \/ ~ e.ok THEN Invalid
            ELSE Wrote(w.out \o (IF w.nodes = nodes THEN << >> ELSE <<",">>) \o before \o e.out,
                       e.nodes)
      wrap(w, open, close) == IF w.ok THEN Wrote(<<open>> \o w.out \o <<close>>, w.nodes) ELSE w
  IN  IF nodes > b.total_nodes THEN Invalid
      ELSE CASE v.tag = "null"    -> Wrote(<<"null">>, nodes)
             [] v.tag = "integer" -> Wrote(v.digits, nodes)
             [] v.tag = "string"  ->
                  IF byte_len(v.s) <= b.string_bytes THEN Wrote(encode_string(v.s), nodes) ELSE Invalid
             [] v.tag = "array"   ->
                  IF depth > b.depth \/ Len(v.items) > b.array_items THEN Invalid
                  ELSE wrap(FoldLeft(LAMBDA w, item : one(w, << >>, item),
                                     Wrote(<< >>, nodes), v.items), "[", "]")
             [] v.tag = "object"  ->
                  IF depth > b.depth \/ Len(v.members) > b.object_members
                     \/ ~ names_ok(v.members, b) THEN Invalid
                  ELSE wrap(FoldLeft(LAMBDA w, m : one(w, encode_string(m[1]) \o <<":">>, m[2]),
                                     Wrote(<< >>, nodes), canonical_order(v.members)), "{", "}")

jcs_encode(v, b) ==
  LET e == encode_value(v, 0, 1, b)
  IN  IF e.ok /\ byte_len(e.out) <= b.jcs_bytes THEN [ok |-> TRUE, text |-> e.out] ELSE Invalid

(***************************************************************************)
(* The walk that request_digest takes before it encodes: the nodes, or     *)
(* more than there may be.                                                 *)
(***************************************************************************)

RECURSIVE count_within(_, _, _, _)
count_within(v, counted, depth, b) ==
  LET nodes == counted + 1
      over == b.total_nodes + 1
      all(values) == FoldLeft(LAMBDA n, w : IF n = over THEN n ELSE count_within(w, n, depth + 1, b),
                              nodes, values)
  IN  IF nodes > b.total_nodes THEN over
      ELSE CASE v.tag = "string" -> IF byte_len(v.s) <= b.string_bytes THEN nodes ELSE over
             [] v.tag = "array"  ->
                  IF depth > b.depth \/ Len(v.items) > b.array_items THEN over ELSE all(v.items)
             [] v.tag = "object" ->
                  IF \/ depth > b.depth \/ Len(v.members) > b.object_members
                     \/ \E name \in names(v.members) : byte_len(name) > b.key_bytes
                  THEN over ELSE all([i \in DOMAIN v.members |-> v.members[i][2]])
             [] OTHER -> nodes

validate_bounds(v, b) == count_within(v, 0, 1, b) <= b.total_nodes
=============================================================================
