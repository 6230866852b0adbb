------------------------------ MODULE Selectors ------------------------------
(***************************************************************************)
(* JSON values, the selectors over them and the digest of a request, as    *)
(* operators: json.rs, jcs.rs, selector.rs and digest.rs, for each major.  *)
(*                                                                         *)
(* A float is a number of halves, and a sign that only zero has: enough    *)
(* for floats that are integral, floats that are not, and the two zeros.   *)
(* Canonical bytes are the value they are the text of: a number without a  *)
(* tag, an object without an order.  A selector is a record with the       *)
(* members of its JSON object: kind, and path with value or values.  What  *)
(* the bytes of a text are held to is Json's matter.                       *)
(*                                                                         *)
(* The functions that call themselves on the parts of a value are          *)
(* functions on the values that nest as deep as the library goes; one that *)
(* nests deeper is in none of their domains, and encoder and decoder       *)
(* refuse it.                                                              *)
(***************************************************************************)
EXTENDS Integers, Sequences, SequencesExt

CONSTANTS
  MaxDepth,       \* bounds.depth()
  MaxMagnitude,   \* bounds.integer_magnitude() and bounds.float_magnitude()
  MaxSelectors,   \* bounds.selectors()
  MaxPath,        \* bounds.path_segments()
  MaxOneOf        \* bounds.one_of_values()

ASSUME SelectorBounds ==
  {MaxDepth, MaxMagnitude, MaxSelectors, MaxPath, MaxOneOf} \subseteq Nat

(***************************************************************************)
(* Values.                                                                 *)
(***************************************************************************)

null == [tag |-> "null"]
boolean(b) == [tag |-> "boolean", b |-> b]
integer(n) == [tag |-> "integer", n |-> n]
float(h) == [tag |-> "float", half |-> h, minus |-> FALSE]
minus_zero == [tag |-> "float", half |-> 0, minus |-> TRUE]
string(s) == [tag |-> "string", s |-> s]
array(items) == [tag |-> "array", items |-> items]
object(members) == [tag |-> "object", members |-> members]

Literal == {null} \cup [tag : {"boolean"}, b : BOOLEAN] \cup [tag : {"string"}, s : STRING]

Float == {f \in [tag : {"float"}, half : Int, minus : BOOLEAN] : f.minus => f.half = 0}

Scalars == Literal \cup [tag : {"integer"}, n : Int] \cup Float

\* values with arrays and objects at most n deep
nested(n) ==
  LET layer[i \in 0 .. n] ==
        IF i = 0 THEN Scalars
        ELSE Scalars \cup [tag : {"array"}, items : Seq(layer[i - 1])]
                     \cup [tag : {"object"}, members : Seq(STRING \X layer[i - 1])]
  IN  layer[n]

Value == nested(MaxDepth)

keys(members) == {members[i][1] : i \in DOMAIN members}

unique_object(members) ==
  \A i, j \in DOMAIN members : members[i][1] = members[j][1] => i = j

(***************************************************************************)
(* Canonical encoding and decoding.                                        *)
(***************************************************************************)

encodable(v) ==
  LET within[w \in Value] ==
        CASE w.tag = "array"   -> \A i \in DOMAIN w.items : within[w.items[i]]
          [] w.tag = "object"  -> /\ unique_object(w.members)
                                  /\ \A i \in DOMAIN w.members : within[w.members[i][2]]
          [] w.tag = "integer" -> w.n \in -MaxMagnitude .. MaxMagnitude
          [] w.tag = "float"   -> w.half \in -2 * MaxMagnitude .. 2 * MaxMagnitude
          [] OTHER             -> TRUE
  IN  v \in Value /\ within[v]

\* jcs_encode: both zeros print 0, and an integral float prints as an integer
jcs(v) ==
  LET text[w \in Value] ==
        CASE w.tag = "array"   -> [array |-> [i \in DOMAIN w.items |-> text[w.items[i]]]]
          [] w.tag = "object"  -> [object |-> {<<w.members[i][1], text[w.members[i][2]]>> :
                                                 i \in DOMAIN w.members}]
          [] w.tag = "integer" -> [number |-> 2 * w.n]
          [] w.tag = "float"   -> [number |-> w.half]
          [] OTHER             -> [literal |-> w]
  IN  text[v]

\* the texts of values that nest at most n deep
texts(n) ==
  LET layer[i \in 0 .. n] ==
        IF i = 0 THEN [number : Int] \cup [literal : Literal]
        ELSE [number : Int] \cup [literal : Literal] \cup [array : Seq(layer[i - 1])]
               \cup [object : {m \in SUBSET (STRING \X layer[i - 1]) : IsFiniteSet(m)}]
  IN  layer[n]

\* variant: a number is a float whatever its lexeme
number_value_float(half) == float(half)

\* a lexeme without a fraction is an integer
number_value(half) == IF half % 2 = 0 THEN integer(half \div 2) ELSE float(half)

\* json_decode of canonical bytes
decode(json) ==
  LET value[t \in texts(MaxDepth)] ==
        CASE "array" \in DOMAIN t  -> array([i \in DOMAIN t.array |-> value[t.array[i]]])
          [] "object" \in DOMAIN t ->
               LET listed == SetToSeq(t.object)
               IN  object([i \in DOMAIN listed |-> <<listed[i][1], value[listed[i][2]]>>])
          [] "number" \in DOMAIN t -> number_value(t.number)
          [] OTHER                  -> t.literal
  IN  value[json]

(***************************************************************************)
(* The digest of a request.                                                *)
(***************************************************************************)

\* variant: the projection does not name the type of a number
typed_untagged_number(v) ==
  LET project[w \in Value] ==
        CASE w.tag \in {"integer", "float"} -> array(<<string("number"), w>>)
          [] w.tag = "array"  -> array(<<string("array"),
                                   array([i \in DOMAIN w.items |-> project[w.items[i]]])>>)
          [] w.tag = "object" -> array(<<string("object"), object([i \in DOMAIN w.members |->
                                   <<w.members[i][1], project[w.members[i][2]]>>])>>)
          [] w.tag = "null"   -> array(<<string("null")>>)
          [] OTHER            -> array(<<string(w.tag), w>>)
  IN  project[v]

typed(v) ==
  LET project[w \in Value] ==
        CASE w.tag = "array"  -> array(<<string("array"),
                                   array([i \in DOMAIN w.items |-> project[w.items[i]]])>>)
          [] w.tag = "object" -> array(<<string("object"), object([i \in DOMAIN w.members |->
                                   <<w.members[i][1], project[w.members[i][2]]>>])>>)
          [] w.tag = "null"   -> array(<<string("null")>>)
          [] OTHER            -> array(<<string(w.tag), w>>)
  IN  project[v]

projection(operation, args) == array(<<string(operation), typed(args)>>)

digest(major, operation, args) ==
  [prefix |-> major, sha256 |-> jcs(projection(operation, args))]

\* validate_bounds and jcs_encode: a projection nests twice as deep as what it
\* projects, and one array deeper
digestible(operation, args) == args \in Value /\ encodable(projection(operation, args))

(***************************************************************************)
(* Selectors.                                                              *)
(***************************************************************************)

Kinds(major) ==
  IF major = 1 THEN {"all", "equals", "one_of"} ELSE {"all", "equals", "one_of", "lte", "gte"}

number(v) == v.tag \in {"integer", "float"}

\* floats are compared by value, and objects member by member, in any order
semantic_identity(a, b) ==
  LET same[x \in Value] == [y \in Value |->
        /\ x.tag = y.tag
        /\ CASE x.tag = "array" ->
                  /\ Len(x.items) = Len(y.items)
                  /\ \A i \in DOMAIN x.items : same[x.items[i]][y.items[i]]
             [] x.tag = "object" ->
                  /\ unique_object(x.members) /\ unique_object(y.members)
                  /\ Len(x.members) = Len(y.members)
                  /\ \A i \in DOMAIN x.members : \E j \in DOMAIN y.members :
                       /\ y.members[j][1] = x.members[i][1]
                       /\ same[x.members[i][2]][y.members[j][2]]
             [] x.tag = "float" -> x.half = y.half
             [] OTHER -> x = y]
  IN  same[a][b]

\* none, or the first of that name
first_named(members, name) ==
  {i \in DOMAIN members : /\ members[i][1] = name
                          /\ \A j \in 1 .. i - 1 : members[j][1] # name}

member_named(v, name) ==
  IF v.tag = "object" THEN {v.members[i][2] : i \in first_named(v.members, name)} ELSE {}

\* none, or the value at a path
traverse(v, path) ==
  LET current[i \in 0 .. Len(path)] ==
        IF i = 0 THEN {v} ELSE UNION {member_named(w, path[i]) : w \in current[i - 1]}
  IN  current[Len(path)]

\* twice a number
doubled(v) == IF v.tag = "integer" THEN 2 * v.n ELSE v.half

lte(a, b) == a.tag = b.tag /\ number(a) /\ doubled(a) <= doubled(b)

\* the three member sets a selector of any kind may have: "all" may carry a
\* path and a value it has no use for
recognized_member_set(s) ==
  DOMAIN s \in {{"kind"}, {"kind", "path", "value"}, {"kind", "path", "values"}}

valid_path(path) ==
  /\ Len(path) \in 1 .. MaxPath
  /\ \A i \in DOMAIN path : path[i] # ""

validate(major, s) ==
  /\ s.kind \in Kinds(major)
  /\ recognized_member_set(s)
  /\ s.kind # "all" => "path" \in DOMAIN s /\ valid_path(s.path)
  /\ s.kind \in {"equals", "lte", "gte"} => "value" \in DOMAIN s /\ encodable(s.value)
  /\ s.kind \in {"lte", "gte"} => number(s.value)
  /\ s.kind = "one_of" => /\ "values" \in DOMAIN s
                          /\ Len(s.values) \in 1 .. MaxOneOf
                          /\ \A i \in DOMAIN s.values : encodable(s.values[i])

\* a path the arguments do not have is an error, and refuses them like a
\* value that does not match
evaluate(major, s, args) ==
  /\ validate(major, s)
  /\ \/ s.kind = "all"
     \/ /\ s.kind # "all"
        /\ \E found \in traverse(args, s.path) :
             CASE s.kind = "equals" -> semantic_identity(found, s.value)
               [] s.kind = "one_of" ->
                    \E i \in DOMAIN s.values : semantic_identity(s.values[i], found)
               [] s.kind = "lte"    -> lte(found, s.value)
               [] s.kind = "gte"    -> lte(s.value, found)

evaluate_all(major, selectors, args) ==
  \A i \in DOMAIN selectors : evaluate(major, selectors[i], args)

(***************************************************************************)
(* Their wire form, in the payload of a grant.                             *)
(***************************************************************************)

\* what f makes of the values a selector holds
mapped(s, f(_)) ==
  CASE "value" \in DOMAIN s  -> [s EXCEPT !.value = f(@)]
    [] "values" \in DOMAIN s -> [s EXCEPT !.values = [i \in DOMAIN @ |-> f(@[i])]]
    [] OTHER                 -> s

encodable_selector(s) ==
  /\ "value" \in DOMAIN s => encodable(s.value)
  /\ "values" \in DOMAIN s => \A i \in DOMAIN s.values : encodable(s.values[i])

valid_selectors(major, selectors) ==
  /\ Len(selectors) \in 1 .. MaxSelectors
  /\ \A i \in DOMAIN selectors : validate(major, selectors[i])

encode_selectors(selectors) == [i \in DOMAIN selectors |-> mapped(selectors[i], jcs)]

\* variant: the two ranges are mistaken for each other
selector_swapped(w) ==
  LET s == mapped(w, decode)
  IN  CASE s.kind = "lte" -> [s EXCEPT !.kind = "gte"]
        [] s.kind = "gte" -> [s EXCEPT !.kind = "lte"]
        [] OTHER -> s

selector(w) == mapped(w, decode)

\* none, or the selectors a grant's payload stands for
decode_selectors(major, wire) ==
  LET decoded == [i \in DOMAIN wire |-> selector(wire[i])]
  IN  IF valid_selectors(major, decoded) THEN {decoded} ELSE {}
=============================================================================
