-------------------------------- MODULE MCWire --------------------------------
(***************************************************************************)
(* What arrives from outside, at both of its levels: compacts of every     *)
(* kind among their producers, signers and readers, and the functions that *)
(* read their bytes.  A run is of one or of the other: readers take a      *)
(* message as read.                                                        *)
(*                                                                         *)
(* The instance: an honest key of each suite and one of the adversary's,   *)
(* and texts.  Bounds are a few of everything; bytes have the values 0 to  *)
(* 2 and scalars two bits a byte, so that every boundary is met; documents *)
(* and archives are those that are right, and every text one edit away     *)
(* from them.                                                              *)
(***************************************************************************)
EXTENDS CompactSystem, Decoders

CONSTANTS ed, ec, ae

wvars == <<vars, dvars>>

WireInit == Init /\ CodecsInit

Exchange == task = NoTask /\ Next /\ UNCHANGED dvars

Decode == Init /\ DecodersNext /\ UNCHANGED vars

WireNext ==
  \/ Exchange
  \/ Decode

WireSpec == WireInit /\ [][WireNext]_wvars

-----------------------------------------------------------------------------

\* claims of every kind and major under every header there is
MCForged == {m \in Message : m.keys \in {"ProofWithNonce", "Grant"} /\ m.canonical}


-----------------------------------------------------------------------------
(***************************************************************************)
(* Bounds and JSON.                                                        *)
(***************************************************************************)

MCMaximum ==
  [total_nodes |-> 4, depth |-> 2, array_items |-> 2, object_members |-> 2, string_bytes |-> 5,
   key_bytes |-> 4, number_lexeme_bytes |-> 2, json_bytes |-> 20, jcs_bytes |-> 22]
MCFixedWidth == [digest_bytes |-> 2]

override(field, value) == [field |-> field, value |-> value]

\* every field looser and tighter by one, some twice
MCOverrideList ==
  {<< >>, <<override("digest_bytes", 2)>>, <<override("digest_bytes", 1)>>, <<override("other", 1)>>,
   <<override("depth", 0)>>,
   <<override("depth", 1), override("depth", 2)>>, <<override("depth", 1), override("depth", 3)>>}
    \cup {<<override(f, Maximum[f] + d)>> : f \in Field, d \in {-1, 1}}

\* characters: all texts of up to six of the first, and edits by the others
Symbols == {"{", "}", "[", "]", ",", ":", Quote, "a", "1"}
MoreSymbols ==
  Symbols \cup {" ", Backslash, "n", "0", "null", Newline, "+", "u0061", "uD800", "uDC00", "U+E000"}

SmallText == UNION {[1 .. n -> Symbols] : n \in 0 .. 6}

\* documents: their texts are edited in one place
Seed ==
  {<<"{", Quote, "a", Quote, ":", "1", "}">>,
   <<"{", Quote, Quote, ":", "1", ",", Quote, "a", Quote, ":", "[", "]", "}">>,
   <<"{", Quote, "a", Quote, ":", "{", "}", ",", Quote, "a", Quote, ":", "1", "}">>,
   <<"[", "1", "1", ",", "{", Quote, Quote, ":", "1", "}", "]">>,
   <<"[", "null", ",", Quote, Backslash, "n", "a", Quote, " ", "]">>,
   <<" ", "[", "[", "1", ",", "0", "]", "]">>,
   <<"[", "1", ",", "1", ",", "0", "]">>,
   <<"[", "[", "[", "]", "]", "]">>,
   <<Quote, "a", Backslash, Quote, "a", Quote, Newline>>,
   <<Quote, Backslash, "uD800", Backslash, "uDC00", "a", Quote>>,
   <<"{", Quote, Backslash, "u0061", Quote, ":", "1", ",", Quote, "1", Quote, ":", "1", "}">>,
   <<"1", "0", "1">>}

\* s, and s with a symbol exchanged, inserted or taken away
edits(s, symbols) ==
  {s} \cup {[s EXCEPT ![i] = c] : i \in DOMAIN s, c \in symbols}
      \cup {SubSeq(s, 1, i) \o <<c>> \o SubSeq(s, i + 1, Len(s)) : i \in 0 .. Len(s), c \in symbols}
      \cup {SubSeq(s, 1, i - 1) \o SubSeq(s, i + 1, Len(s)) : i \in DOMAIN s}

MCJsonText ==
  [text : SmallText, overrides : {<< >>}]
    \cup [text : UNION {edits(s, MoreSymbols) : s \in Seed}, overrides : {<< >>}]
    \cup [text : Seed \cup {<<"[", "[", "]", "]">>, <<"[", "1", ",", "1", "]">>,
                            <<"{", Quote, Quote, ":", "1", "}">>, <<"1", "1">>, <<"1", "1", "1">>}
                \cup {<<Quote>> \o [i \in 1 .. n |-> "a"] \o <<Quote>> : n \in 4 .. 6}
                \cup {<<"{", Quote>> \o [i \in 1 .. n |-> "a"] \o <<Quote, ":", "1", "}">> : n \in 3 .. 5}
                \cup {[i \in 1 .. n |-> IF i = 1 THEN "1" ELSE " "] : n \in 19 .. 21},
          overrides : MCOverrideList]

Scalars ==
  {Null, Integer(<<"1">>), Integer(<<"1", "0">>), Integer(<<"1", "0", "0">>), String(<< >>),
   String(<<Quote>>), String(<<"a", Newline>>), String(<<"U+10000", "a">>),
   String(<<"U+E000", "U+E000">>)}

\* the surrogates of U+10000 sort before U+E000 in UTF-16
Name == {<< >>, <<"a">>, <<"U+10000">>, <<"U+E000">>, <<"a", "1">>, <<"U+10000", "a">>}

SmallValue ==
  {Array(<< >>), Object(<< >>), Array(<<Array(<<Null>>)>>), Array(<<Array(<<Array(<<Null>>)>>)>>)}
    \cup {Array(<<v>>) : v \in Scalars} \cup {Array(<<u, v>>) : u, v \in Scalars}
    \cup {Array(<<v, v, v>>) : v \in {Null, String(<<"a">>)}}
    \cup {Object(<<<<n, v>>>>) : n \in Name, v \in Scalars \cup {Array(<<Null>>)}}
    \cup {Object(<<<<m, Null>>, <<n, Integer(<<"1">>)>>>>) : m, n \in Name}
    \cup {Object(<<<<m, Null>>, <<n, Null>>, <<k, Null>>>>) : m, n, k \in Name}

MCJsonValue ==
  [value : Scalars \cup SmallValue \cup {Array(<<v>>) : v \in SmallValue}, overrides : {<< >>}]
    \cup [value : Scalars \cup SmallValue, overrides : MCOverrideList]

-----------------------------------------------------------------------------
(***************************************************************************)
(* Numbers, archives and compacts.                                         *)
(***************************************************************************)

NumberDigits(from, to) == UNION {[1 .. n -> 0 .. Base - 1] : n \in from .. to}

MCLexeme ==
  {l \in [integer : NumberDigits(1, 4), fraction : NumberDigits(0, 3), exponent : NumberDigits(0, 4),
          minus : BOOLEAN] : is_lexeme(l)}

\* how many transitions and rows
Header == {<<t, r>> : t, r \in 0 .. 2}

MCArchive ==
  UNION {{<<h, start>> \o ts \o rows \o <<end>> :
            start, end \in {<<0>>, <<1, 0>>}, ts \in [1 .. h[1] -> {<<1>>, <<0, 0>>}],
            rows \in [1 .. h[2] -> {<<0>>, <<1, 1, 1>>}]} : h \in Header}
MCMagic == <<1, 0>>

MCArchiveBytes ==
  UNION {edits(write_archive(a), {0, 1, 2}) : a \in {a \in MCArchive : a[2] = Last(a) /\ Len(a) < 6}}

\* 1, 16 and 48 leave bits that no byte takes, 64 is no character of base64url
Chars == {0, 1, 16, 48, 63, 64}

Segment == UNION {[1 .. n -> Chars] : n \in 0 .. 4}

MCCompactText ==
  {s \o <<Dot>> \o t \o <<Dot>> \o u : s \in Segment, t, u \in {<<0, 0>>}}
    \cup {<<0, 0, Dot>> \o s \o <<Dot>> \o t : s, t \in UNION {[1 .. n -> {0, 16, Dot}] : n \in 0 .. 3}}

MCCompactSegments ==
  [1 .. 3 -> UNION {[1 .. n -> {0, 1, 255}] : n \in 1 .. 2}]
    \cup {<<s, <<1>>, <<1>>>> : s \in [1 .. 3 -> {0, 1, 77, 255}]}

\* odd orders, one big-endian and one little-endian
MCN == <<2, 1, 3>>
MCOrder == <<1, 3, 1>>

-----------------------------------------------------------------------------
(***************************************************************************)
(* Targets.                                                                *)
(***************************************************************************)

UpTo(n, symbols) == UNION {[1 .. k -> symbols] : k \in 0 .. n}

Octets == {<<"1">>, <<"9">>, <<"9", "9">>, <<"2", "5", "5">>, <<"2", "5", "6">>, <<"9", "9", "9">>,
           <<"0", "1">>, <<"0">>, <<"%39">>, <<"%39", "9">>, <<"%39", "%39", "%39">>, <<"a">>, << >>}

dotted(p, q, r, s) == p \o <<".">> \o q \o <<".">> \o r \o <<".">> \o s

groups_of(n) == IF n = 0 THEN << >> ELSE [i \in 1 .. 2 * n - 1 |-> IF i % 2 = 1 THEN "1" ELSE ":"]

Literals ==
  {groups_of(m) : m \in 0 .. 9} \cup {groups_of(m) \o <<":", ":">> \o groups_of(n) : m, n \in 0 .. 7}
    \cup {<<":">> \o groups_of(7), groups_of(7) \o <<":">>, <<":", ":", ":">>, <<"1", ":", ":", ":", "1">>,
          <<":", ":", "A", "1", "F", "f">>, <<":", ":", "1", "1", "1", "1", "1">>, <<":", ":", "v">>,
          <<"v", "1", ".", "A", ":">>, <<"v", ".", "a">>, <<"v", "1", ".">>, <<"v", "1", "a", ".", "%61">>,
          <<"v", "-", ".", "a">>}
    \cup {h \o q : h \in {<< >>, <<":", ":">>} \cup {groups_of(n) \o <<":">> : n \in 1 .. 7}
                        \cup {groups_of(n) \o <<":", ":">> : n \in 1 .. 6}
                        \cup {groups_of(m) \o <<":", ":">> \o groups_of(n) \o <<":">> : m, n \in 1 .. 5},
                   q \in {dotted(<<"1">>, <<"1">>, <<"1">>, <<"1">>), dotted(<<"1">>, <<"9">>, <<"2", "5", "6">>, <<"1">>)}}
    \cup {<<":", ":">> \o dotted(p, <<"1">>, q, p) : p, q \in Octets}
    \cup {dotted(<<"1">>, <<"1">>, <<"1">>, <<"1">>) \o e : e \in {<<":", ":">>, <<":", "1">>, <<".", "1">>, <<":", ":", "1">>}}
    \cup {<<":", ":">> \o dotted(<<"1">>, <<"1">>, <<"1">>, <<"1">>) \o e : e \in {<<":">>, <<".", "1">>, <<":", "1">>}}

PortText ==
  {<< >>} \cup {<<":">> \o d : d \in {<< >>, <<"0">>, <<"9">>, <<"0", "9">>, <<"4", "4", "3">>,
     <<"0", "4", "4", "3">>, <<"8", "0">>, <<"0", "8", "0">>, <<"6", "5", "5", "3", "5">>,
     <<"6", "5", "5", "3", "6">>, <<"a">>, <<"9", ":">>, <<"%39">>}}

Host ==
  UpTo(3, {"a", "A", ".", "9", "%41", "%2e", "%2f", "@"})
    \cup {dotted(p, <<"1">>, q, p) : p, q \in Octets}
    \cup {<<"[">> \o l \o <<"]">> : l \in Literals}
    \cup {<<"[", ":", ":">>, <<"[", ":", ":", "1", "]", "a">>, <<"a", "[", "]">>}
    \cup LoopbackHost

PortHost ==
  {<<"a">>, <<"%2f">>, <<"[", ":", ":", "1", "]">>,
   <<"1", "2", "7", ".", "0", ".", "0", ".", "1">>}

Path ==
  {<< >>}
    \cup {<<"/">> \o p : p \in UpTo(4, {"/", ".", "a", "%2e", "%2f"})
                             \cup UpTo(6, {"/", ".", "A"}) \cup {<<"@", ":", "+">>, <<"[">>}}

MCTargetText ==
  {<< >>, <<"/", "a">>}
    \cup {<<scheme>> \o host : scheme \in {"https://", "HTTPS://", "http://"}, host \in Host}
    \cup {<<scheme>> \o host \o port : scheme \in SecureScheme \cup PlainScheme,
                                        host \in PortHost, port \in PortText}
    \cup {<<"https://", "a">> \o path : path \in Path}
    \cup {<<"HTTP://", "[", ":", ":", "1", "]">> \o path : path \in Path}
    \cup {<<"https://">> \o [i \in 1 .. n |-> "a"] \o end :
             n \in UriBytes - 10 .. UriBytes - 7, end \in {<< >>, <<"/">>, <<"/", "#">>, <<"?">>}}

-----------------------------------------------------------------------------
(***************************************************************************)
(* Identifiers.                                                            *)
(***************************************************************************)

MCIdentifierText ==
  LET symbols == {"a", "1", ":", "/", "?", "#", "[", "]", "@"}
      others == {"%61", "{", "+", "."}
  IN  UpTo(4, symbols \cup others)
        \cup {<<"a", ":">> \o s : s \in UpTo(4, symbols)}
        \cup {<<"a", ":", "/", "/">> \o s : s \in UpTo(4, symbols) \cup UpTo(3, symbols \cup others)}
        \cup {<<"a", ":", "/", "/", "[">> \o l \o <<"]">> \o s : l \in Literals, s \in UpTo(2, symbols)}
        \cup {<<"a", ":", "a", ":", "/", "/">> \o s : s \in UpTo(3, symbols)}
        \cup {[i \in 1 .. n |-> c] : n \in IdentifierBytes .. IdentifierBytes + 1, c \in {"a", ":"}}
=============================================================================
