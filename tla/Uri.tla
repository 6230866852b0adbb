--------------------------------- MODULE Uri ----------------------------------
(***************************************************************************)
(* The normal form of a target URI, uri.rs: the two functions that a proof *)
(* signer and check_envelope hold a target to.                             *)
(*                                                                         *)
(* A text is a sequence of characters, of which a scheme with its "://" is *)
(* one and a percent escape is one.                                        *)
(***************************************************************************)
EXTENDS Integers, Sequences, SequencesExt

CONSTANTS UriBytes   \* bounds.uri_bytes()

ASSUME UriAssumption == UriBytes \in Nat

\* slice::position: the first index of c, or one beyond the end
position(s, c) ==
  IF \E i \in DOMAIN s : s[i] = c
  THEN CHOOSE i \in DOMAIN s : s[i] = c /\ \A j \in 1 .. i - 1 : s[j] # c
  ELSE Len(s) + 1

\* slice::split: the parts between the separators, one more than there are
split(s, c) ==
  LET parts[i \in 0 .. Len(s)] ==
        IF i = 0 THEN <<<< >>>>
        ELSE LET before == parts[i - 1]
             IN  IF s[i] = c THEN Append(before, << >>)
                 ELSE Append(Front(before), Append(Last(before), s[i]))
  IN  parts[Len(s)]

Digits == <<"0", "1", "2", "3", "4", "5", "6", "7", "8", "9">>
DecimalDigit == Range(Digits)
HexDigit == DecimalDigit \cup {"a", "f", "A", "F"}
Unreserved == HexDigit \cup {"v", "-", "."}
SubDelim == {"+"}

\* to_ascii_lowercase, of everything that has a case
Lowercase == [c \in {"A", "F"} |-> IF c = "A" THEN "a" ELSE "f"]

lower(c) == IF c \in DOMAIN Lowercase THEN Lowercase[c] ELSE c

\* the escapes of unreserved characters, and what is left of the others
Escape ==
  [c \in {"%2e", "%2E", "%39", "%61", "%41", "%2f", "%2F", "%40"} |->
     CASE c \in {"%2e", "%2E"} -> "." [] c = "%39" -> "9" [] c = "%61" -> "a" [] c = "%41" -> "A"
       [] c \in {"%2f", "%2F"} -> "%2F" [] c = "%40" -> "%40"]

unescape(c) == IF c \in DOMAIN Escape THEN Escape[c] ELSE c

SecureScheme == {"https://", "HTTPS://"}
PlainScheme == {"http://", "HTTP://"}

width(c) ==
  CASE c \in SecureScheme -> 8 [] c \in PlainScheme -> 7 [] c \in DOMAIN Escape -> 3 [] OTHER -> 1

uri_len(text) ==
  LET bytes[i \in 0 .. Len(text)] == IF i = 0 THEN 0 ELSE bytes[i - 1] + width(text[i])
  IN  bytes[Len(text)]

-----------------------------------------------------------------------------
(***************************************************************************)
(* The authority.  A function that may refuse has at most one result.      *)
(***************************************************************************)

decimal(digits) ==
  LET value[i \in 0 .. Len(digits)] ==
        IF i = 0 THEN 0 ELSE 10 * value[i - 1] + position(Digits, digits[i]) - 1
  IN  value[Len(digits)]

all_digits(s) == s # << >> /\ Range(s) \subseteq DecimalDigit

without_zeros(digits) ==
  LET first == CHOOSE i \in DOMAIN digits :
                 digits[i] # "0" /\ \A j \in 1 .. i - 1 : digits[j] = "0"
  IN  SubSeq(digits, first, Len(digits))

\* the port of the scheme is not written
parse_port(digits, default) ==
  IF all_digits(digits) /\ decimal(digits) \in 1 .. 65535
  THEN {IF decimal(digits) = default THEN << >> ELSE <<":">> \o without_zeros(digits)}
  ELSE {}

parse_port_after_literal(after) ==
  IF after = << >> THEN {<< >>}
  ELSE IF after[1] = ":" THEN parse_port(Tail(after), 443) ELSE {}

is_ipvfuture_shape(s) ==
  LET dot == position(s, ".")
  IN  /\ Len(s) >= 3 /\ s[1] = "v" /\ dot \in 3 .. Len(s)
      /\ \A i \in 2 .. dot - 1 : s[i] \in HexDigit

validate_ipvfuture(s) ==
  LET tail == SubSeq(s, position(s, ".") + 1, Len(s))
  IN  tail # << >> /\ Range(tail) \subseteq Unreserved \cup SubDelim \cup {":"}

is_h16(s) == Len(s) \in 1 .. 4 /\ Range(s) \subseteq HexDigit

\* at most one "::", for one group or more
validate_ipv6(s) ==
  LET elisions == {i \in 1 .. Len(s) - 1 : s[i] = ":" /\ s[i + 1] = ":"}
      parts(t) == IF t = << >> THEN << >> ELSE split(t, ":")
      cut == IF elisions = {} THEN Len(s) + 1 ELSE CHOOSE i \in elisions : TRUE
      groups16 == parts(SubSeq(s, 1, cut - 1)) \o parts(SubSeq(s, cut + 2, Len(s)))
  IN  /\ s # << >> /\ Cardinality(elisions) <= 1
      /\ \A i \in DOMAIN groups16 : is_h16(groups16[i])
      /\ IF elisions = {} THEN Len(groups16) = 8 ELSE Len(groups16) <= 7

validate_ip_literal(content) ==
  LET s == [i \in DOMAIN content |-> lower(content[i])]
  IN  IF IF is_ipvfuture_shape(s) THEN validate_ipvfuture(s) ELSE validate_ipv6(s)
      THEN {s} ELSE {}

is_ipv4_candidate(s) ==
  LET parts == split(s, ".") IN Len(parts) = 4 /\ \A i \in 1 .. 4 : all_digits(parts[i])

is_dec_octet(s) == Len(s) <= 3 /\ (s[1] = "0" => Len(s) = 1) /\ decimal(s) <= 255

normalize_reg_name(s) ==
  IF Range(s) \subseteq Unreserved \cup SubDelim \cup DOMAIN Escape
  THEN {[i \in DOMAIN s |-> lower(unescape(s[i]))]} ELSE {}

normalize_host(s) ==
  IF ~ is_ipv4_candidate(s) THEN normalize_reg_name(s)
  ELSE IF \A i \in 1 .. 4 : is_dec_octet(split(s, ".")[i]) THEN {s} ELSE {}

\* host and port, as they are written
parse_authority(auth) ==
  LET close == position(auth, "]")
      colon == position(auth, ":")
  IN  CASE auth = << >> \/ "@" \in Range(auth) -> {}
        [] auth # << >> /\ "@" \notin Range(auth) /\ auth[1] = "[" ->
             IF close > Len(auth) THEN {}
             ELSE {<<"[">> \o host \o <<"]">> \o port :
                     host \in validate_ip_literal(SubSeq(auth, 2, close - 1)),
                     port \in parse_port_after_literal(SubSeq(auth, close + 1, Len(auth)))}
        [] OTHER ->
             {host \o port :
                host \in IF colon = 1 THEN {} ELSE normalize_host(SubSeq(auth, 1, colon - 1)),
                port \in IF colon > Len(auth) THEN {<< >>}
                         ELSE parse_port(SubSeq(auth, colon + 1, Len(auth)), 443)}

-----------------------------------------------------------------------------
(***************************************************************************)
(* The path.                                                               *)
(***************************************************************************)

\* variant: the last slash stays
pop_last_segment_slash(output) ==
  LET slashes == {i \in DOMAIN output : output[i] = "/"}
  IN  IF slashes = {} THEN << >>
      ELSE SubSeq(output, 1, CHOOSE i \in slashes : \A j \in slashes : j <= i)

\* before the last slash, or nothing
pop_last_segment(output) ==
  LET slashes == {i \in DOMAIN output : output[i] = "/"}
  IN  IF slashes = {} THEN << >>
      ELSE SubSeq(output, 1, (CHOOSE i \in slashes : \A j \in slashes : j <= i) - 1)

\* one turn of the loop of remove_dot_segments
remove_dots(input, output) ==
  LET left(i, written) == [input |-> SubSeq(input, i, Len(input)), output |-> written]
      slash(written) == [input |-> <<"/">>, output |-> written]
      begins(s) == IsPrefix(s, input)
      next == position(Tail(input), "/") + 1
  IN  CASE input = << >>                   -> left(1, output)
        [] begins(<<".", ".", "/">>)       -> left(4, output)
        [] begins(<<".", "/">>)            -> left(3, output)
        [] begins(<<"/", ".", "/">>)       -> left(3, output)
        [] input = <<"/", ".">>            -> slash(output)
        [] begins(<<"/", ".", ".", "/">>)  -> left(4, pop_last_segment(output))
        [] input = <<"/", ".", ".">>       -> slash(pop_last_segment(output))
        [] input \in {<<".">>, <<".", ".">>} -> left(Len(input) + 1, output)
        [] OTHER -> left(next, output \o SubSeq(input, 1, next - 1))

\* every turn shortens the input
remove_dot_segments(path) ==
  LET after[n \in 0 .. Len(path)] ==
        IF n = 0 THEN [input |-> path, output |-> << >>]
        ELSE LET before == after[n - 1] IN remove_dots(before.input, before.output)
  IN  after[Len(path)].output

PathChar == Unreserved \cup SubDelim \cup {":", "@", "/"} \cup DOMAIN Escape

\* variant: dot segments are looked for before escapes are read
normalize_path_dots_first(path) ==
  LET cleaned == remove_dot_segments(path)
  IN  IF ~ Range(path) \subseteq PathChar THEN {}
      ELSE IF cleaned = << >> THEN {<<"/">>} ELSE {[i \in DOMAIN cleaned |-> unescape(cleaned[i])]}

normalize_path(path) ==
  LET cleaned == remove_dot_segments([i \in DOMAIN path |-> unescape(path[i])])
  IN  IF ~ Range(path) \subseteq PathChar THEN {}
      ELSE IF cleaned = << >> THEN {<<"/">>} ELSE {cleaned}

-----------------------------------------------------------------------------
authority_of(rest) == SubSeq(rest, 1, position(rest, "/") - 1)
path_of(rest) == SubSeq(rest, position(rest, "/"), Len(rest))

within(texts) == {t \in texts : uri_len(t) <= UriBytes}

\* none, or the normal form of an https target
uri_normalize(text) ==
  IF text = << >> \/ uri_len(text) > UriBytes \/ Range(text) \cap {"?", "#"} # {} THEN {}
  ELSE IF text[1] \notin SecureScheme THEN {}
  ELSE within({<<"https://">> \o authority \o path :
                 authority \in parse_authority(authority_of(Tail(text))),
                 path \in normalize_path(path_of(Tail(text)))})

LoopbackHost == {<<"1", "2", "7", ".", "0", ".", "0", ".", "1">>, <<"[", ":", ":", "1", "]">>}

\* the two hosts, as they are written, with a port or without
loopback_authority(authority) ==
  {host \in LoopbackHost : host = authority}
    \cup UNION {{host \o port : port \in parse_port(SubSeq(authority, Len(host) + 2, Len(authority)), 80)} :
                  host \in {h \in LoopbackHost : IsPrefix(h \o <<":">>, authority)}}

\* none, or the normal form of an http target of the local loopback profile
local_loopback_http_uri_normalize(text) ==
  IF text = << >> \/ uri_len(text) > UriBytes \/ Range(text) \cap {"?", "#"} # {} THEN {}
  ELSE IF text[1] \notin PlainScheme THEN {}
  ELSE within({<<"http://">> \o authority \o path :
                 authority \in loopback_authority(authority_of(Tail(text))),
                 path \in normalize_path(path_of(Tail(text)))})

-----------------------------------------------------------------------------
(***************************************************************************)
(* What a target names, whatever its spelling: RFC 3986's reading, which   *)
(* takes a path a segment at a time.                                       *)
(***************************************************************************)

Dots == {<<".">>, <<".", ".">>}

resolved(path) ==
  LET segments == Tail(split([i \in DOMAIN path |-> unescape(path[i])], "/"))
      stack[i \in 0 .. Len(segments)] ==
        IF i = 0 THEN << >>
        ELSE LET below == stack[i - 1]
             IN  CASE segments[i] = <<".">>      -> below
                   [] segments[i] = <<".", ".">> -> IF below = << >> THEN below ELSE Front(below)
                   [] OTHER                      -> Append(below, segments[i])
      top == stack[Len(segments)]
  IN  IF path = << >> THEN <<<< >>>>
      ELSE IF Last(segments) \in Dots THEN Append(top, << >>) ELSE top

\* the colon that begins a port comes after any literal
named(text) ==
  LET authority == authority_of(Tail(text))
      close == position(authority, "]")
      literal == close <= Len(authority)
      after == IF literal THEN close ELSE 0
      colon == after + position(SubSeq(authority, after + 1, Len(authority)), ":")
      host == SubSeq(authority, 1, colon - 1)
  IN  [host |-> [i \in DOMAIN host |-> lower(unescape(host[i]))],
       port |-> IF colon > Len(authority) THEN (IF text[1] \in PlainScheme THEN 80 ELSE 443)
                ELSE decimal(SubSeq(authority, colon + 1, Len(authority))),
       path |-> resolved(path_of(Tail(text)))]

\* a host that is an address only once its escapes are read: it has a normal
\* form, which uri_normalize refuses or keeps like any dotted quad
EscapedAddress(text) ==
  LET host == authority_of(Tail(text))
      name == SubSeq(host, 1, position(host, ":") - 1)
  IN  /\ ~ is_ipv4_candidate(name)
      /\ is_ipv4_candidate([i \in DOMAIN name |-> lower(unescape(name[i]))])
=============================================================================
