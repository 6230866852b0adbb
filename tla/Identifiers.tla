------------------------------ MODULE Identifiers ------------------------------
(***************************************************************************)
(* The syntax of identifiers: issuers, audiences, ids of credentials and   *)
(* of chains.  v1.rs, v2.rs and v3.rs have one copy of a validator each,   *)
(* the same text; role_attestation.rs has another one, for attestations    *)
(* and content assertions, that reads the authority of a URI more closely. *)
(*                                                                         *)
(* A text is a sequence of characters, of which a percent escape is one.   *)
(***************************************************************************)
EXTENDS Uri

CONSTANTS IdentifierBytes   \* bounds.identifier_bytes()

ASSUME IdentifierAssumption == IdentifierBytes \in Nat

Letter == {"a", "f", "v", "A", "F"}
SchemeChar == Letter \cup DecimalDigit \cup {"+", "-", "."}
UriPunct == {":", "/", "?", "#", "[", "]", "@"}
Bracket == {"[", "]"}

validate_scheme(scheme) ==
  scheme # << >> /\ scheme[1] \in Letter /\ Range(scheme) \subseteq SchemeChar

validate_uri_bytes(s) ==
  Range(s) \subseteq Unreserved \cup SubDelim \cup UriPunct \cup DOMAIN Escape

digits_only(s) == Range(s) \subseteq DecimalDigit

first_of(s, cs) ==
  LET ends == {i \in DOMAIN s : s[i] \in cs}
  IN  IF ends = {} THEN Len(s) + 1 ELSE CHOOSE i \in ends : \A j \in ends : i <= j

last_colon(s) ==
  LET colons == {i \in DOMAIN s : s[i] = ":"}
  IN  IF colons = {} THEN 0 ELSE CHOOSE i \in colons : \A j \in colons : j <= i

text_before(s, i) == SubSeq(s, 1, i - 1)
text_from(s, i) == SubSeq(s, i, Len(s))
occurrences(s, c) == Cardinality({i \in DOMAIN s : s[i] = c})

-----------------------------------------------------------------------------
(***************************************************************************)
(* The validator of grants, proofs and evidence.                           *)
(***************************************************************************)

\* "://" wherever it is found; what begins with a bracket is not looked at
validate_authority_port(s) ==
  LET marks == {i \in DOMAIN s : IsPrefix(<<":", "/", "/">>, text_from(s, i))}
      mark == CHOOSE i \in marks : \A j \in marks : i <= j
      rest == text_from(s, mark + 3)
      authority == text_before(rest, first_of(rest, {"/", "?", "#"}))
      port == text_from(authority, last_colon(authority) + 1)
  IN  \/ marks = {}
      \/ IsPrefix(<<"[">>, authority)
      \/ last_colon(authority) = 0
      \/ port # << >> /\ digits_only(port)

\* variant: the port is not looked at
validate_identifier_any_port(s) ==
  /\ s # << >> /\ uri_len(s) <= IdentifierBytes
  /\ ":" \in Range(s) =>
       validate_scheme(text_before(s, position(s, ":"))) /\ validate_uri_bytes(s)

\* a text without a colon is any text
validate_identifier(s) ==
  /\ s # << >> /\ uri_len(s) <= IdentifierBytes
  /\ ":" \in Range(s) =>
       /\ validate_scheme(text_before(s, position(s, ":")))
       /\ validate_uri_bytes(s)
       /\ validate_authority_port(s)

-----------------------------------------------------------------------------
(***************************************************************************)
(* The validator of attestations and assertions.                           *)
(***************************************************************************)

\* nothing, or a colon and digits, of which there may be none
port_suffix(suffix) ==
  suffix # << >> => suffix[1] = ":" /\ digits_only(Tail(suffix))

\* Ipv4Addr and Ipv6Addr of the standard library, from_str: groups of hexadecimal
\* digits, "::" for one of them or more, and an IPv4 address for the last two
Ipv4Addr(s) ==
  is_ipv4_candidate(s) /\ \A i \in 1 .. 4 : is_dec_octet(split(s, ".")[i])

Ipv6Addr(s) ==
  LET elisions == {i \in 1 .. Len(s) - 1 : s[i] = ":" /\ s[i + 1] = ":"}
      cut == CHOOSE i \in elisions : TRUE
      groups(t) == IF t = << >> THEN << >> ELSE split(t, ":")
      head == IF elisions = {} THEN << >> ELSE groups(text_before(s, cut))
      tail == IF elisions = {} THEN groups(s) ELSE groups(text_from(s, cut + 2))
      dotted == tail # << >> /\ Ipv4Addr(Last(tail))
      hextets == head \o IF dotted THEN Front(tail) ELSE tail
      count == Len(hextets) + IF dotted THEN 2 ELSE 0
  IN  /\ Cardinality(elisions) <= 1
      /\ \A i \in DOMAIN hextets : is_h16(hextets[i])
      /\ IF elisions = {} THEN count = 8 ELSE count <= 7

\* variant: the literal is held to the rules for those of targets
host_port_ok_target(host_port) ==
  LET close == position(host_port, "]")
  IN  IF IsPrefix(<<"[">>, host_port)
      THEN /\ close <= Len(host_port)
           /\ validate_ipv6(SubSeq(host_port, 2, close - 1))
           /\ port_suffix(text_from(host_port, close + 1))
      ELSE /\ Range(host_port) \cap Bracket = {}
           /\ occurrences(host_port, ":") <= 1
           /\ last_colon(host_port) # 0 =>
                digits_only(text_from(host_port, last_colon(host_port) + 1))

host_port_ok(host_port) ==
  LET close == position(host_port, "]")
  IN  IF IsPrefix(<<"[">>, host_port)
      THEN /\ close <= Len(host_port)
           /\ Ipv6Addr(SubSeq(host_port, 2, close - 1))
           /\ port_suffix(text_from(host_port, close + 1))
      ELSE /\ Range(host_port) \cap Bracket = {}
           /\ occurrences(host_port, ":") <= 1
           /\ last_colon(host_port) # 0 =>
                digits_only(text_from(host_port, last_colon(host_port) + 1))

\* only the authority that follows the scheme, without its userinfo
validate_sibling_authority_port(s) ==
  LET after_scheme == text_from(s, position(s, ":") + 1)
      rest == text_from(after_scheme, 3)
      end == first_of(rest, {"/", "?", "#"})
      authority == text_before(rest, end)
      at == position(authority, "@")
  IN  IF ~ IsPrefix(<<"/", "/">>, after_scheme) THEN Range(after_scheme) \cap Bracket = {}
      ELSE /\ Range(text_from(rest, end)) \cap Bracket = {}
           /\ IF at > Len(authority) THEN host_port_ok(authority)
              ELSE /\ Range(text_before(authority, at)) \cap Bracket = {}
                   /\ occurrences(authority, "@") = 1
                   /\ host_port_ok(text_from(authority, at + 1))

\* variant: a second fragment is not looked for
validate_sibling_identifier_fragments(s) ==
  /\ s # << >> /\ uri_len(s) <= IdentifierBytes
  /\ ":" \in Range(s) =>
       /\ validate_scheme(text_before(s, position(s, ":")))
       /\ validate_uri_bytes(s)
       /\ validate_sibling_authority_port(s)

validate_sibling_identifier(s) ==
  /\ s # << >> /\ uri_len(s) <= IdentifierBytes
  /\ ":" \in Range(s) =>
       /\ validate_scheme(text_before(s, position(s, ":")))
       /\ validate_uri_bytes(s)
       /\ occurrences(s, "#") <= 1
       /\ validate_sibling_authority_port(s)

-----------------------------------------------------------------------------
(***************************************************************************)
(* The grammar of RFC 3986, component by component, with all its literals; *)
(* then where the validators are known not to follow it.                   *)
(***************************************************************************)

UserinfoChar == Unreserved \cup SubDelim \cup DOMAIN Escape \cup {":"}
QueryChar == UserinfoChar \cup {"@", "/", "?"}

\* dec-octet
IsOctet(d) ==
  /\ Range(d) \subseteq DecimalDigit
  /\ \/ Len(d) = 1
     \/ Len(d) = 2 /\ d[1] # "0"
     \/ Len(d) = 3 /\ d[1] = "1"
     \/ Len(d) = 3 /\ d[1] = "2" /\ d[2] \in {"0", "1", "2", "3", "4"}
     \/ Len(d) = 3 /\ d[1] = "2" /\ d[2] = "5" /\ d[3] \in {"0", "1", "2", "3", "4", "5"}

\* IPv4address
IsDotted(t) ==
  LET octets == split(t, ".") IN Len(octets) = 4 /\ \A i \in 1 .. 4 : IsOctet(octets[i])

\* n times h16, with colons between them
IsHextets(t, n) ==
  LET parts == split(t, ":")
  IN  IF n = 0 THEN t = << >>
      ELSE /\ Len(parts) = n
           /\ \A i \in 1 .. n : Len(parts[i]) \in 1 .. 4 /\ Range(parts[i]) \subseteq HexDigit

\* the same, or with ls32 in its other form, which stands for two
IsGroups(t, n) ==
  \/ IsHextets(t, n)
  \/ n = 2 /\ IsDotted(t)
  \/ \E i \in DOMAIN t :
       n > 2 /\ t[i] = ":" /\ IsHextets(text_before(t, i), n - 2) /\ IsDotted(text_from(t, i + 1))

\* IPv6address
IsAddress(t) ==
  \/ IsGroups(t, 8)
  \/ \E i \in 1 .. Len(t) - 1, m, n \in 0 .. 7 :
       /\ m + n <= 7 /\ t[i] = ":" /\ t[i + 1] = ":"
       /\ IsHextets(text_before(t, i), m)
       /\ IsGroups(text_from(t, i + 2), n)

\* IPvFuture
IsFutureAddress(t) ==
  \E dot \in DOMAIN t :
    /\ t[1] = "v" /\ t[dot] = "." /\ dot > 2 /\ dot < Len(t)
    /\ Range(SubSeq(t, 2, dot - 1)) \subseteq HexDigit
    /\ Range(text_from(t, dot + 1)) \subseteq Unreserved \cup SubDelim \cup {":"}

\* [ userinfo "@" ] ( "[" literal "]" / reg-name ) [ ":" port ]
IsAuthority(s) ==
  \E at \in 0 .. Len(s), end \in 0 .. Len(s) :
    LET host == SubSeq(s, at + 1, end)
        literal == SubSeq(host, 2, Len(host) - 1)
        port == text_from(s, end + 1)
    IN  /\ at # 0 => s[at] = "@" /\ Range(text_before(s, at)) \subseteq UserinfoChar
        /\ end >= at
        /\ \/ Range(host) \subseteq UserinfoChar \ {":"}
           \/ /\ Len(host) > 2 /\ host[1] = "[" /\ Last(host) = "]"
              /\ IsAddress(literal) \/ IsFutureAddress(literal)
        /\ port_suffix(port)

IsUri(s) ==
  LET colon == position(s, ":")
      hash == position(s, "#")
      query == first_of(s, {"?", "#"})
      hier == SubSeq(s, colon + 1, query - 1)
      slash == first_of(text_from(hier, 3), {"/"})
  IN  /\ colon < query
      /\ validate_scheme(text_before(s, colon))
      /\ Range(text_from(s, hash + 1)) \subseteq QueryChar
      /\ Range(SubSeq(s, query + 1, hash - 1)) \subseteq QueryChar
      /\ IF IsPrefix(<<"/", "/">>, hier)
         THEN /\ IsAuthority(text_before(text_from(hier, 3), slash))
              /\ Range(text_from(text_from(hier, 3), slash)) \subseteq QueryChar \ {"?"}
         ELSE Range(hier) \subseteq QueryChar \ {"?"}

\* a literal that is no address of version 6: Ipv6Addr knows none
Versioned(s) == \E i \in 1 .. Len(s) - 1 : s[i] = "[" /\ s[i + 1] = "v"

\* what an authority that begins at i would be
authority_at(s, i) ==
  LET rest == text_from(s, i) IN text_before(rest, first_of(rest, {"/", "?", "#"}))

has_authority(s) == IsPrefix(<<"/", "/">>, text_from(s, position(s, ":") + 1))
authority_text(s) == authority_at(s, position(s, ":") + 3)

host_text(a) == IF "@" \in Range(a) THEN text_from(a, position(a, "@") + 1) ELSE a

\* with a colon, no literal in front, and no port at its end
Portless(a) ==
  /\ ":" \in Range(a) /\ a[1] # "["
  /\ ~ \E i \in DOMAIN a : /\ a[i] = ":" /\ i < Len(a)
                           /\ \A j \in i + 1 .. Len(a) : a[j] \in DecimalDigit

IsMark(s, i) == i + 2 <= Len(s) /\ s[i] = ":" /\ s[i + 1] = "/" /\ s[i + 2] = "/"

\* what follows the first "://", wherever that is, looks like an authority with a
\* port that is none: an empty one, or the rest of the userinfo or of an address
Misread(s) ==
  \E i \in DOMAIN s :
    IsMark(s, i) /\ (\A j \in 1 .. i - 1 : ~ IsMark(s, j)) /\ Portless(authority_at(s, i + 3))

\* no URI for what the first validator does not look at: brackets, a second "#",
\* a second "@" in the authority, or a second colon in what follows the userinfo
Tolerable(s) ==
  /\ validate_scheme(text_before(s, position(s, ":")))
  /\ Range(s) \subseteq QueryChar \cup {"#"} \cup Bracket
  /\ \/ Range(s) \cap Bracket # {}
     \/ occurrences(s, "#") > 1
     \/ has_authority(s) /\ occurrences(authority_text(s), "@") > 1
     \/ has_authority(s) /\ occurrences(host_text(authority_text(s)), ":") > 1
=============================================================================
