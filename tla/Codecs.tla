-------------------------------- MODULE Codecs --------------------------------
(***************************************************************************)
(* The pure functions between bytes and values that do not call            *)
(* themselves, each called once with whatever may be given to it, and the  *)
(* answer it returns: magnitudes of numbers, frames of archives, segments  *)
(* of compacts, scalars of signatures, targets and identifiers.  What an   *)
(* answer is held to is a definition of its own, of what a number, a text  *)
(* or a scalar stands for.                                                 *)
(***************************************************************************)
EXTENDS NumberLexeme, Framing, SignatureScalars, Identifiers

CONSTANTS
  Lexeme,
  ArchiveBytes, Archive,      \* bytes, and sequences of frames
  CompactText, CompactSegments,
  TargetText, IdentifierText

\* a lexeme has digits, a text is any sequence of characters; what is written is
\* nonempty bytes, no more of them than a reader takes
ASSUME CodecAssumption ==
  /\ Lexeme \subseteq [integer : Seq(0 .. Base - 1), fraction : Seq(0 .. Base - 1),
                      exponent : Seq(0 .. Base - 1), minus : BOOLEAN]
  /\ CompactText \subseteq Seq(Int)
  /\ TargetText \cup IdentifierText \subseteq Seq(STRING)
  /\ CompactSegments \subseteq [1 .. 3 -> Seq(0 .. 255)]
  /\ \A segments \in CompactSegments : \A i \in 1 .. 3 :
       segments[i] # << >> /\ Len(base64url_encode(segments[i])) <= SegmentBytes
  /\ {Magic} \cup ArchiveBytes \subseteq Seq(0 .. ByteBase - 1)
  /\ \A frames \in Archive : frames \in Seq(Seq(0 .. ByteBase - 1))

VARIABLES
  task,      \* the function called and what with
  answer     \* what it returned

dvars == <<task, answer>>

NoTask == [of |-> "nothing"]
NoAnswer == [ok |-> FALSE]

Call(t, a) == task' = t /\ answer' = a

-----------------------------------------------------------------------------
ReadNumber ==
  /\ task = NoTask
  /\ \E l \in Lexeme : Call([of |-> "parse_number", lexeme |-> l], [ok |-> number_accepted(l)])

ReadArchive ==
  /\ task = NoTask
  /\ \E bytes \in ArchiveBytes : Call([of |-> "read_archive", bytes |-> bytes], read_archive(bytes))

WriteArchive ==
  /\ task = NoTask
  /\ \E frames \in Archive :
       /\ encodable_archive(frames)
       /\ Call([of |-> "write_archive", frames |-> frames], [bytes |-> write_archive(frames)])

ParseCompact ==
  /\ task = NoTask
  /\ \E text \in CompactText : Call([of |-> "parse_compact", text |-> text], parse_compact(text))

ComposeCompact ==
  /\ task = NoTask
  /\ \E segments \in CompactSegments :
       Call([of |-> "compose_compact", segments |-> segments], [text |-> compose_compact(segments)])

CheckSignature ==
  /\ task = NoTask
  /\ \E s \in Number :
       \/ \E r \in Number :
            Call([of |-> "validate_rs_range", r |-> r, s |-> s], [ok |-> validate_rs_range(r, s)])
       \/ Call([of |-> "scalar_below_group_order", s |-> s], [ok |-> scalar_below_group_order(s)])
       \/ Call([of |-> "canonical", s |-> s], [ok |-> canonical(s)])

NormaliseTarget ==
  /\ task = NoTask
  /\ \E text \in TargetText :
       \/ Call([of |-> "uri_normalize", text |-> text], [forms |-> uri_normalize(text)])
       \/ Call([of |-> "local_loopback_http_uri_normalize", text |-> text],
               [forms |-> local_loopback_http_uri_normalize(text)])

CheckIdentifier ==
  /\ task = NoTask
  /\ \E text \in IdentifierText :
       \/ Call([of |-> "validate_identifier", text |-> text], [ok |-> validate_identifier(text)])
       \/ Call([of |-> "validate_sibling_identifier", text |-> text],
               [ok |-> validate_sibling_identifier(text)])

CodecsInit == task = NoTask /\ answer = NoAnswer

CodecsNext ==
  \/ ReadNumber
  \/ ReadArchive
  \/ WriteArchive
  \/ ParseCompact
  \/ ComposeCompact
  \/ CheckSignature
  \/ NormaliseTarget
  \/ CheckIdentifier

CodecsSpec == CodecsInit /\ [][CodecsNext]_dvars

-----------------------------------------------------------------------------
(***************************************************************************)
(* Numbers.                                                                *)
(***************************************************************************)

\* magnitudes: a number is accepted exactly when it is within its bound, whatever
\* fraction and exponent it is written with, as long as no exponent is longer
\* than those the code keeps (decompose_number).
MagnitudeExact ==
  (task.of = "parse_number" /\ Len(task.lexeme.exponent) <= ExponentDigits)
    => (answer.ok <=> lexeme_len(task.lexeme) <= LexemeBytes /\ within_magnitude(task.lexeme))

\* "integers and finite floats are bounded symmetrically"
\* (src/sdks/rust/src/json.rs:20-23): no number beyond its bound is accepted.
NumbersBounded ==
  task.of = "parse_number" /\ answer.ok => within_magnitude(task.lexeme)

-----------------------------------------------------------------------------
(***************************************************************************)
(* Frames and segments.                                                    *)
(***************************************************************************)

\* an archive has one reading: what was accepted is, to the last byte, what is
\* written for the frames that were read, and what an exporter may write is read,
\* as the frames it was written for.
OneReading ==
  /\ task.of = "read_archive" /\ answer.read => write_archive(answer.frames) = task.bytes
  /\ task.of = "write_archive" =>
       read_archive(answer.bytes) = [read |-> TRUE, frames |-> task.frames]

\* a compact has one text: no other spelling of its three segments is accepted,
\* and the one that is composed is.
OneText ==
  /\ task.of = "parse_compact" /\ answer.read => compose_compact(answer.segments) = task.text
  /\ task.of = "compose_compact" =>
       parse_compact(answer.text) = [read |-> TRUE, segments |-> task.segments]

-----------------------------------------------------------------------------
(***************************************************************************)
(* Scalars.                                                                *)
(***************************************************************************)

negated(s) == CHOOSE t \in Number : big_endian_value(s) + big_endian_value(t) = big_endian_value(N)

\* a signature and its twin, whose scalar is negated modulo the order: exactly
\* one of them is in range, and a scalar that is no scalar never is.
TwinRefused ==
  task.of = "validate_rs_range" =>
    LET order == big_endian_value(N)
    IN  IF {big_endian_value(task.r), big_endian_value(task.s)} \subseteq 1 .. order - 1
        THEN answer.ok = ~ validate_rs_range(task.r, negated(task.s))
        ELSE ~ answer.ok

\* a signature has one scalar: of those that are equal modulo the group order,
\* one is accepted.
ScalarReduced ==
  task.of = "scalar_below_group_order" =>
    LET order == little_endian_value(GROUP_ORDER_LE)
        equal == {t \in Number : little_endian_value(t) % order = little_endian_value(task.s) % order}
    IN  /\ Cardinality({t \in equal : scalar_below_group_order(t)}) = 1
        /\ answer.ok => {t \in equal : scalar_below_group_order(t)} = {task.s}

\* a point has one encoding: of those that decode to the same point, one is
\* canonical.
PointCanonical ==
  task.of = "canonical" =>
    LET equal == {t \in Number : point(t) = point(task.s)}
    IN  /\ Cardinality({t \in equal : canonical(t)}) = 1
        /\ answer.ok => {t \in equal : canonical(t)} = {task.s}

\* gates: a message has one signature per key that passes them and a key one
\* encoding, in both suites (es256.rs, ed25519.rs).
OneSpelling ==
  /\ TwinRefused
  /\ ScalarReduced
  /\ PointCanonical

-----------------------------------------------------------------------------
(***************************************************************************)
(* Targets.                                                                *)
(***************************************************************************)

\* the normal form is one: check_envelope refuses a target that is not its own
\* normal form, and takes what the function produced, but for an address that
\* was hidden in escapes and is none.
FormStable ==
  /\ task.of = "uri_normalize" =>
       \A form \in answer.forms :
         \/ uri_normalize(form) = {form}
         \/ EscapedAddress(task.text) /\ uri_normalize(form) = {}
  /\ task.of = "local_loopback_http_uri_normalize" =>
       \A form \in answer.forms : local_loopback_http_uri_normalize(form) = {form}

\* and names what the text names: the host, the port and the segments of the
\* path that RFC 3986 resolves it to.
FormNamesTarget ==
  task.of \in {"uri_normalize", "local_loopback_http_uri_normalize"} =>
    \A form \in answer.forms : named(form) = named(task.text)

\* targets: a target has one normal form, which names what it names, and a local
\* target is one for no other profile (uri_normalize, uri.rs).
OneTarget ==
  /\ FormStable
  /\ FormNamesTarget
  /\ task.of \in {"uri_normalize", "local_loopback_http_uri_normalize"} =>
       uri_normalize(task.text) = {} \/ local_loopback_http_uri_normalize(task.text) = {}

-----------------------------------------------------------------------------
(***************************************************************************)
(* Identifiers.                                                            *)
(***************************************************************************)

\* identifiers: a text with a colon is an identifier of an attestation or an
\* assertion exactly when it is a URI by RFC 3986 (Ipv6Addr knows no literal of
\* another version).  The older validator accepts the same texts, those that are
\* no URIs for what it never looks at as well, and of neither those where it takes
\* for a port what is none (validate_authority_port).
IdentifiersAreUris ==
  task.of \in {"validate_identifier", "validate_sibling_identifier"} =>
    LET text == task.text
        uri == IsUri(text)
    IN  IF ":" \notin Range(text) \/ uri_len(text) > IdentifierBytes
        THEN answer.ok <=> uri_len(text) \in 1 .. IdentifierBytes
        ELSE IF task.of = "validate_sibling_identifier"
        THEN answer.ok <=> uri /\ ~ Versioned(text)
        ELSE answer.ok <=> (uri \/ Tolerable(text)) /\ ~ Misread(text)
=============================================================================
