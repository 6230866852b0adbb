# TLA+ models of the Bounded Authority Protocol SDK

Bounded Authority Protocol (BAP) is a library that canonicalises, encodes and verifies
credentials that delegate a bounded authority, and that chains, anchors and archives
records of its use. The modules here model the Rust crate in `sdks/rust/src`. It keeps
no state, reads no clock, stores nothing and sends nothing. Everything that changes
over time - the clock, the nonces in flight, the credentials on the wire, the log, the
rotation of keys, the archive in storage - belongs to the programs around it. The
specifications translate the crate's functions and put them where they are used,
between issuers, holders, hosts, custodians, auditors, attestors, authors and an
adversary, and state what its verdicts are worth there. Between bytes and values, where
a function is used by itself, it is held to a definition of what it should compute.

Paths without a directory are under `sdks/rust/src/`.

## Inventory

| part | source | state around it | operations | what makes it correct |
|---|---|---|---|---|
| grants and envelopes | `v1.rs`, `v2.rs`, `v3.rs` | clock, grants, nonces, proofs, facts | `grant_signing_input`, `proof_signing_input`, `assemble_compact`, `untrusted_key_locator`, `decode_*`, `verify_grant`, `check_envelope` | a call is accepted only as the issuer delegated it and the holder meant it; replay is bounded; honest credentials are accepted |
| local loopback profile | `v1.rs`, `uri.rs` | as above | the loopback twins of the proof operations | no proof crosses between the profiles; a challenge is always answered |
| strict signatures | `ed25519.rs`, `es256.rs` | none | `verify`, `signature_gate`, `canonical`, `validate_rs_range`, `validate_point` | one signature per message and key, one encoding per key, no key without an owner |
| selectors and digests | `selector.rs`, `digest.rs` | none | `validate`, `evaluate`, `request_digest*` | three parties that hold JSON in their own ways agree on which arguments are meant and admitted |
| consumption chains | `v*.rs` | the log | `encode_consumption_entry`, `check_chain` | a head fixes its history |
| boundary anchors, key transitions | `v*.rs` | keys in custody | `*_signing_input`, `verify_historical_anchor`, `verify_key_transition` | custody passes only through keys that named their successors |
| anchored exports | `v*.rs` | archives | `encode_anchored_export`, `verify_anchored_export` | an archive is a piece of the log byte for byte; what is exported verifies; its bytes have one reading |
| content assertions | `content_assertion.rs` | lineages | `assertion_signing_input`, assembly, `verify_content_assertion`, the successor check | a reader that follows the author holds the author's lineage |
| role attestations | `role_attestation.rs` | keys that end and leak, kept facts | `attestation_signing_input`, assembly, `verify_attestation` | facts are the attestor's, about the subject asked for, and end before the key may leak |
| compact framing | `compact.rs`, `base64url.rs`, the assemblers | inputs, signatures, compacts | `parse_compact`, `compose_compact`, `assemble_compact` | a signature has one meaning, a compact one reader and one text |
| JSON, canonical JSON | `json.rs`, `jcs.rs` | none | `json_decode`, `jcs_encode` | the decoder reads JSON and nothing else, decoder and encoder draw one line, magnitudes are exact |
| bounds | `bounds.rs` | none | `new`, `maximum` | overrides only take away |
| URIs, identifiers | `uri.rs`, validators in `v*.rs`, `role_attestation.rs` | none | `uri_normalize`, `local_loopback_http_uri_normalize`, `validate_identifier` | one normal form that names what the text names; identifiers are URIs, and where the two validators differ is known exactly |
| public keys | `jwk.rs` | none | `jwk_decode_public`, thumbprints | see Not modelled |
| conformance runners, the Elixir library, other SDKs, scripts, ProVerif models | `sdks/rust/conformance/`, `lib/`, `sdks/go/`, `scripts/`, `spec/formal/` | files | around the crate | not modelled |

The parts meet through values, never through shared state: a host hands compacts and
an expected context to `check_envelope` and keeps the facts; an exporter hands rows,
anchors and transitions to `encode_anchored_export`; an auditor hands what storage
returned, a chain of historical keys and an expectation to `verify_anchored_export`.
What is hard is what happens between calls: time passes between signing and verifying,
copies and forgeries arrive in any order and any number of times, keys are rotated,
end and leak, signing inputs and signatures are exchanged, and three parties hold the
same JSON differently. The other hard part is at the edge, where one meaning must have
one text. Every hazard is listed at its line in `PROJECT.json`.

## Modules

| module | models | uses |
|---|---|---|
| `Signatures` | what the gates of both suites let through, symbolically | |
| `Credentials` | compacts, claims, digests, contexts and facts of envelopes; `i64` that saturates | `Signatures` |
| `EnvelopeV1`, `EnvelopeV2`, `EnvelopeV3` | grants, proofs and envelopes, each from its own file; the loopback profile is in `EnvelopeV1` | `Credentials` |
| `Envelope` | which module a call goes to | the three |
| `EnvelopeSystem` | issuers, holders, hosts with clocks, the adversary | `Envelope` |
| `BoundedAuthority` | what the envelope promises, without credentials | |
| `Evidence` | rows, anchors, transitions, archives, keys with windows | `Signatures` |
| `EvidenceV1`, `EvidenceV2`, `EvidenceV3` | chains, anchors, transitions, exports, each from its own file | `Evidence` |
| `AnchoredExport` | which module a call goes to | the three |
| `ArchiveSystem` | writer, custodian, exporter, auditor, the adversary | `AnchoredExport` |
| `HistoricalKeys` | windows of keys in the sibling profiles | `Signatures` |
| `ContentAssertion`, `LineageSystem` | assertions and successors; author, readers, the adversary | `HistoricalKeys` |
| `TamperEvidentLog` | what archives and lineages both promise, without hashes or keys | |
| `RoleAttestation`, `RoleSystem` | attestations; attestors, keys that end and leak, hosts that keep facts | `HistoricalKeys` |
| `CompactJws`, `CompactSystem` | headers, payloads, parsers and assemblers of every kind; producers, signers, assemblers, hosts | |
| `Selectors`, `SelectorSystem` | JSON values, digests, selectors and their wire form; issuer, holder and host | |
| `Json` | overrides of the limits; the decoder and the encoder | |
| `NumberLexeme` | the bound on numbers | |
| `Framing` | base64url, segments, frames of archives | |
| `Uri`, `Identifiers` | both normalisers; both validators of identifiers and RFC 3986's grammar | |
| `SignatureScalars` | the gates of `Signatures` once more, as arithmetic on bytes | |
| `Codecs` | the functions between bytes and values that do not call themselves, each called once, and what its answer is held to | `NumberLexeme`, `Framing`, `SignatureScalars`, `Identifiers`, `Uri` |
| `Decoders` | the same of the functions over JSON texts, which do, and all of them together | `Json`, `Codecs` |

`MC*` modules give the constants their values, and `MCWire` joins `CompactSystem` and
`Decoders`, messages and their bytes, in one specification; `ChainLemmas` and `*_proofs`
hold the theorems.

### How the models correspond to the code

*Operations.* Each function is an operator of its own name; where a check inside a long
function is worth a name, it has one (`holder_bound_v1`, `request_bound_v1`, ... are
the parts of `check_envelope_for`). A function that returns `Result<T>` is a predicate,
true where it returns `Ok`, and another operator builds the `T`. A verification is one
step, since the crate is pure: the action of a host picks any compacts from the wire
and any context, and records the facts if the function returns any. A refusal changes
nothing. `TrustedIssuer`, `ExpectedGrant` and their like are records of the caller's.

*Majors.* `v1.rs`, `v2.rs` and `v3.rs` are near copies of one another. They are not
folded into one operator with a parameter: each is translated from its own lines, so
that a check that is missing in one file would be missing in one module.

*Hashes and signatures.* A hash is the value hashed, a signature is the key that made
it, the message and whether its scalar is canonical: hashing is injective and nobody
signs with another's key. `shifted` gives anybody the other scalar of a signature, and
a key of small order verifies anything, which the gates must refuse. That the gates as
written decide exactly this is what `SignatureScalars` is about.

*Bytes.* Where bytes that differ mean the same (a grant re-encoded, a row with spaces)
a value carries a `form`. Texts are sequences of characters in `Json`, `Uri` and
`Identifiers`: an escape, a literal or a surrogate pair is one character where nothing
inside it is looked at by more than one rule. Canonical JSON in `Selectors` is modelled
by what it keeps: typed values tell -0.0 from 0.0 and 1 from 1.0, canonical bytes tell
neither pair apart, and the module is about just this.

*Recursion.* The functions of `Json` call themselves on the rest of a text and are
recursive operators. The loops of the other modules over bytes are functions of an index
(`LET f[i \in ...]`): `split`, `uri_len`, `decimal` and `remove_dot_segments` of `Uri`
among them. Those of `Selectors` call themselves on the parts of a value and are functions on `Value`, the values that nest no deeper than the library goes
(`MaxDepth`, `bounds.depth()`); encoder and decoder refuse the others. A list of members
or items has any length, but for what `valid_selectors` and `validate` bound.

*The adversary* owns the wire. It replays, reorders and mixes whatever was signed,
shifts scalars, re-encodes, forges whatever needs no honest key, and owns keys that
hosts may trust beside the honest ones.

Operators marked `variant` are the same code with a plausible bug; no specification
uses them. Each property is violated when its variant replaces the operator it is a
variant of, which is recorded under `mutants`.

### The actions

- `EnvelopeSystem`: `Tick`, `IssueGrant`, `Challenge`, `SignProof`,
  `SignProofElsewhere`, `VerifyGrant`, `CheckEnvelope`. The host's clock is `now`;
  issuers' and holders' clocks are within `Drift` of it. The crate's producer leaves
  the nonce out of a standard proof, while its decoder takes one:
  `SignProofElsewhere` is a holder with another implementation.
- `ArchiveSystem`: `Tick`, `AppendRow`, `SignAnchor`, `RotateKey`, `ExportLog`,
  `VerifyArchive`. `KeyPath` is the custodian's keys in order, `epoch` how far along
  it each chain is.
- `LineageSystem`: `Tick`, `Publish`, `VerifyAssertion`, `Follow`. A reader starts
  from any facts and goes on with `verify_content_assertion_successor`.
- `RoleSystem`: `Tick`, `Attest`, `Leak`, `VerifyAttestation`. One clock serves
  attestors and hosts; a key leaks only after its window, as its record promises.
- `CompactSystem`: `Produce`, `Sign`, `Assemble`, `Verify`. An input's kind and its
  segments are exchanged freely before assembly, because `SigningInput` is a plain
  struct.
- `SelectorSystem`: `Mint`, `Sign`, `Serve`.
- `Codecs`: `ReadNumber`, `ReadArchive`, `WriteArchive`, `ParseCompact`,
  `ComposeCompact`, `CheckSignature`, `NormaliseTarget`, `CheckIdentifier`: a call with
  any input, and its answer. `Decoders` adds `DecodeJson` and `EncodeJson` to them.
  `MCWire` joins all of them to `CompactSystem`: a behaviour reads one message's bytes
  or exchanges messages.

## Runs

Every run is a TLC run with deadlock checking off: bounds and clocks run out, and a
library with nothing left to verify is not stuck. No fairness is assumed and no
liveness is claimed: the crate is a set of total functions that return at once, nothing
in it waits, retries or schedules, and nothing around it must happen eventually. A
fairness condition would be one on the programs around the crate, which the crate's
code justifies nowhere. What a caller should be able to do is stated as what a call
would return now, in any reachable state: `HonestAccepted`, `ExportVerifies`,
`PublishedAccepted`, `AttestedAccepted`, `NextIsSuccessor`, `ProducedIsTaken`,
`NothingLost`, and the second halves of `OneReading` and `OneText`.

| run | question | properties | bounds and why they are enough |
|---|---|---|---|
| `envelope_bind` | which requests does a grant cover? | `TypeOK`, `SomebodySigned`, `ImplementsBoundedAuthority` | two grants of one holder that differ in everything a grant bounds, two proofs, forged grants and proofs of a thief, a host that trusts a key of small order; a confusion needs two credentials |
| `envelope_cross` | does anything cross between majors, profiles or challenges? | `HolderMeantIt`, `ChallengeAnswered` | one grant in each of three majors, a proof of every major and profile, two nonces and none |
| `envelope_life` | what are facts worth over a grant's life? | `GrantFactsAuthentic`, `EnvelopeFactsAuthentic`, `ReplayWindow`, `HonestAccepted` | clocks past every edge of the window and up to the last `i64`, drift 1, skews 0 and 2 and one over its bound, two forms of one grant, two verdicts on one proof |
| `archive_rows` | which rows can an accepted archive hold? | `TypeOK`, `ExportIsTheLog`, `HeadFixesHistory`, `ImplementsTamperEvidentLog` | a chain of major 1 and one of major 2 under one key, the writer stopped by the largest integer, archives of two rows, grafts on every hash, re-encoded rows, an anchored chain of the adversary's |
| `archive_keys` | which keys can it pass through, and does what is exported verify? | `ExportVerifies`, `CustodyFollowed` | three P-256 keys of major 3, two rotations, one id reused, an adversary as successor; every sequence of keys tried |
| `lineage_follow` | what can readers be made to hold? | `TypeOK`, `LineageFollowed`, `HeadFixesLineage`, `ImplementsTamperEvidentLog` | three generations and an attempt at a fourth, two readers, the adversary's assertions anywhere among them and two deep |
| `lineage_windows` | what do facts say, and is a reader ever stuck? | `AssertionsAuthentic`, `PublishedAccepted`, `NextIsSuccessor` | two keys of one id that overlap by a moment, validities that touch, leave a gap or outlast the key |
| `roles` | what may a host that keeps facts rely on? | `AttestationsAuthentic`, `RelianceSound`, `AttestedAccepted` | a key that ends and leaks, its successor with its id, an admitted adversary and a key of small order, two attestations, two verdicts |
| `selectors` | do three castings of JSON agree? | `HolderNotBetrayed`, `IssuerObeyed`, `NothingLost` | integers, floats, zeros of both signs, values at and over the bound, nested and reordered members, every kind of selector; `MaxDepth` 6 takes the typed projection of an array in an object and refuses one level more, with `Nesting` 7 selectors are written one level too deep |
| `wire` | does what arrives have one meaning and one reading? | twelve, below | see below |
| `json_names` | is what the decoder takes a document? (violated) | `OnlyDocuments` | as `wire` |
| `json_exponents` | is every number within its bound? (violated) | `NumbersBounded` | as `wire` |

In `wire`, messages (`SignerMeantIt`, `OneReader`, `ProducedIsTaken`): every profile of
every kind and major, an honest key per suite and one of the adversary's; one input,
one signature and one compact, since no property relates two of a kind. Bytes:

- `DecoderReads`, `TighterAdmitsLess`: all texts of up to six of nine characters, and
  every document of a dozen with one character exchanged, inserted or removed, against
  RFC 8259's grammar written as a definition of its own; under the maximum and under
  overrides of every field by one in both directions.
- `CodecsAgree`: values with every kind of scalar, of names on both sides of the
  surrogates, one level too deep, one item too long, one name twice.
- `MagnitudeExact`: every lexeme of up to four digits before the point, three behind it
  and four of exponent, in base two, against the rational number it stands for.
- `OneReading`, `OneText`: archives of up to two rows and
  transitions and every edit of one byte; segments with every remainder of three.
- `OneTarget`: hosts of three characters, dotted numbers, every
  shape of address literal, ports around the default and the maximum, paths of up to six
  segments and dots, texts at the limit.
- `IdentifiersAreUris`: all texts of up to four of thirteen characters, and of up to
  four of nine behind a scheme, behind a scheme and two slashes, and (three) behind a
  scheme and a second "://"; every shape of address literal, with and without an IPv4
  address at its end and of a future version, with two characters behind it; texts at
  the limit. It is an equivalence for either validator: of the sibling profiles' with
  `IsUri`, RFC 3986's grammar production by production, and of the façades' with the
  grammar, what that validator never looks at (`Tolerable`) and what it takes for a port
  (`Misread`). `Ipv6Addr`, the standard library's parser, is modelled by how it reads an
  address, `IsAddress` by the alternatives of the RFC.
- `OneSpelling` (`TwinRefused`, `ScalarReduced`, `PointCanonical`): all scalars of three bytes of two bits,
  with an odd order whose bytes are neither all least nor all greatest.

The bounds of the runs (`MaxTime`, `MaxGrants`, `MaxLog` and their like) are constants of
the system modules, tested in guards. The limits of the crate (`IntegerMagnitude`,
`MaxProofAge`, `MaxChunks`, the fields of `Maximum`, ...) are constants too, and small,
so that each is met. `archive_keys` has one chain; that a transition of another chain
does not pass is part of `CustodyFollowed` and rests on the proof.

## Proofs

All theorems are `Spec => []P` or a refinement, for every value of the constants that
satisfies the assumptions named in the modules. These say no more than the roles of
the actors: forged compacts are not signed by honest keys, the adversary's keys are
not the custodian's, honest keys have no small order (`SoundAssumption`), limits are
natural numbers, the two spaces of targets are disjoint. The bounds of the runs play no
part: the proofs hold for all of them.

**Envelopes** (`EnvelopeSystem_proofs`): `TypeCorrect`, `GrantFactsAreAuthentic`,
`EnvelopeFactsAreAuthentic`, `HoldersMeantIt`, `ChallengesAnswered`, `ReplayIsBounded`,
`SmallOrderKeysAreUseless`, `Refinement`. The invariant is `SafetyInv`. What a holder
meant is not inductive by itself: that a proof accepted now was signed no longer ago
than age, skew and drift allow needs that its `iat` is close to the time it was really
signed and that its nonce had been handed out by then (`SigningHistory`); replay needs
that each verdict was given within the window of the proof (`ProofInWindow`). Each
action only adds to history, so a property of old facts survives; for a new one the
checks of the major that was called are opened, and the signer behind a compact of the
wire is found, shifted or not. `HonestCallsPass` is the other half of the boundary: in any
reachable state a call of an honest holder under an honest grant, both inside their
windows, would be accepted. It opens every check of `check_envelope` in the order of the
code, in each major, and needs that what honest keys signed came out of the producers
(`WellProduced`). `Refinement` maps an accepted call whose issuer and
holder are honest to an exercise of a right and all others to stuttering.

**Archives** (`ArchiveSystem_proofs`): `TypeCorrect`, `CustodyIsFollowed`,
`ExportsAreTheLog`, `HeadsFixHistory`, `ExportsVerify`, `Refinement`. The invariant adds `LogLinked`
(rows are numbered and hold the hash of their predecessor), `AnchorsAreHeads` (an
honest anchor names a row of the log), `TransitionsFollowPath` (an honest transition
leads from one key of the path to the next) and `ReportsAreChains` (what was verified
is linked, whoever wrote it). A first part of the module states what the three majors
have in common. From a first key of the custodian's, custody goes up the transitions
to the end anchor; from there the hashes go down the rows, since hashing is injective
and the anchored row is in the log. Both are inductions over an interval, which
`ChainLemmas` states for functions and which the archive and lineage proofs cite.
`ExportsVerify` says that whatever `encode_anchored_export` returned from the
custodian's evidence passes `verify_anchored_export`; it needs that every export on the
wire is an image of the encoder (`ExportsAreEncoded`) and that what the custodian signed
is under keys of the suite of its major (`EvidenceUnderSuiteKeys`).

**Lineages** (`LineageSystem_proofs`): `TypeCorrect`, `AssertionsAreAuthentic`,
`LineagesFollowed`, `HeadsFixLineage`, `NextIsASuccessor`, `PublishedIsTaken`,
`Refinement`. `Linked` is the author's lineage, `FactsOfCompacts` that facts are of a
compact that was on the wire, `HeldIsLineage` that neighbours in a reader's memory are
successors. The same abstract log is implemented as by archives.

**Roles** (`RoleSystem_proofs`): `Typed`, `Authentic`, `Reliance`, `Accepted`. The
invariant is `TypeOK`, `LeakedHaveEnded`, `FactsInWindow` and `AttestationsAuthentic`:
facts end inside the window of the key, only keys past their window have leaked, so
facts that still run are not a leaked key's. `Accepted` is the other half: what was
signed inside the window of its key passes each of the tests.

**Compacts** (`Codecs_proofs`, its last part): `Meant`, `Reader`, `Taken`. Two parsers that take
one message are the same: the type in the header tells kinds apart, the version in the
payload majors. What an honest key signed was made by a producer (`InputsAreProduced`,
`SignedWasProduced`), whose parser takes it, so no other does.

**Codecs** (`Codecs_proofs`): `TwinsAreRefused`, `ScalarsAreReduced`,
`PointsAreCanonical`, `SpellingsAreOne`, `TextsAreOne`, `ReadingsAreOne`,
`MagnitudesAreExact`. Each rests on `AnswersAreReturned`, that an answer is what the
function returns for its input, and on a lemma about the function for every base, every
order and every length, of which the run tries one base and short inputs:

- scalars: the order of digits is the order of what they stand for (`Places`), half of
  an odd order is what `shr1` computes, so that of a scalar and its twin one is refused;
- base64url: a text is its groups laid one behind the other, a group its bytes, and the
  bits left over are zero, so that a text and its bytes give each other back; dots are
  in no segment, so that three segments and their compact do;
- frames: an archive that is read is a trail of frames from its first byte to its last,
  in the order of the format, and there is one trail from any byte on;
- numbers: leading zeros and padding change nothing, an exponent shifts by a power of
  the base, and of two numbers without leading zeros the longer is the greater, so that
  `magnitude_within` decides the rational number a lexeme stands for against the bound.

**Targets** (`Targets_proofs`): `TargetsAreOne`, that a target has one normal form,
which is a normal form itself and names the host, the port and the path the target
names, and that no target has one in both profiles, for texts of any length.

- paths: `remove_dots` is a loop over an input and an output, RFC 3986's reading a stack
  of segments. `TurnIs` says what one turn takes and leaves, `Turned` what a turn and a
  segment have in common: the output is what was pushed on the stack, slash by slash
  (`OutIs`), and the input the segments that are left (`TurnMore`, `TurnSlash`,
  `TurnDone`). So the loop ends in the segments the stack ends in (`DotsRemoved`), in
  which there is no dot to resolve a second time (`ResolvedOnce`), nor an escape of a
  character that needs none (`PathForm`);
- authorities: what is read is a host and a port, or a literal in brackets and a port
  (`NameIsParted`, `LiteralIsParted`). A host that is written is read as what it was,
  unless an address came out of its escapes (`HostForm`, `EscapedHost`); a literal is
  written in lower case and stays one (`LiteralForm`); a port is a number between 1 and
  65535 that loses its zeros, or disappears as the default (`PortForm`). What is written
  is parted where it was put together (`AuthorityForm`, `LoopbackForm`);
- targets: a form is taken apart into the scheme, the authority and the path it was
  written from (`FormParts`), since none of them holds a character that ends it
  (`Fenced`), so that what holds of the parts holds of the form.

**Identifiers** (`Targets_proofs`, its last part): `IdentifiersAreRead`, the equivalences
of `IdentifiersAreUris` for texts of any length.

- addresses: an octet is read as the RFC spells it (`OctetIs`, `DottedIs`); what `split`
  cuts a text into are groups, of which an address of version 4 may be the last
  (`GroupsAre`), and two colons next to each other stand between the groups in front of
  them and behind them (`CutPieces`). So the library's parser takes the addresses of the
  grammar and no other text (`AddressIs`);
- authorities: host and port are cut at the last colon, or behind the bracket of a
  literal (`HostPortTaken`, `HostPortIs`), the userinfo at the only "@"
  (`AuthorityAccepted`, `AuthorityMeant`), and the authority ends where the grammar's
  ends (`AuthorityEndIs`);
- URIs: `UriReads` says what `IsUri` admits by the places of its delimiters,
  `SiblingMeansUri` and `UriIsTaken` that the sibling profiles' validator takes just that,
  literals of another version excepted (`Versioned`);
- the façades' validator: the port it reads behind the first "://" is none exactly where
  `Misread` says so (`MisreadIs`), and without what it tolerates an authority that is
  not misread is one (`PlainAuthority`), which gives both directions (`OlderMeans`,
  `OlderTakes`).
The functions that loop are written as functions of an index (`LET f[i \in ...]`), and
that each exists is shown by induction over an interval (`StepsExist`); so is what holds
of each step.

**Selectors** (`SelectorSystem_proofs`): `HolderIsNotBetrayed`, `IssuerIsObeyed`,
`NothingIsLost`, for values of any breadth and for every `MaxDepth`, `Nesting`,
`MaxMagnitude` and list of selectors (`SelectorBounds`, `SelectorAssumption`). The
invariant is `Made`: every grant's wire form is the encoding of selectors that were
valid, every request's digest is that of arguments it can be taken of, and whatever was
served had been admitted. It is inductive as it stands; what is hard is what it implies.
Values come in layers, a layer's arrays and objects holding values of the layer below,
so that what holds of a value when it holds of its parts holds of all values
(`ValueInduction`, which speaks of a set of values), and each recursive function exists
by induction over the layers. From there:

- `OneDigest`: two arguments with one digest are the same to `semantic_identity`. The
  projection writes the type of every part before the part, so canonical bytes, which
  tell neither 1 from 1.0 nor the order of members, tell typed values apart;
- `semantic_identity` is symmetric and transitive, and reflexive where no name occurs
  twice; where it holds, values are the same up to the zeros and the order of members
  (`IdenticalAreSame`);
- `RoundTrip`: a value without an integral float comes back from its canonical bytes
  identical to what it was, whichever order its members are read in;
- `EvaluateAgrees`: no kind of selector tells identical arguments apart, nor do
  identical literals make a difference to it; paths lead to identical values
  (`TraverseMatched`) and `lte` and `gte` compare magnitudes (`LteAgrees`).

Only model-checked: `DecoderReads`, `TighterAdmitsLess` and `CodecsAgree` of `Decoders`.
The functions of `Json` call themselves on the rest
of a text and are recursive operators, about which the prover can conclude nothing. No liveness is claimed, so none is left unproved.

## Divergences

The runs that end in a violation:

1. `json_names`: `parse_object` (`json.rs:190`) lets `parse_string` step over the
   opening quote of a name without looking at it (`json.rs:223`), so that `{a":1}` is
   accepted. `json.rs:13` promises exactly one RFC 8259 value. `DecoderReads` says that
   this is the only way in which a text that is no document is accepted.
2. `json_exponents`: `decompose_number` (`json.rs:466`) replaces an exponent of more
   than three digits by 1000, leading zeros included: `9007199254740993e-0000` is
   accepted beyond the bound that `json.rs:20` states. `MagnitudeExact` says that the
   bound is exact for shorter exponents.

Others were met on the way and are exceptions in a property or a remark:

3. In major 1 `validate_anchor_payload` (`v1.rs:2437`), and so the assembler, takes an
   anchor of sequence 0 with a hash that is not zero, which the producer and the
   verifiers refuse; in majors 2 and 3 the payload check refuses it too, as
   `spec/bap-v1.md:436` asks.
4. `uri_normalize` unescapes a host after it has decided whether it is an IPv4
   address: `https://%39%39%39.1.1.1` becomes `https://999.1.1.1/`, which it refuses
   (`EscapedAddress` in `FormStable`, a part of `OneTarget`). `TargetsAreOne` shows that
   this is the only way in which a form is none.
5. The encoder does not hold numbers to `number_lexeme_bytes`, and has a bound on its
   text that is not the decoder's (`FitsNumbers` and `json_bytes` in `CodecsAgree`).
   A float without a fraction is printed as an integer and comes back as one
   (`WireExact` in `SelectorSystem`; `spec/bap-v2.md:103` says so).
6. `validate_identifier` is written twice for one rule: `role_attestation.rs:751` calls
   itself "the BAP1 rule set", and `spec/bap-role-attestation-v1.md:54` holds `jti` to
   "the BAP1 grant `jti` rules" (`spec/bap-v1.md:263`). `IdentifiersAreUris` says by how
   much the two differ. The sibling profiles' is RFC 3986, but for literals of a future
   version (`[v1.a]`), which `core::net::Ipv6Addr` does not parse; an IPv4 address at the
   end of a literal it does parse, unlike `uri.rs:370` for targets. The façades' also
   takes brackets of any content, several `#`, several `@` in an authority and several
   colons behind the userinfo (`Tolerable`); and where the first "://" is followed by
   something with a colon whose end is not a port, it refuses the text, be it a URI
   (`Misread`): `a://h:` with its empty port, `a://u:p@h` whose user has a password,
   `a://u@[::1]`, and `a:b://c:d` although its "://" does not follow the scheme.
   So a grant may be issued under an identifier that an attestation cannot carry, and
   the other way round.

## Not modelled

- The signature equation, `torsion_free` and point decompression: arithmetic of the
  curve libraries, taken as symbolic signatures.
- JWK members (`jwk.rs`) beyond which keys are taken; the alphabets and lengths of
  UUIDs, key ids, methods and operation names: closed checks of one text.
- UTF-8 validation (the standard library's) and the shortest printing of floats.
- The largest and smallest `i64` in `decompose_number`'s sum of digits, which a text
  of nineteen exponent digits overflows before the cut discards it: lexemes of the
  model have four.
- Author and custodian never sign two histories of one chain themselves; bootstrap
  and revocation are the host's business (`spec/bap-content-assertion-v1.md`).
- An archive is of one major, as in the code: the version is a member of every header,
  row, anchor and transition.
- The conformance runners read vectors from files, call one function for each and
  compare; the Elixir library is what the crate is a port of, and the other SDKs are
  its siblings; scripts and generators are tools; the ProVerif models are another
  method on the same protocol.

## Plan

The order was: envelopes with their abstract specification, archives, lineages under
the same abstract log, then roles, compacts, selectors, and the functions over bytes
that those modules abstract from. What is left, in order of worth:

1. composition: role attestations that admit the issuers of `EnvelopeSystem`, and facts
   of envelopes as the commitments of consumption rows;
2. JWKs as objects with members, between `Json` and `Signatures`;
3. a transition of another chain in a run of its own bounds, beside the proof.
