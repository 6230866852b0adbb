------------------------------ MODULE CompactJws ------------------------------
(***************************************************************************)
(* The kinds of compacts and who takes which: the closed headers and       *)
(* payloads of every parser, and the assemblers, in v1.rs, v2.rs, v3.rs,   *)
(* role_attestation.rs and content_assertion.rs.                           *)
(*                                                                         *)
(* A message is the two segments that are signed.  What its payload says   *)
(* beyond the set of its members is left to the modules of its kind, and   *)
(* the bytes of the segments to Framing.                                   *)
(***************************************************************************)
EXTENDS Integers

CONSTANTS
  EdKey, EcKey   \* keys of the two suites

ASSUME SuiteAssumption == EdKey \cap EcKey = {}

Key == EdKey \cup EcKey

StandardKind == {"Grant", "Proof", "ChainAnchor", "KeyTransition"}
SiblingKind == {"LocalLoopbackHttpProof", "RoleAttestation", "ContentAssertion"}

\* what there is a parser for
Profile ==
  [kind : StandardKind, major : 1 .. 3] \cup [kind : SiblingKind, major : {1}]

suite(major) == IF major = 3 THEN "ES256" ELSE "EdDSA"
suite_keys(major) == IF major = 3 THEN EcKey ELSE EdKey

typ(kind) ==
  CASE kind = "Grant"                  -> "ba+cap"
    [] kind = "Proof"                  -> "dpop+jwt"
    [] kind = "LocalLoopbackHttpProof" -> "ba+loopback-proof"
    [] kind = "ChainAnchor"            -> "ba+chain-anchor"
    [] kind = "KeyTransition"          -> "ba+key-transition"
    [] kind = "RoleAttestation"        -> "ba+role-attestation"
    [] kind = "ContentAssertion"       -> "ba+content-assertion"

proof(kind) == kind \in {"Proof", "LocalLoopbackHttpProof"}

\* the third member of a header: a key id, or a JWK of a suite
locator(p) == IF proof(p.kind) THEN suite(p.major) ELSE "kid"

\* the members of a payload
payload_keys(kind) ==
  CASE kind = "Proof"                  -> {"Proof", "ProofWithNonce"}
    [] kind = "LocalLoopbackHttpProof" -> {"ProofWithNonce"}
    [] OTHER                           -> {kind}

header(p) == [alg |-> suite(p.major), typ |-> typ(p.kind), locator |-> locator(p)]

Message ==
  [header : {header(p) : p \in Profile}
              \cup [alg : {"EdDSA"}, typ : {"dpop+jwt", "ba+cap"}, locator : {"ES256", "EdDSA"}],
   v : 1 .. 3,
   keys : {"ProofWithNonce"} \cup StandardKind \cup {"RoleAttestation", "ContentAssertion"},
   canonical : BOOLEAN]

\* grants and proofs are decoded from bytes that need not be canonical
must_be_canonical(kind) == kind # "Grant" /\ ~ proof(kind)

\* variant: the version is left to the host
parse_any_version(p, m) ==
  /\ m.header = header(p)
  /\ m.keys \in payload_keys(p.kind)
  /\ must_be_canonical(p.kind) => m.canonical

\* decode_grant_parts, decode_proof_parts, decode_anchor_parts and their like
parse(p, m) ==
  /\ m.header = header(p)
  /\ m.v = p.major
  /\ m.keys \in payload_keys(p.kind)
  /\ must_be_canonical(p.kind) => m.canonical

\* signing_input of each profile: canonical by construction, under the members it
\* has the fields for
produced(p, keys) ==
  [header |-> header(p), v |-> p.major, keys |-> keys, canonical |-> TRUE]

\* ed25519::signature_gate, es256::validate_rs_range
signature_gate(s) == s.scalar = "canonical"

verify_signature(s, m, key, major) ==
  /\ key \in suite_keys(major)
  /\ signature_gate(s)
  /\ s.message = m /\ s.key = key

\* the public functions that assemble, their majors, and the kinds each takes
Assembler ==
  {"v1", "v1_loopback", "v2", "v3", "role_attestation", "content_assertion"}

major_of(assembler) ==
  CASE assembler = "v2" -> 2
    [] assembler = "v3" -> 3
    [] OTHER            -> 1

kinds_of(assembler) ==
  CASE assembler \in {"v1", "v2", "v3"} -> StandardKind
    [] assembler = "v1_loopback"        -> {"LocalLoopbackHttpProof"}
    [] assembler = "role_attestation"   -> {"RoleAttestation"}
    [] assembler = "content_assertion"  -> {"ContentAssertion"}

profile_of(assembler, kind) == [kind |-> kind, major |-> major_of(assembler)]

\* variants: content is not decoded again; or as a grant, whatever the kind
assemble_undecoded(assembler, kind, m, s) ==
  /\ kind \in kinds_of(assembler)
  /\ signature_gate(s)

assemble_as_grant(assembler, kind, m, s) ==
  /\ kind \in kinds_of(assembler)
  /\ signature_gate(s)
  /\ parse([kind |-> "Grant", major |-> major_of(assembler)], m)

\* assemble_compact, assemble_local_loopback_http_compact,
\* assemble_attestation_compact, assemble_content_assertion_compact: an input is
\* labelled with a kind, and its segments are decoded as that kind
assemble(assembler, kind, m, s) ==
  /\ kind \in kinds_of(assembler)
  /\ signature_gate(s)
  /\ parse(profile_of(assembler, kind), m)
=============================================================================
