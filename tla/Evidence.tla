------------------------------ MODULE Evidence ------------------------------
(***************************************************************************)
(* What the evidence functions of the three contract majors share: rows,   *)
(* boundary anchors, key transitions, archives and the keys they were      *)
(* signed with, as the types of src/sdks/rust/src/types.rs and facts.rs.   *)
(*                                                                         *)
(* A row is the bytes of one record of consumption: its version, its entry *)
(* and a form, "canonical" for the JCS encoding and "other" for any        *)
(* different bytes that decode to the same.  Hashing is injective and      *)
(* never yields ZeroHash.  An anchor or a transition is a compact: its     *)
(* claims, a form, a scalar and a signer.  The fingerprint of a key is the *)
(* key, the digest of an archive is the archive.                           *)
(***************************************************************************)
EXTENDS Integers, Sequences, Signatures

CONSTANTS
  ChainId, Commitment,
  ZeroHash,          \* 32 zero bytes: no row hashes to them
  Unbounded,         \* ValidityUpperBound::Unbounded
  \* the bounds of the call: integer_magnitude, chain_rows, key_transitions,
  \* archive_chunks
  IntegerMagnitude, MaxRows, MaxTransitions, MaxChunks

ASSUME EvidenceBoundAssumption ==
  /\ IntegerMagnitude \in Nat \ {0} /\ MaxRows \in Nat \ {0}
  /\ MaxTransitions \in Nat /\ MaxChunks \in Nat

EvidenceMajors == {1, 2, 3}

\* the integers that json_decode and jcs_encode let through
InMagnitude == -IntegerMagnitude .. IntegerMagnitude

\* the seven values of an anchor that a caller states its expectation of
ExpectedAnchor(c) ==
  [anchor_id |-> c.anchor_id, anchored_at |-> c.anchored_at,
   chain_id |-> c.chain_id, sequence |-> c.sequence, chain_hash |-> c.chain_hash,
   key_id |-> c.key_id, key_fingerprint |-> c.key_fingerprint]

\* and the seven of a transition
ExpectedKeyTransition(c) ==
  [transition_id |-> c.transition_id, chain_id |-> c.chain_id,
   effective_at |-> c.effective_at,
   current_key_id |-> c.current_key_id,
   current_key_fingerprint |-> c.current_key_fingerprint,
   next_key_id |-> c.next_key_id, next_key_fingerprint |-> c.next_key_fingerprint]

\* what an archive is and what the host stores of it: where it is cut into
\* chunks is the storage's affair, the number of chunks is bounded
Archive(magic, header, start, ts, rows, end) ==
  [magic |-> magic, header |-> header, start_anchor |-> start,
   transitions |-> ts, rows |-> rows, end_anchor |-> end]

AnchoredExportFacts(object, e) ==
  [chain |-> e.chain, transition_count |-> object.archive.header.transition_count,
   digest |-> object.archive, object_version |-> e.object_version]

\* magic, header, two anchors, and one frame for every transition and row
frame_count(ts, rows) == 4 + Len(ts) + Len(rows)

expected_transitions(ts) == [i \in DOMAIN ts |-> ExpectedKeyTransition(ts[i].claims)]
=============================================================================
