----------------------------- MODULE EvidenceV1 -----------------------------
(***************************************************************************)
(* Consumption chains, boundary anchors, key transitions and anchored      *)
(* exports of major 1, as src/sdks/rust/src/v1.rs has them.  An operator   *)
(* that stands for a function returning Result<T> is true where the        *)
(* function returns Ok; ChainId holds the identifiers that                 *)
(* validate_identifier takes.                                              *)
(***************************************************************************)
EXTENDS Evidence

(***************************************************************************)
(* Rows.                                                                   *)
(***************************************************************************)

row_domain_hash_v1(row) == [prefix |-> "BAP1-CHAIN", row |-> row]

\* variant: sequences do not end
encode_consumption_entry_ok_v1_unbounded(entry) ==
  /\ entry.chain_id \in ChainId
  /\ entry.sequence >= 1
  /\ entry.sequence = 1 => entry.previous = ZeroHash

encode_consumption_entry_ok_v1(entry) ==
  /\ entry.chain_id \in ChainId
  /\ entry.sequence >= 1 /\ entry.sequence \in InMagnitude
  /\ entry.sequence = 1 => entry.previous = ZeroHash

encode_consumption_entry_v1(entry) ==
  [v |-> 1, entry |-> entry, form |-> "canonical"]

parse_row_v1(row) ==
  /\ row.v = 1
  /\ row.entry.sequence \in InMagnitude
  /\ row.form = "canonical"

\* variant: rows are not linked
rows_linked_v1_unlinked(rows, c) == rows[1].entry.previous = c.previous_hash

rows_linked_v1(rows, c) ==
  /\ rows[1].entry.previous = c.previous_hash
  /\ \A i \in 2 .. Len(rows) :
       rows[i].entry.previous = row_domain_hash_v1(rows[i - 1])

check_chain_v1(rows, c) ==
  /\ Len(rows) \in 1 .. MaxRows
  /\ c.chain_id \in ChainId
  /\ \A i \in 1 .. Len(rows) :
       /\ parse_row_v1(rows[i])
       /\ rows[i].entry.chain_id = c.chain_id
       /\ rows[i].entry.sequence = c.first_sequence + i - 1
  /\ c.first_sequence >= 1
  /\ c.first_sequence = 1 => c.previous_hash = ZeroHash
  /\ rows_linked_v1(rows, c)
  /\ Len(rows) = c.row_count
  /\ rows[Len(rows)].entry.sequence = c.last_sequence
  /\ row_domain_hash_v1(rows[Len(rows)]) = c.head_hash

(***************************************************************************)
(* Producing anchors and transitions: signing inputs and assembly.  The    *)
(* thumbprint of a key is taken of acceptable keys alone.                  *)
(***************************************************************************)

boundary_anchor_signing_input_ok_v1(a) ==
  /\ a.chain_id \in ChainId
  /\ a.sequence \in 0 .. IntegerMagnitude /\ a.anchored_at \in InMagnitude
  /\ a.sequence = 0 => a.chain_hash = ZeroHash
  /\ thumbprint_raw(a.public_key)

boundary_anchor_signing_input_v1(a) ==
  [alg |-> "EdDSA", typ |-> "ba+chain-anchor", v |-> 1, anchor_id |-> a.anchor_id,
   anchored_at |-> a.anchored_at, chain_id |-> a.chain_id, sequence |-> a.sequence,
   chain_hash |-> a.chain_hash, key_id |-> a.key_id, key_fingerprint |-> a.public_key]

key_transition_signing_input_ok_v1(t) ==
  /\ t.chain_id \in ChainId
  /\ t.effective_at \in InMagnitude
  /\ t.current_public_key # t.next_public_key
  /\ thumbprint_raw(t.current_public_key)
  /\ thumbprint_raw(t.next_public_key)

key_transition_signing_input_v1(t) ==
  [alg |-> "EdDSA", typ |-> "ba+key-transition", v |-> 1,
   transition_id |-> t.transition_id, chain_id |-> t.chain_id,
   effective_at |-> t.effective_at, current_key_id |-> t.current_key_id,
   current_key_fingerprint |-> t.current_public_key, next_key_id |-> t.next_key_id,
   next_key_fingerprint |-> t.next_public_key]

(***************************************************************************)
(* Decoding.                                                               *)
(***************************************************************************)

validate_anchor_header_v1(a) ==
  /\ a.claims.alg = "EdDSA"
  /\ a.claims.typ = "ba+chain-anchor"
  /\ a.form = "canonical"

\* a nonzero hash at sequence zero passes here, and is left to verification
validate_anchor_payload_v1(a) ==
  /\ a.claims.v = 1
  /\ a.claims.chain_id \in ChainId
  /\ a.claims.anchored_at \in InMagnitude
  /\ a.claims.sequence \in 0 .. IntegerMagnitude
  /\ a.form = "canonical"

decode_anchor_parts_v1(a) ==
  validate_anchor_header_v1(a) /\ validate_anchor_payload_v1(a)

validate_transition_header_v1(t) ==
  /\ t.claims.alg = "EdDSA"
  /\ t.claims.typ = "ba+key-transition"
  /\ t.form = "canonical"

validate_transition_payload_v1(t) ==
  /\ t.claims.v = 1
  /\ t.claims.chain_id \in ChainId
  /\ t.claims.effective_at \in InMagnitude
  /\ t.form = "canonical"

decode_transition_parts_v1(t) ==
  validate_transition_header_v1(t) /\ validate_transition_payload_v1(t)

\* the evidence among what assemble_compact takes; EnvelopeV1 has the credentials
assemble_evidence_v1(kind, compact) ==
  /\ signature_gate(compact.scalar)
  /\ \/ kind = "ChainAnchor" /\ decode_anchor_parts_v1(compact)
     \/ kind = "KeyTransition" /\ decode_transition_parts_v1(compact)

(***************************************************************************)
(* Verifying an anchor or a transition under historical keys.              *)
(***************************************************************************)

key_window_v1(k) ==
  /\ k.valid_from \in InMagnitude
  /\ k.valid_before # Unbounded =>
       k.valid_before \in InMagnitude /\ k.valid_before > k.valid_from

in_interval_v1(t, k) ==
  /\ t >= k.valid_from
  /\ k.valid_before # Unbounded => t < k.valid_before

verify_historical_anchor_v1(a, k, e) ==
  /\ key_window_v1(k)
  /\ decode_anchor_parts_v1(a)
  /\ a.claims.key_id = k.key_id
  /\ thumbprint_raw(k.public_key)
  /\ a.claims.key_fingerprint = k.public_key
  /\ ExpectedAnchor(a.claims) = e
  /\ a.claims.sequence = 0 => a.claims.chain_hash = ZeroHash
  /\ in_interval_v1(a.claims.anchored_at, k)
  /\ ed25519_verify(k.public_key, a)

verify_key_transition_v1(t, current, next, e) ==
  /\ key_window_v1(current) /\ key_window_v1(next)
  /\ decode_transition_parts_v1(t)
  /\ t.claims.current_key_id = current.key_id
  /\ thumbprint_raw(current.public_key) /\ thumbprint_raw(next.public_key)
  /\ t.claims.current_key_fingerprint = current.public_key
  /\ t.claims.next_key_id = next.key_id
  /\ t.claims.next_key_fingerprint = next.public_key
  /\ ExpectedKeyTransition(t.claims) = e
  /\ current.public_key # next.public_key
  /\ in_interval_v1(t.claims.effective_at, current)
  /\ in_interval_v1(t.claims.effective_at, next)
  /\ ed25519_verify(current.public_key, t)

(***************************************************************************)
(* Producing an archive.  An expectation e is a chain, a start anchor,     *)
(* transitions and an end anchor.                                          *)
(***************************************************************************)

\* what both ends require of an expectation: one chain, between its anchors
boundaries_bound_v1(e) ==
  /\ e.start_anchor.chain_id = e.chain.chain_id
  /\ e.end_anchor.chain_id = e.chain.chain_id
  /\ \A i \in DOMAIN e.transitions : e.transitions[i].chain_id = e.chain.chain_id
  /\ e.start_anchor.sequence = e.chain.first_sequence - 1
  /\ e.start_anchor.chain_hash = e.chain.previous_hash
  /\ e.end_anchor.sequence = e.chain.last_sequence
  /\ e.end_anchor.chain_hash = e.chain.head_hash

\* the key in custody after i transitions, and since when
path_key_v1(e, i) ==
  IF i = 0 THEN <<e.start_anchor.key_id, e.start_anchor.key_fingerprint>>
  ELSE <<e.transitions[i].next_key_id, e.transitions[i].next_key_fingerprint>>

path_time_v1(e, i) ==
  IF i = 0 THEN e.start_anchor.anchored_at ELSE e.transitions[i].effective_at

key_path_ok_v1(e) ==
  LET n == Len(e.transitions)
  IN  /\ \A i \in 1 .. n :
           /\ <<e.transitions[i].current_key_id,
                e.transitions[i].current_key_fingerprint>> = path_key_v1(e, i - 1)
           /\ path_time_v1(e, i) > path_time_v1(e, i - 1)
           /\ \A j \in 0 .. i - 1 : path_key_v1(e, i)[2] # path_key_v1(e, j)[2]
      /\ path_key_v1(e, n) = <<e.end_anchor.key_id, e.end_anchor.key_fingerprint>>
      /\ e.end_anchor.anchored_at >= path_time_v1(e, n)

archive_header_v1(e) ==
  [v |-> 1, chain |-> e.chain, transition_count |-> Len(e.transitions)]

\* the producer verifies no signature, but frames none that every verifier refuses
encode_anchored_export_ok_v1(start, ts, rows, end, e) ==
  /\ Len(e.transitions) <= MaxTransitions /\ Len(ts) = Len(e.transitions)
  /\ boundaries_bound_v1(e)
  /\ check_chain_v1(rows, e.chain)
  /\ signature_gate(start.scalar) /\ signature_gate(end.scalar)
  /\ \A i \in DOMAIN ts : signature_gate(ts[i].scalar)
  /\ decode_anchor_parts_v1(start) /\ ExpectedAnchor(start.claims) = e.start_anchor
  /\ decode_anchor_parts_v1(end) /\ ExpectedAnchor(end.claims) = e.end_anchor
  /\ \A i \in DOMAIN ts : decode_transition_parts_v1(ts[i])
  /\ expected_transitions(ts) = e.transitions
  /\ key_path_ok_v1(e)
  /\ frame_count(ts, rows) <= MaxChunks

encode_anchored_export_v1(start, ts, rows, end, e) ==
  Archive("BAP1-ARCHIVE", archive_header_v1(e), start, ts, rows, end)

(***************************************************************************)
(* Verifying an archive.                                                   *)
(***************************************************************************)

expectation_ok_v1(e) ==
  /\ Len(e.transitions) <= MaxTransitions
  /\ e.chain.chain_id \in ChainId
  /\ e.chain.first_sequence \in 1 .. IntegerMagnitude
  /\ e.chain.last_sequence \in e.chain.first_sequence .. IntegerMagnitude
  /\ e.chain.row_count \in 1 .. MaxRows
  /\ e.chain.row_count = e.chain.last_sequence - e.chain.first_sequence + 1
  /\ e.chain.first_sequence = 1 => e.chain.previous_hash = ZeroHash
  /\ \A a \in {e.start_anchor, e.end_anchor} :
       /\ a.chain_id \in ChainId
       /\ a.anchored_at \in InMagnitude /\ a.sequence \in 0 .. IntegerMagnitude
       /\ a.sequence = 0 => a.chain_hash = ZeroHash
  /\ \A i \in DOMAIN e.transitions :
       /\ e.transitions[i].chain_id \in ChainId
       /\ e.transitions[i].effective_at \in InMagnitude
       /\ e.transitions[i].current_key_fingerprint # e.transitions[i].next_key_fingerprint

keys_ok_v1(keys, e) ==
  /\ Len(keys) = Len(e.transitions) + 1
  /\ \A i \in DOMAIN keys : key_window_v1(keys[i])

stored_ok_v1(object, e) ==
  /\ object.chunks \in 1 .. MaxChunks
  /\ object.version = e.object_version
  /\ object.archive = e.digest
  /\ object.archive.magic = "BAP1-ARCHIVE"

decode_archive_header_v1(h) ==
  /\ h.v = 1
  /\ h.chain.chain_id \in ChainId
  /\ h.chain.row_count \in 0 .. MaxRows /\ h.transition_count \in 0 .. MaxTransitions
  /\ h.chain.first_sequence >= 1 /\ h.chain.last_sequence >= h.chain.first_sequence

header_matches_v1(h, e) ==
  /\ decode_archive_header_v1(h)
  /\ h.chain = e.chain
  /\ h.transition_count = Len(e.transitions)

check_export_chronology_v1(start, ts, end, keys) ==
  LET n == Len(ts)
  IN  /\ \A i, j \in DOMAIN keys : i # j => keys[i].public_key # keys[j].public_key
      /\ n = 0 => start.claims.anchored_at <= end.claims.anchored_at
      /\ n > 0 =>
           /\ \A i \in 2 .. n : ts[i - 1].claims.effective_at < ts[i].claims.effective_at
           /\ start.claims.anchored_at < ts[1].claims.effective_at
           /\ end.claims.anchored_at >= ts[n].claims.effective_at

\* both anchors and every transition, under the keys the caller supplies in order
boundaries_authentic_v1(start, ts, end, keys, e) ==
  /\ expectation_ok_v1(e)
  /\ keys_ok_v1(keys, e)
  /\ boundaries_bound_v1(e)
  /\ Len(ts) = Len(e.transitions)
  /\ verify_historical_anchor_v1(start, keys[1], e.start_anchor)
  /\ \A i \in DOMAIN ts :
       verify_key_transition_v1(ts[i], keys[i], keys[i + 1], e.transitions[i])
  /\ verify_historical_anchor_v1(end, keys[Len(keys)], e.end_anchor)
  /\ check_export_chronology_v1(start, ts, end, keys)

verify_anchored_export_v1(object, keys, e) ==
  LET a == object.archive
  IN  /\ stored_ok_v1(object, e)
      /\ header_matches_v1(a.header, e)
      /\ boundaries_authentic_v1(a.start_anchor, a.transitions, a.end_anchor, keys, e)
      /\ check_chain_v1(a.rows, e.chain)
=============================================================================
