----------------------------- MODULE EvidenceV3 -----------------------------
(***************************************************************************)
(* Consumption chains, boundary anchors, key transitions and anchored      *)
(* exports of major 3, as src/sdks/rust/src/v3.rs has them.  An operator   *)
(* that stands for a function returning Result<T> is true where the        *)
(* function returns Ok; ChainId holds the identifiers that                 *)
(* validate_identifier takes.                                              *)
(***************************************************************************)
EXTENDS Evidence

(***************************************************************************)
(* Rows.                                                                   *)
(***************************************************************************)

row_domain_hash_v3(row) == [prefix |-> "BAP3-CHAIN", row |-> row]

encode_consumption_entry_ok_v3(entry) ==
  /\ entry.chain_id \in ChainId
  /\ entry.sequence >= 1 /\ entry.sequence \in InMagnitude
  /\ entry.sequence = 1 => entry.previous = ZeroHash

encode_consumption_entry_v3(entry) ==
  [v |-> 3, entry |-> entry, form |-> "canonical"]

parse_row_v3(row) ==
  /\ row.v = 3
  /\ row.entry.sequence \in InMagnitude
  /\ row.form = "canonical"

rows_linked_v3(rows, c) ==
  /\ rows[1].entry.previous = c.previous_hash
  /\ \A i \in 2 .. Len(rows) :
       rows[i].entry.previous = row_domain_hash_v3(rows[i - 1])

check_chain_v3(rows, c) ==
  /\ Len(rows) \in 1 .. MaxRows
  /\ c.chain_id \in ChainId
  /\ \A i \in 1 .. Len(rows) :
       /\ parse_row_v3(rows[i])
       /\ rows[i].entry.chain_id = c.chain_id
       /\ rows[i].entry.sequence = c.first_sequence + i - 1
  /\ c.first_sequence >= 1
  /\ c.first_sequence = 1 => c.previous_hash = ZeroHash
  /\ rows_linked_v3(rows, c)
  /\ Len(rows) = c.row_count
  /\ rows[Len(rows)].entry.sequence = c.last_sequence
  /\ row_domain_hash_v3(rows[Len(rows)]) = c.head_hash

(***************************************************************************)
(* Producing anchors and transitions: signing inputs and assembly.         *)
(***************************************************************************)

boundary_anchor_signing_input_ok_v3(a) ==
  /\ a.chain_id \in ChainId
  /\ a.sequence \in 0 .. IntegerMagnitude /\ a.anchored_at \in InMagnitude
  /\ a.sequence = 0 => a.chain_hash = ZeroHash
  /\ validate_point(a.public_key)

boundary_anchor_signing_input_v3(a) ==
  [alg |-> "ES256", typ |-> "ba+chain-anchor", v |-> 3, anchor_id |-> a.anchor_id,
   anchored_at |-> a.anchored_at, chain_id |-> a.chain_id, sequence |-> a.sequence,
   chain_hash |-> a.chain_hash, key_id |-> a.key_id, key_fingerprint |-> a.public_key]

key_transition_signing_input_ok_v3(t) ==
  /\ t.chain_id \in ChainId
  /\ t.effective_at \in InMagnitude
  /\ t.current_public_key # t.next_public_key
  /\ validate_point(t.current_public_key)
  /\ validate_point(t.next_public_key)

key_transition_signing_input_v3(t) ==
  [alg |-> "ES256", typ |-> "ba+key-transition", v |-> 3,
   transition_id |-> t.transition_id, chain_id |-> t.chain_id,
   effective_at |-> t.effective_at, current_key_id |-> t.current_key_id,
   current_key_fingerprint |-> t.current_public_key, next_key_id |-> t.next_key_id,
   next_key_fingerprint |-> t.next_public_key]

(***************************************************************************)
(* Decoding.                                                               *)
(***************************************************************************)

validate_anchor_header_v3(a) ==
  /\ a.claims.alg = "ES256"
  /\ a.claims.typ = "ba+chain-anchor"
  /\ a.form = "canonical"

validate_anchor_payload_v3(a) ==
  /\ a.claims.v = 3
  /\ a.claims.chain_id \in ChainId
  /\ a.claims.anchored_at \in InMagnitude
  /\ a.claims.sequence \in 0 .. IntegerMagnitude
  /\ a.claims.sequence = 0 => a.claims.chain_hash = ZeroHash
  /\ a.form = "canonical"

decode_anchor_parts_v3(a) ==
  validate_anchor_header_v3(a) /\ validate_anchor_payload_v3(a)

validate_transition_header_v3(t) ==
  /\ t.claims.alg = "ES256"
  /\ t.claims.typ = "ba+key-transition"
  /\ t.form = "canonical"

validate_transition_payload_v3(t) ==
  /\ t.claims.v = 3
  /\ t.claims.chain_id \in ChainId
  /\ t.claims.effective_at \in InMagnitude
  /\ t.form = "canonical"

decode_transition_parts_v3(t) ==
  validate_transition_header_v3(t) /\ validate_transition_payload_v3(t)

\* the evidence among what assemble_compact takes; EnvelopeV3 has the credentials
assemble_evidence_v3(kind, compact) ==
  /\ validate_rs_range(compact.scalar)
  /\ \/ kind = "ChainAnchor" /\ decode_anchor_parts_v3(compact)
     \/ kind = "KeyTransition" /\ decode_transition_parts_v3(compact)

(***************************************************************************)
(* Verifying an anchor or a transition under historical keys.              *)
(***************************************************************************)

key_window_v3(k) ==
  /\ k.valid_from \in InMagnitude
  /\ k.valid_before # Unbounded =>
       k.valid_before \in InMagnitude /\ k.valid_before > k.valid_from

in_interval_v3(t, k) ==
  /\ t >= k.valid_from
  /\ k.valid_before # Unbounded => t < k.valid_before

verify_historical_anchor_v3(a, k, e) ==
  /\ key_window_v3(k)
  /\ decode_anchor_parts_v3(a)
  /\ a.claims.key_id = k.key_id
  /\ thumbprint_raw_v3(k.public_key)
  /\ a.claims.key_fingerprint = k.public_key
  /\ ExpectedAnchor(a.claims) = e
  /\ a.claims.sequence = 0 => a.claims.chain_hash = ZeroHash
  /\ in_interval_v3(a.claims.anchored_at, k)
  /\ es256_verify(k.public_key, a)

\* variant: the next key vouches for itself
verify_key_transition_v3_by_next(t, current, next, e) ==
  /\ key_window_v3(current) /\ key_window_v3(next)
  /\ decode_transition_parts_v3(t)
  /\ t.claims.current_key_id = current.key_id
  /\ t.claims.current_key_fingerprint = current.public_key
  /\ t.claims.next_key_id = next.key_id
  /\ t.claims.next_key_fingerprint = next.public_key
  /\ ExpectedKeyTransition(t.claims) = e
  /\ current.public_key # next.public_key
  /\ in_interval_v3(t.claims.effective_at, current)
  /\ in_interval_v3(t.claims.effective_at, next)
  /\ es256_verify(next.public_key, t)

verify_key_transition_v3(t, current, next, e) ==
  /\ key_window_v3(current) /\ key_window_v3(next)
  /\ decode_transition_parts_v3(t)
  /\ t.claims.current_key_id = current.key_id
  /\ thumbprint_raw_v3(current.public_key) /\ thumbprint_raw_v3(next.public_key)
  /\ t.claims.current_key_fingerprint = current.public_key
  /\ t.claims.next_key_id = next.key_id
  /\ t.claims.next_key_fingerprint = next.public_key
  /\ ExpectedKeyTransition(t.claims) = e
  /\ current.public_key # next.public_key
  /\ in_interval_v3(t.claims.effective_at, current)
  /\ in_interval_v3(t.claims.effective_at, next)
  /\ es256_verify(current.public_key, t)

(***************************************************************************)
(* Producing an archive.  An expectation e is a chain, a start anchor,     *)
(* transitions and an end anchor.                                          *)
(***************************************************************************)

\* what both ends require of an expectation: one chain, between its anchors
boundaries_bound_v3(e) ==
  /\ e.start_anchor.chain_id = e.chain.chain_id
  /\ e.end_anchor.chain_id = e.chain.chain_id
  /\ \A i \in DOMAIN e.transitions : e.transitions[i].chain_id = e.chain.chain_id
  /\ e.start_anchor.sequence = e.chain.first_sequence - 1
  /\ e.start_anchor.chain_hash = e.chain.previous_hash
  /\ e.end_anchor.sequence = e.chain.last_sequence
  /\ e.end_anchor.chain_hash = e.chain.head_hash

\* the key in custody after i transitions, and since when
path_key_v3(e, i) ==
  IF i = 0 THEN <<e.start_anchor.key_id, e.start_anchor.key_fingerprint>>
  ELSE <<e.transitions[i].next_key_id, e.transitions[i].next_key_fingerprint>>

path_time_v3(e, i) ==
  IF i = 0 THEN e.start_anchor.anchored_at ELSE e.transitions[i].effective_at

key_path_ok_v3(e) ==
  LET n == Len(e.transitions)
  IN  /\ \A i \in 1 .. n :
           /\ <<e.transitions[i].current_key_id,
                e.transitions[i].current_key_fingerprint>> = path_key_v3(e, i - 1)
           /\ path_time_v3(e, i) > path_time_v3(e, i - 1)
           /\ \A j \in 0 .. i - 1 : path_key_v3(e, i)[2] # path_key_v3(e, j)[2]
      /\ path_key_v3(e, n) = <<e.end_anchor.key_id, e.end_anchor.key_fingerprint>>
      /\ e.end_anchor.anchored_at >= path_time_v3(e, n)

archive_header_v3(e) ==
  [v |-> 3, chain |-> e.chain, transition_count |-> Len(e.transitions)]

\* variant: signatures are framed that no verifier accepts
encode_anchored_export_ok_v3_any_scalar(start, ts, rows, end, e) ==
  /\ Len(e.transitions) <= MaxTransitions /\ Len(ts) = Len(e.transitions)
  /\ boundaries_bound_v3(e)
  /\ check_chain_v3(rows, e.chain)
  /\ decode_anchor_parts_v3(start) /\ ExpectedAnchor(start.claims) = e.start_anchor
  /\ decode_anchor_parts_v3(end) /\ ExpectedAnchor(end.claims) = e.end_anchor
  /\ \A i \in DOMAIN ts : decode_transition_parts_v3(ts[i])
  /\ expected_transitions(ts) = e.transitions
  /\ key_path_ok_v3(e)
  /\ frame_count(ts, rows) <= MaxChunks

\* the producer verifies no signature, but frames none that every verifier refuses
encode_anchored_export_ok_v3(start, ts, rows, end, e) ==
  /\ Len(e.transitions) <= MaxTransitions /\ Len(ts) = Len(e.transitions)
  /\ boundaries_bound_v3(e)
  /\ check_chain_v3(rows, e.chain)
  /\ validate_rs_range(start.scalar) /\ validate_rs_range(end.scalar)
  /\ \A i \in DOMAIN ts : validate_rs_range(ts[i].scalar)
  /\ decode_anchor_parts_v3(start) /\ ExpectedAnchor(start.claims) = e.start_anchor
  /\ decode_anchor_parts_v3(end) /\ ExpectedAnchor(end.claims) = e.end_anchor
  /\ \A i \in DOMAIN ts : decode_transition_parts_v3(ts[i])
  /\ expected_transitions(ts) = e.transitions
  /\ key_path_ok_v3(e)
  /\ frame_count(ts, rows) <= MaxChunks

encode_anchored_export_v3(start, ts, rows, end, e) ==
  Archive("BAP3-ARCHIVE", archive_header_v3(e), start, ts, rows, end)

(***************************************************************************)
(* Verifying an archive.                                                   *)
(***************************************************************************)

expectation_ok_v3(e) ==
  /\ Len(e.transitions) <= MaxTransitions
  /\ e.chain.chain_id \in ChainId
  /\ e.chain.first_sequence \in 1 .. IntegerMagnitude
  /\ e.chain.last_sequence \in e.chain.first_sequence .. IntegerMagnitude
  /\ e.chain.row_count \in 1 .. MaxRows
  /\ e.chain.row_count = e.chain.last_sequence - e.chain.first_sequence + 1
  /\ e.chain.first_sequence = 1 => e.chain.previous_hash = ZeroHash
  /\ \A a \in {e.start_anchor, e.end_anchor} :
       /\ a.chain_id \in ChainId
       /\ a.anchored_at \in InMagnitude /\ a.sequence \in 0 .. IntegerMagnitude
       /\ a.sequence = 0 => a.chain_hash = ZeroHash
  /\ \A i \in DOMAIN e.transitions :
       /\ e.transitions[i].chain_id \in ChainId
       /\ e.transitions[i].effective_at \in InMagnitude
       /\ e.transitions[i].current_key_fingerprint # e.transitions[i].next_key_fingerprint

keys_ok_v3(keys, e) ==
  /\ Len(keys) = Len(e.transitions) + 1
  /\ \A i \in DOMAIN keys : key_window_v3(keys[i])

stored_ok_v3(object, e) ==
  /\ object.chunks \in 1 .. MaxChunks
  /\ object.version = e.object_version
  /\ object.archive = e.digest
  /\ object.archive.magic = "BAP3-ARCHIVE"

decode_archive_header_v3(h) ==
  /\ h.v = 3
  /\ h.chain.chain_id \in ChainId
  /\ h.chain.row_count \in 0 .. MaxRows /\ h.transition_count \in 0 .. MaxTransitions
  /\ h.chain.first_sequence >= 1 /\ h.chain.last_sequence >= h.chain.first_sequence

header_matches_v3(h, e) ==
  /\ decode_archive_header_v3(h)
  /\ h.chain = e.chain
  /\ h.transition_count = Len(e.transitions)

check_export_chronology_v3(start, ts, end, keys) ==
  LET n == Len(ts)
  IN  /\ \A i, j \in DOMAIN keys : i # j => keys[i].public_key # keys[j].public_key
      /\ n = 0 => start.claims.anchored_at <= end.claims.anchored_at
      /\ n > 0 =>
           /\ \A i \in 2 .. n : ts[i - 1].claims.effective_at < ts[i].claims.effective_at
           /\ start.claims.anchored_at < ts[1].claims.effective_at
           /\ end.claims.anchored_at >= ts[n].claims.effective_at

\* both anchors and every transition, under the keys the caller supplies in order
boundaries_authentic_v3(start, ts, end, keys, e) ==
  /\ expectation_ok_v3(e)
  /\ keys_ok_v3(keys, e)
  /\ boundaries_bound_v3(e)
  /\ Len(ts) = Len(e.transitions)
  /\ verify_historical_anchor_v3(start, keys[1], e.start_anchor)
  /\ \A i \in DOMAIN ts :
       verify_key_transition_v3(ts[i], keys[i], keys[i + 1], e.transitions[i])
  /\ verify_historical_anchor_v3(end, keys[Len(keys)], e.end_anchor)
  /\ check_export_chronology_v3(start, ts, end, keys)

verify_anchored_export_v3(object, keys, e) ==
  LET a == object.archive
  IN  /\ stored_ok_v3(object, e)
      /\ header_matches_v3(a.header, e)
      /\ boundaries_authentic_v3(a.start_anchor, a.transitions, a.end_anchor, keys, e)
      /\ check_chain_v3(a.rows, e.chain)
=============================================================================
