--------------------------- MODULE AnchoredExport ---------------------------
(***************************************************************************)
(* The evidence functions of the three majors side by side: a caller picks *)
(* the module by the function it calls.                                    *)
(***************************************************************************)
EXTENDS EvidenceV1, EvidenceV2, EvidenceV3

row_domain_hash(major, row) ==
  CASE major = 1 -> row_domain_hash_v1(row)
    [] major = 2 -> row_domain_hash_v2(row)
    [] OTHER     -> row_domain_hash_v3(row)

encode_consumption_entry_ok(major, entry) ==
  \/ major = 1 /\ encode_consumption_entry_ok_v1(entry)
  \/ major = 2 /\ encode_consumption_entry_ok_v2(entry)
  \/ major = 3 /\ encode_consumption_entry_ok_v3(entry)

encode_consumption_entry(major, entry) ==
  CASE major = 1 -> encode_consumption_entry_v1(entry)
    [] major = 2 -> encode_consumption_entry_v2(entry)
    [] OTHER     -> encode_consumption_entry_v3(entry)

check_chain(major, rows, c) ==
  \/ major = 1 /\ check_chain_v1(rows, c)
  \/ major = 2 /\ check_chain_v2(rows, c)
  \/ major = 3 /\ check_chain_v3(rows, c)

boundary_anchor_signing_input_ok(major, a) ==
  \/ major = 1 /\ boundary_anchor_signing_input_ok_v1(a)
  \/ major = 2 /\ boundary_anchor_signing_input_ok_v2(a)
  \/ major = 3 /\ boundary_anchor_signing_input_ok_v3(a)

boundary_anchor_signing_input(major, a) ==
  CASE major = 1 -> boundary_anchor_signing_input_v1(a)
    [] major = 2 -> boundary_anchor_signing_input_v2(a)
    [] OTHER     -> boundary_anchor_signing_input_v3(a)

key_transition_signing_input_ok(major, t) ==
  \/ major = 1 /\ key_transition_signing_input_ok_v1(t)
  \/ major = 2 /\ key_transition_signing_input_ok_v2(t)
  \/ major = 3 /\ key_transition_signing_input_ok_v3(t)

key_transition_signing_input(major, t) ==
  CASE major = 1 -> key_transition_signing_input_v1(t)
    [] major = 2 -> key_transition_signing_input_v2(t)
    [] OTHER     -> key_transition_signing_input_v3(t)

assemble_evidence(major, kind, compact) ==
  \/ major = 1 /\ assemble_evidence_v1(kind, compact)
  \/ major = 2 /\ assemble_evidence_v2(kind, compact)
  \/ major = 3 /\ assemble_evidence_v3(kind, compact)

\* whether the boundaries of an archive decode at all
boundaries_decode(major, start, ts, end) ==
  \/ /\ major = 1
     /\ decode_anchor_parts_v1(start) /\ decode_anchor_parts_v1(end)
     /\ \A i \in DOMAIN ts : decode_transition_parts_v1(ts[i])
  \/ /\ major = 2
     /\ decode_anchor_parts_v2(start) /\ decode_anchor_parts_v2(end)
     /\ \A i \in DOMAIN ts : decode_transition_parts_v2(ts[i])
  \/ /\ major = 3
     /\ decode_anchor_parts_v3(start) /\ decode_anchor_parts_v3(end)
     /\ \A i \in DOMAIN ts : decode_transition_parts_v3(ts[i])

\* the part of verify_anchored_export that rows and storage have no part in
boundaries_authentic(major, start, ts, end, keys, e) ==
  \/ major = 1 /\ boundaries_authentic_v1(start, ts, end, keys, e)
  \/ major = 2 /\ boundaries_authentic_v2(start, ts, end, keys, e)
  \/ major = 3 /\ boundaries_authentic_v3(start, ts, end, keys, e)

\* and the part that needs the caller's expectation alone
expectation_ok(major, e) ==
  \/ major = 1 /\ expectation_ok_v1(e) /\ boundaries_bound_v1(e)
  \/ major = 2 /\ expectation_ok_v2(e) /\ boundaries_bound_v2(e)
  \/ major = 3 /\ expectation_ok_v3(e) /\ boundaries_bound_v3(e)

encode_anchored_export_ok(major, start, ts, rows, end, e) ==
  \/ major = 1 /\ encode_anchored_export_ok_v1(start, ts, rows, end, e)
  \/ major = 2 /\ encode_anchored_export_ok_v2(start, ts, rows, end, e)
  \/ major = 3 /\ encode_anchored_export_ok_v3(start, ts, rows, end, e)

encode_anchored_export(major, start, ts, rows, end, e) ==
  CASE major = 1 -> encode_anchored_export_v1(start, ts, rows, end, e)
    [] major = 2 -> encode_anchored_export_v2(start, ts, rows, end, e)
    [] OTHER     -> encode_anchored_export_v3(start, ts, rows, end, e)

verify_anchored_export(major, object, keys, e) ==
  \/ major = 1 /\ verify_anchored_export_v1(object, keys, e)
  \/ major = 2 /\ verify_anchored_export_v2(object, keys, e)
  \/ major = 3 /\ verify_anchored_export_v3(object, keys, e)
=============================================================================
