------------------------------ MODULE Envelope ------------------------------
(***************************************************************************)
(* The three majors side by side: a caller picks the module, and in        *)
(* major 1 the profile, by the function it calls.                          *)
(***************************************************************************)
EXTENDS EnvelopeV1, EnvelopeV2, EnvelopeV3

\* the keys of the major's signature suite
SuiteKeys(major) ==
  {key \in Key : IF major = 3 THEN validate_point(key) ELSE acceptable_public_key(key)}

\* only major 1 has the loopback surface
Profiles(major) == IF major = 1 THEN AllProfiles ELSE {"standard"}

NormalUris(profile) == IF profile = "standard" THEN HttpsUri ELSE LoopbackUri

(***************************************************************************)
(* Producing.                                                              *)
(***************************************************************************)

grant_signing_input_ok(major, input) ==
  \/ major = 1 /\ grant_signing_input_ok_v1(input)
  \/ major = 2 /\ grant_signing_input_ok_v2(input)
  \/ major = 3 /\ grant_signing_input_ok_v3(input)

grant_signing_input(major, input) ==
  CASE major = 1 -> grant_signing_input_v1(input)
    [] major = 2 -> grant_signing_input_v2(input)
    [] OTHER     -> grant_signing_input_v3(input)

grant_assembled(major, grant) ==
  \/ major = 1 /\ assemble_compact_for_v1("Grant", grant, "standard")
  \/ major = 2 /\ assemble_compact_v2("Grant", grant)
  \/ major = 3 /\ assemble_compact_v3("Grant", grant)

proof_signing_input_ok(major, profile, input) ==
  \/ major = 1 /\ proof_signing_input_ok_v1(input, profile)
  \/ major = 2 /\ profile = "standard" /\ proof_signing_input_ok_v2(input)
  \/ major = 3 /\ profile = "standard" /\ proof_signing_input_ok_v3(input)

proof_signing_input(major, profile, input) ==
  CASE major = 1 -> proof_signing_input_for_v1(input, profile)
    [] major = 2 -> proof_signing_input_v2(input)
    [] OTHER     -> proof_signing_input_v3(input)

proof_assembled(major, profile, proof) ==
  \/ /\ major = 1 /\ profile = "standard"
     /\ assemble_compact_for_v1("Proof", proof, "standard")
  \/ /\ major = 1 /\ profile = "local_loopback_http"
     /\ assemble_compact_for_v1("LocalLoopbackHttpProof", proof, "local_loopback_http")
  \/ major = 2 /\ profile = "standard" /\ assemble_compact_v2("Proof", proof)
  \/ major = 3 /\ profile = "standard" /\ assemble_compact_v3("Proof", proof)

(***************************************************************************)
(* Reading before anything is verified.                                    *)
(***************************************************************************)

untrusted_key_locator(major, g) ==
  \/ major = 1 /\ untrusted_key_locator_v1(g)
  \/ major = 2 /\ untrusted_key_locator_v2(g)
  \/ major = 3 /\ untrusted_key_locator_v3(g)

decode_grant(major, g) ==
  \/ major = 1 /\ decode_grant_v1(g)
  \/ major = 2 /\ decode_grant_v2(g)
  \/ major = 3 /\ decode_grant_v3(g)

decode_proof(major, profile, p) ==
  \/ major = 1 /\ decode_proof_for_v1(p, profile)
  \/ major = 2 /\ decode_proof_v2(p)
  \/ major = 3 /\ decode_proof_v3(p)

(***************************************************************************)
(* Verifying.                                                              *)
(***************************************************************************)

verify_grant(g, e) ==
  \/ e.major = 1 /\ verify_grant_v1(g, e)
  \/ e.major = 2 /\ verify_grant_v2(g, e)
  \/ e.major = 3 /\ verify_grant_v3(g, e)

check_envelope_for(g, p, e) ==
  \/ e.major = 1 /\ e.profile = "standard" /\ check_envelope_v1(g, p, e)
  \/ /\ e.major = 1 /\ e.profile = "local_loopback_http"
     /\ check_local_loopback_http_envelope_v1(g, p, e)
  \/ e.major = 2 /\ e.profile = "standard" /\ check_envelope_v2(g, p, e)
  \/ e.major = 3 /\ e.profile = "standard" /\ check_envelope_v3(g, p, e)
=============================================================================
