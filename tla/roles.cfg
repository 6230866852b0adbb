SPECIFICATION Spec
CONSTANTS
  k1 = k1  k2 = k2  ak = ak  sk = sk  s1 = s1  kid1 = kid1  kid2 = kid2  j1 = j1
  Key = {k1, k2, ak, sk, s1}
  NoKey = NoKey
  P256Key = {}
  SmallOrderKey = {sk}
  IntegerMagnitude = 3
  Unbounded = Unbounded
  KeyId = {kid1, kid2}
  AttestationId = {j1}
  AttestorKeys <- MCAttestorKeys
  AdversaryKeys <- MCAdversaryKeys
  Subject <- MCSubject
  Validity <- MCValidity
  MaxTime = 3
  MaxAttested = 2
  MaxVerified = 2
INVARIANTS AttestationsAuthentic RelianceSound AttestedAccepted
CHECK_DEADLOCK FALSE
