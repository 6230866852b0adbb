SPECIFICATION Spec
CONSTANTS
  k1 = k1  k2 = k2  k3 = k3  ak = ak  sk = sk  kid1 = kid1  kid2 = kid2  a1 = a1  t1 = t1
  ca = ca  cb = cb  m1 = m1  m2 = m2
  ChainId = {ca}
  MajorOf <- ThirdMajor
  Commitment = {m1}
  ForgedCommitment = {m2}
  ZeroHash = ZeroHash
  IntegerMagnitude = 3
  MaxRows = 2
  Key = {k1, k2, k3, ak}
  NoKey = NoKey
  P256Key = {k1, k2, k3, ak}
  SmallOrderKey = {}
  Unbounded = Unbounded
  MaxTransitions = 2
  MaxChunks = 7
  KeyPath <- ThreeKeys
  OtherKeys <- AdversaryKeys
  ForgedAnchors <- SuccessorAnchors
  ForgedTransitions <- SuccessorTransitions
  Version = {v1}
  AnchorId = {a1}
  TransitionId = {t1}
  MaxTime = 2
  MaxLog = 1
  MaxAnchors = 2
  MaxPath = 2
  MaxExported = 1
  MaxVerified = 1
INVARIANTS
  ExportVerifies
  CustodyFollowed
CHECK_DEADLOCK FALSE
