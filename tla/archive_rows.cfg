SPECIFICATION Spec
CONSTANTS
  k1 = k1  k2 = k2  k3 = k3  ak = ak  sk = sk  kid1 = kid1  kid2 = kid2  a1 = a1  t1 = t1
  ca = ca  cb = cb  m1 = m1  m2 = m2
  ChainId = {ca, cb}
  MajorOf <- TwoMajors
  Commitment = {m1}
  ForgedCommitment = {m2}
  ZeroHash = ZeroHash
  IntegerMagnitude = 3
  MaxRows = 2
  Key = {k1, ak, sk}
  NoKey = NoKey
  P256Key = {}
  SmallOrderKey = {sk}
  Unbounded = Unbounded
  MaxTransitions = 1
  MaxChunks = 7
  KeyPath <- OneKey
  OtherKeys <- AdversaryKeys
  ForgedAnchors <- OwnAnchors
  ForgedTransitions = {}
  Version = {v1}
  AnchorId = {a1}
  TransitionId = {t1}
  MaxTime = 0
  MaxLog = 4
  MaxAnchors = 3
  MaxPath = 0
  MaxExported = 0
  MaxVerified = 2
INVARIANTS
  TypeOK
  ExportIsTheLog
  HeadFixesHistory
PROPERTY ImplementsTamperEvidentLog
CHECK_DEADLOCK FALSE
