SPECIFICATION Spec
CONSTANTS
  k1 = k1  k2 = k2  ak = ak  kid1 = kid1  kid2 = kid2  j1 = j1  j2 = j2
  ca = ca  cb = cb  m1 = m1  m2 = m2  r1 = r1  r2 = r2  sk = sk
  Key = {k1, k2, ak, sk}
  NoKey = NoKey
  P256Key = {}
  SmallOrderKey = {sk}
  Unbounded = Unbounded
  AssertionId = {j1, j2}
  Context = {ca}
  Content = {m1, m2}
  ForgedContent = {m2}
  ZeroDigest = ZeroDigest
  IntegerMagnitude = 4
  AuthorKeys <- TwoKeys
  AdversaryKeys <- AdversaryKey
  Term <- Passing
  Reader = {r1}
  MaxTime = 2
  MaxPublished = 2
  MaxVerified = 2
  MaxHeld = 1
INVARIANTS
  AssertionsAuthentic
  PublishedAccepted
  NextIsSuccessor
SYMMETRY Names
CHECK_DEADLOCK FALSE
