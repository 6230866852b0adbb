SPECIFICATION Spec
CONSTANTS
  k1 = k1  k2 = k2  ak = ak  kid1 = kid1  kid2 = kid2  j1 = j1  j2 = j2
  ca = ca  cb = cb  m1 = m1  m2 = m2  r1 = r1  r2 = r2  sk = sk
  Key = {k1, ak, sk}
  NoKey = NoKey
  P256Key = {}
  SmallOrderKey = {sk}
  Unbounded = Unbounded
  AssertionId = {j1, j2}
  Context = {ca}
  Content = {m1}
  ForgedContent = {m1}
  ZeroDigest = ZeroDigest
  IntegerMagnitude = 3
  AuthorKeys <- OneKey
  AdversaryKeys <- AdversaryKey
  Term <- Lasting
  Reader = {r1, r2}
  MaxTime = 0
  MaxPublished = 4
  MaxVerified = 3
  MaxHeld = 3
INVARIANTS
  TypeOK
  LineageFollowed
  HeadFixesLineage
PROPERTY ImplementsTamperEvidentLog
CHECK_DEADLOCK FALSE
