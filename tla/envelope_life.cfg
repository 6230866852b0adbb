SPECIFICATION Spec
CONSTANTS
  ik = ik  hk = hk  ak = ak  sk = sk  pik = pik  phk = phk  NoKey = NoKey
  kid = kid  iss = iss  g1 = g1  g2 = g2  aud1 = aud1  aud2 = aud2
  read = read  write = write  x = x  y = y  post = post
  u1 = u1  loop1 = loop1  i1 = i1  i2 = i2  f1 = f1  NoNonce = NoNonce
  Key <- MCKey
  HonestKey <- MCHonest
  P256Key <- MCP256
  SmallOrderKey <- MCSmall
  KeyId = {kid}
  Issuer = {iss}
  GrantId = {g1, g2}
  Audience = {aud1, aud2}
  Operation = {read, write}
  Args = {x, y}
  Method = {post}
  Invocation = {i1, i2}
  HttpsUri = {u1}
  LoopbackUri = {loop1}
  I64Min <- MCI64Min
  Nonce = {}
  Form = {f1, f2}
  I64Max = 4
  MaxClockSkew = 2
  MaxProofAge = 1
  GrantPolicy <- LifePolicy
  HolderRequest <- OneRequest
  HostContext <- LifeContexts
  ForgedGrants = {}
  ForgedProofs = {}
  Drift = 1
  MaxTime = 4
  MaxGrants = 2
  MaxProofs = 1
  MaxGrantFacts = 1
  MaxEnvelopeFacts = 2
INVARIANTS
  GrantFactsAuthentic
  EnvelopeFactsAuthentic
  ReplayWindow
  HonestAccepted
CHECK_DEADLOCK FALSE
