SPECIFICATION Spec
CONSTANTS
  ik = ik  hk = hk  ak = ak  sk = sk  pik = pik  phk = phk  NoKey = NoKey
  kid = kid  iss = iss  g1 = g1  g2 = g2  aud1 = aud1  aud2 = aud2
  read = read  write = write  x = x  y = y  post = post
  u1 = u1  loop1 = loop1  i1 = i1  i2 = i2  f1 = f1  NoNonce = NoNonce
  Key <- MCKey
  HonestKey <- MCHonest
  P256Key <- MCP256
  SmallOrderKey <- MCSmall
  KeyId = {kid}
  Issuer = {iss}
  GrantId = {g1, g2}
  Audience = {aud1, aud2}
  Operation = {read, write}
  Args = {x, y}
  Method = {post}
  Invocation = {i1, i2}
  HttpsUri = {u1}
  LoopbackUri = {loop1}
  I64Min <- MCI64Min
  Nonce = {}
  Form = {f1}
  I64Max = 9
  MaxClockSkew = 1
  MaxProofAge = 1
  GrantPolicy <- BindPolicy
  HolderRequest <- BindRequests
  HostContext <- BindContexts
  ForgedGrants <- BindForgedGrants
  ForgedProofs <- BindForgedProofs
  Drift = 0
  MaxTime = 3
  MaxGrants = 2
  MaxProofs = 2
  MaxGrantFacts = 0
  MaxEnvelopeFacts = 1
INVARIANTS
  TypeOK
  SomebodySigned
PROPERTY ImplementsBoundedAuthority
CHECK_DEADLOCK FALSE
