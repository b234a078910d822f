SPECIFICATION Spec
CONSTANTS
  r1 = r1
  r2 = r2
  Replica = {r1, r2}
  TTL = 2
  Offset <- MCOffset
  MaxOffset = 1
  HoldUntilExpiry = FALSE
  NoRow = NoRow
  LastTick = 4
  MaxRenewals = 1
  Conn = {h1, h2, h3}
  Key = {"k1", "k2"}
  Tofu = TRUE
  MaxPins = 2
  Request = {q1, q2}
  ApiNode = {n1}
  Limit = 1
  MaxReleases = 1
  Process = {v1, v2}
  Token = {"t1"}
  Passphrase = {"a", "b"}
  EnvPassphrase = "a"
  Credential = {k1}
  MaxDeks = 2
  Instance = {i1}
  CacheTime = 2
  MaxTime = 5
INVARIANTS
  OneCoveredJob
  FailoverBound
  TrustFollowsThePin
  PatchAlertIsTrue
  CredentialsSurvive
  VerdictIsRecent
CHECK_DEADLOCK FALSE
