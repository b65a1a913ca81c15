SPECIFICATION Spec
CONSTANTS
  Token = {g1, s1, s2, s3}
  LoginToken = {g1}
  Person = {p1}
  Client = {c1}
  Request = {r1, r2, r3}
  Proc = {n1, n2}
  Logout = {}
  Revoker = {}
  Window = 1
  TTL = 2
  MaxGrace = 2
  MaxTime = 3
  MaxRestarts = 0
  MayFail = FALSE
  MayWithdraw = TRUE
  EnforceAccess = FALSE
  NoToken = NoToken
  NoPerson = NoPerson
  NoClient = NoClient
  NoRequest = NoRequest
SYMMETRY Symmetry
INVARIANT TypeOK
INVARIANT OneLivePerGrant
INVARIANT SingleSuccessor
INVARIANT AnswerIsSuccessor
INVARIANT InflightHasLeader
INVARIANT SequentialRetryReplayed
INVARIANT GraceBounded
INVARIANT RotationInv
CHECK_DEADLOCK FALSE
