SPECIFICATION FairSpec
CONSTANTS
  Token = {g1, s1, s2}
  LoginToken = {g1}
  Person = {p1}
  Client = {c1}
  Request = {r1, r2}
  Proc = {n1}
  Logout = {l1}
  Revoker = {v1}
  Window = 1
  TTL = 3
  MaxGrace = 3
  MaxTime = 2
  MaxRestarts = 1
  MayFail = TRUE
  MayWithdraw = FALSE
  EnforceAccess = FALSE
  NoToken = NoToken
  NoPerson = NoPerson
  NoClient = NoClient
  NoRequest = NoRequest
ACTION_CONSTRAINT OneDisturbance
INVARIANT RevocationReachesSnapshot
PROPERTY ImplementsTokenGrant
PROPERTY EveryRequestAnswered
CHECK_DEADLOCK FALSE
