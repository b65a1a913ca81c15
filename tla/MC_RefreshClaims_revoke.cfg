SPECIFICATION Spec
CONSTANTS
  Token = {g1, s1, s2}
  LoginToken = {g1}
  Person = {p1}
  Client = {c1}
  Request = {r1, r2}
  Proc = {n1}
  Logout = {}
  Revoker = {v1}
  Window = 1
  TTL = 3
  MaxGrace = 3
  MaxTime = 2
  MaxRestarts = 0
  MayFail = FALSE
  MayWithdraw = FALSE
  EnforceAccess = FALSE
  NoToken = NoToken
  NoPerson = NoPerson
  NoClient = NoClient
  NoRequest = NoRequest
SYMMETRY Symmetry
INVARIANT ClientRevocationRevokes
CHECK_DEADLOCK FALSE
