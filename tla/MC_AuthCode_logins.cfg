SPECIFICATION Spec
CONSTANTS
  p1 = p1
  p2 = p2
  t1 = t1
  t2 = t2
  t3 = t3
  Call = {h1, h2, h3, h4}
  Request = {r1}
  Code = {c1}
  Session = {s1}
  Person = {p1, p2}
  Tenant = {t1, t2, t3}
  Membership <- Newcomer
  Temporary = {}
  RequestTTL = 3
  CodeTTL = 1
  SpentTTL = 4
  MaxTime = 1
  MayHint = TRUE
  MayRevoke = FALSE
  MayStop = FALSE
  NoCall = NoCall
  NoRequest = NoRequest
  NoCode = NoCode
  NoSession = NoSession
  NoPerson = NoPerson
  NoTenant = NoTenant
SYMMETRY Symmetry
INVARIANT GrantIsProved
INVARIANT LoginInv
CHECK_DEADLOCK FALSE
