SPECIFICATION Spec
CONSTANTS
  p1 = p1
  p2 = p2
  t1 = t1
  t2 = t2
  t3 = t3
  Call = {h1, h2, h3, h4}
  Request = {r1}
  Code = {}
  Session = {s1}
  Person = {p1}
  Tenant = {t1}
  Membership <- OneTenant
  Temporary = {p1}
  RequestTTL = 3
  CodeTTL = 1
  SpentTTL = 4
  MaxTime = 1
  MayHint = FALSE
  MayRevoke = FALSE
  MayStop = FALSE
  NoCall = NoCall
  NoRequest = NoRequest
  NoCode = NoCode
  NoSession = NoSession
  NoPerson = NoPerson
  NoTenant = NoTenant
SYMMETRY Symmetry
INVARIANT CompletionNeedsNormalPassword
CHECK_DEADLOCK FALSE
