SPECIFICATION Spec
CONSTANTS
  p1 = p1
  p2 = p2
  t1 = t1
  t2 = t2
  t3 = t3
  Call = {h1, h2, h3, h4}
  Request = {r1}
  Code = {1, 2}
  Session = {1, 2}
  Person = {p1, p2}
  Tenant = {t1}
  Membership <- OneTenant
  Temporary = {p2}
  RequestTTL = 2
  CodeTTL = 1
  SpentTTL = 2
  MaxTime = 3
  MayHint = TRUE
  MayRevoke = TRUE
  MayStop = TRUE
  NoCall = NoCall
  NoRequest = NoRequest
  NoCode = 0
  NoSession = 0
  NoPerson = NoPerson
  NoTenant = NoTenant
SYMMETRY CallSymmetry
ACTION_CONSTRAINT OneStory
INVARIANT CodePaidOnce
INVARIANT UsedCodeIsReported
INVARIANT CodeInv
INVARIANT PasswordEndsSessions
PROPERTY ImplementsOneTimeCode
CHECK_DEADLOCK FALSE
