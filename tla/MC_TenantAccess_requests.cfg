SPECIFICATION Spec
CONSTANTS
  u1 = u1
  u2 = u2
  r1 = r1
  r2 = r2
  k1 = k1
  k2 = k2
  Person = {u1, u2}
  Machine = {m1}
  Admins = {u1, u2}
  Role = {admin, r1, r2}
  AdminRole = admin
  Code = {t1}
  Call = {k1, k2}
  MaxCalls = 4
INVARIANT AdmissionFollowsRole
INVARIANT AdminRemains
INVARIANT RolesExist
INVARIANT RolesFollowTemplate
ACTION_CONSTRAINT Bounded
SYMMETRY Interchangeable
CHECK_DEADLOCK FALSE
