SPECIFICATION Spec
CONSTANTS
  root = root
  a = a
  b = b
  x = x
  y = y
  u1 = u1
  u2 = u2
  u3 = u3
  k1 = k1
  k2 = k2
  Dept = {root, a, b, x, y}
  User = {u1, u2, u3}
  Call = {k1, k2}
  InitialPath <- MCPath
  InitialMember <- MCMember
  MaxDeptDepth = 4
  MaxCalls = 3
  MayFail = TRUE
  NoDept = NoDept
ACTION_CONSTRAINT Bounded
SYMMETRY Interchangeable
INVARIANT PathsAreChains
INVARIANT NoOrphans
INVARIANT OneOfEach
CHECK_DEADLOCK FALSE
