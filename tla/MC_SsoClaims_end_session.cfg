SPECIFICATION Spec
CONSTANTS
  Call = {1, 2, 3, 4}
  Person = {p1}
  Session = {1, 2}
  Notice = {n1}
  Worker = {w1}
  SessionTTL = 2
  RegTTL = 2
  JobTTL = 0
  MaxAttempts = 2
  MaxTime = 3
  MayFail = TRUE
  MayStop = TRUE
  NoSession = 0
  NoPerson = NoPerson
  NoNotice = NoNotice
ACTION_CONSTRAINT Within
INVARIANT EndSessionNotifies
CHECK_DEADLOCK FALSE
