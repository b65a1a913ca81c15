SPECIFICATION Spec
CONSTANTS
  Call = {h1, h2}
  Member = {m1, m2}
  Table = {t}
  Changing = {m1, t}
  Content = {a, b}
  Gone = Gone
  None = None
  NoCall = NoCall
  First = a
  MemberTTL = 1
  TableTTL = 1
  NegativeTTL = 0
  StaleOnError = 1
  MaxTime = 3
  MaxChanges = 1
SYMMETRY Symmetry
ACTION_CONSTRAINT Within
INVARIANT OneFlight
INVARIANT FreshAnswers
INVARIANT InvalidationHeard
CHECK_DEADLOCK FALSE
