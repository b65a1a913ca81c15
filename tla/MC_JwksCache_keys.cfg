SPECIFICATION FairSpec
CONSTANTS
  Call = {1, 2}
  Main = main
  Kid = {k1, k2}
  FirstKids = {k1}
  NoTask = NoTask
  NoKid = NoKid
  MaxAge = 1
  MinInterval = 1
  TTL = 2
  HasFile = TRUE
  MaxTime = 3
  MaxRestarts = 1
ACTION_CONSTRAINT Within
INVARIANT TypeOK
INVARIANT SingleFlight
INVARIANT RetiredKeysDie
INVARIANT OwnFetchIsKept
CHECK_DEADLOCK FALSE
PROPERTY EveryCallAnswered
