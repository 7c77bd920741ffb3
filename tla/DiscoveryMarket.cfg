SPECIFICATION Spec
CONSTANTS
  NumTiles = 2
  NumCategories = 2
  Shops = {inner}
  Inside = {inner}
  inner = inner
  p1 = p1
  Portfolio = {p1}
  MaxAttempts = 2
  MaxExpiries = 1
INVARIANTS
  NeverOverstated
  SettledProgressIsComplete
  VerdictMatchesProgress
  HolesAreReported
PROPERTIES
  LocatedNotGeocoded
  FollowsMarketStatus
\* The run is over when its market is settled.
CHECK_DEADLOCK FALSE
