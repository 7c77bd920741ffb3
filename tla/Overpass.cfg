SPECIFICATION Spec
CONSTANTS
  Refill = 2
  Capacity = 2
  MaxTime = 30
  Attempts = 3
  Timeout = 1
  RetryDelay = 1
  MaxBackoff = 3
  Headers <- RetryAfters
  NotNamed = NotNamed
  Late = 1
  Tiles = {"t1", "t2"}
  NoTile = NoTile
INVARIANTS
  RetryAfterHonoured
  StallBounded
PROPERTIES
  HolesTookEveryAttempt
  RequestsPaced
\* The clock stops at MaxTime, and the tiles are fetched once.
CHECK_DEADLOCK FALSE
