SPECIFICATION NominatimSpec
CONSTANTS
  row1 = row1
  row2 = row2
  row3 = row3
  key = key
  p1 = p1
  p2 = p2
  c1 = c1
  r1 = r1
  r2 = r2
  r3 = r3
  Refill = 2
  Capacity = 2
  MaxTime = 4
  MaxWaiting = 3
  Second = 1
  Late = 1
  Cities = {c1}
  Requests = {r1, r2, r3}
  CityOf <- CityOfRequests
  Rows = {row1, row2, row3}
  Keys = {key}
  KeyOf <- KeyOfRows
  NoKey = NoKey
  Points = {p1, p2}
  NoPoint = NoPoint
  Runs = 1
SYMMETRY Symmetry
INVARIANTS
  WindowBound
  NoLostWakeup
  WakeFindsToken
  WaitBounded
  SameKeySamePoint
\* The clock stops at MaxTime.
CHECK_DEADLOCK FALSE
