SPECIFICATION Spec
CONSTANTS
  c1 = c1
  c2 = c2
  m1 = m1
  Cities = {c1, c2}
  NoCity = NoCity
  Markets = {m1}
  NoMarket = NoMarket
INVARIANTS
  ViewFollowsCity
CHECK_DEADLOCK FALSE
