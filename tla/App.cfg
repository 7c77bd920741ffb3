SPECIFICATION FairSpec
CONSTANTS
  c1 = c1
  c2 = c2
  m1 = m1
  m2 = m2
  Cities = {c1, c2}
  NoCity = NoCity
  Markets = {m1, m2}
  NoMarket = NoMarket
INVARIANTS
  BoxFitsCity
  ShownWasTrue
PROPERTIES
  ShowsItsMarket
  SettledIsSeen
\* The browser may rest on the list of markets with no market left to create.
CHECK_DEADLOCK FALSE
