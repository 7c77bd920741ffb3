SPECIFICATION DashboardSpec
CONSTANTS
  p1 = p1
  p2 = p2
  s1 = s1
  s2 = s2
  s3 = s3
  x1 = x1
  x2 = x2
  Pairs = {p1, p2}
  Shops = {x1, x2}
  Saves = {s1, s2, s3}
  PairOf <- SamePairTwice
  NoSave = NoSave
  Step = 4
  MaxTiles = 4
  TileOf <- TwoTiles
  CategoryOf <- TwoCategories
  Place <- Places
  Boundary <- Market
SYMMETRY SameSaves
INVARIANTS
  NeverRefused
  ListMatchesCount
PROPERTIES
  ImplementsTileStore
\* Every save may be over with nothing left to go stale.
CHECK_DEADLOCK FALSE
