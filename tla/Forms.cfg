SPECIFICATION FormsSpec
CONSTANTS
  Step = 3
  MaxTiles = 4
  MinSpan = 1
  MaxArea = 8
  LatLimit = 3
  LngLimit = 4
  CityBoxes <- SomeCities
  Positions <- FewPositions
  Shifts <- FewShifts
  Reach = 4
  NoBox = NoBox
  Headers <- SomeHeaders
  normalizeHeader <- Normalized
  Offered <- SomeFiles
  NoFile = NoFile
  Requests = {"r1", "r2"}
  NoRequest = NoRequest
INVARIANTS
  FormsTypeOK
  AcceptsExactlyUsable
  ContinueHasStores
  CollapsedOnlyByCity
  TilesFitMarket
\* A market is drawn once.
CHECK_DEADLOCK FALSE
