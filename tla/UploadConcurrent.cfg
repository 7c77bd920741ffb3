SPECIFICATION Spec
CONSTANTS
  u1 = u1
  u2 = u2
  u3 = u3
  a1 = a1
  a2 = a2
  b1 = b1
  b2 = b2
  c1 = c1
  m1 = m1
  Uploads = {u1, u2}
  Rows = {a1, a2, b1, b2}
  Source <- TwoUploads
  Coordinates = {a1, b1}
  Markets = {m1}
  NoMarket = NoMarket
INVARIANTS
  UploadReplacesPortfolio
\* Every upload and every market may be finished.
CHECK_DEADLOCK FALSE
