SPECIFICATION Spec
CONSTANTS
  m1 = m1
  m2 = m2
  w1 = w1
  w2 = w2
  Markets = {m1, m2}
  Workers = {w1, w2}
  NoMarket = NoMarket
  NoWorker = NoWorker
  MaxAttempts = 2
  MaxStalledCount = 1
  MaxFaults <- EveryFaultOnce
SYMMETRY Symmetry
INVARIANTS
  WorkerVerdictIsFinal
  CompletedJobSettled
  DeliveriesBounded
PROPERTIES
  SettledUnlessRedelivered
  ImplementsMarketStatus
\* Every job may be over with no request left to come.
CHECK_DEADLOCK FALSE
