SPECIFICATION Spec
CONSTANTS
  m1 = m1
  w1 = w1
  Markets = {m1}
  Workers = {w1}
  NoMarket = NoMarket
  NoWorker = NoWorker
  MaxAttempts = 2
  MaxStalledCount = 1
  MaxFaults <- OneShutdown
INVARIANTS
  NotStuck
\* Every job may be over with no request left to come.
CHECK_DEADLOCK FALSE
