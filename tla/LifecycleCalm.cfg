SPECIFICATION FairSpec
CONSTANTS
  m1 = m1
  m2 = m2
  w1 = w1
  Markets = {m1, m2}
  Workers = {w1}
  NoMarket = NoMarket
  NoWorker = NoWorker
  MaxAttempts = 3
  MaxStalledCount = 1
  MaxFaults <- CalmFaults
INVARIANTS
  NotStuck
PROPERTIES
  AcceptedSettles
\* Every job may be over with no request left to come.
CHECK_DEADLOCK FALSE
