SPECIFICATION FairSpec
CONSTANTS
  e1 = e1
  e2 = e2
  e3 = e3
  bad = bad
  Events <- ThreeWithBad
  Poisoned <- OneBad
  Size <- OneLarge
  QueueSize = 1
  BatchSize = 2
  LostResponses = TRUE
  MinDowntime = 1
  MaxRestarts = 1
INVARIANTS
  EveryEventInOnePlace
  StoredAtMostOnce
  SinkInv
PROPERTIES
  LedgerSpec
  HeldSettles
CHECK_DEADLOCK FALSE
