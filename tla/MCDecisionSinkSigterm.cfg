SPECIFICATION Spec
CONSTANTS
  e1 = e1
  e2 = e2
  e3 = e3
  bad = bad
  Events <- Three
  Poisoned <- NoneBad
  Size <- Small
  QueueSize = 2
  BatchSize = 2
  LostResponses = FALSE
  MinDowntime = 1
  MaxRestarts = 0
INVARIANTS
  SigtermStrandsNothing
CHECK_DEADLOCK FALSE
