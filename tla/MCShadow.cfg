SPECIFICATION Spec
CONSTANTS
  Requests <- MCRequests
  RuleNames = {"a"}
  Models = {"v1"}
  NaN = NaN
  Inf = Inf
  NegInf = NegInf
  Countries = {"BR", "DE"}
  Fields = {"customer_tier"}
  Calls = {c1, c2}
  Loads = {l}
  Clears = {k}
  Swaps = {s}
  Champions <- MCChampions
  BootChampion <- MCBoot
  Bodies <- MCBodies
  Adapter = "inmemory"
  Model = "v1"
  Envelope <- MCEnvelope
  SampleRate = "part"
INVARIANTS
  ShadowInv
  CountersAddUp
  PairNeverStale
  LateIsTimeout
  SelfComparisonAgrees
PROPERTIES
  ResponseDoesNotWait
CHECK_DEADLOCK FALSE
