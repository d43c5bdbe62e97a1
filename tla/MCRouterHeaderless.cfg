SPECIFICATION Spec
CONSTANTS
  Requests <- MCRequests
  RuleNames = {"a"}
  Models = {"v0", "v1", "v2"}
  NaN = NaN
  Inf = Inf
  NegInf = NegInf
  c1 = c1
  c2 = c2
  r1 = r1
  r2 = r2
  x = x
  drawn = drawn
  Calls = {c1, c2}
  Reloads = {}
  Boot = boot
  Routes <- MCRoutes
  Policy = "hash-correlation"
  Cids <- MCCids
  Generated <- MCGenerated
  NoHeader = NoHeader
  Hash <- MCHash
  Contents <- MCContents
  MaxEdits = 1
INVARIANTS
  HeaderlessOnFirstRoute
CHECK_DEADLOCK FALSE
