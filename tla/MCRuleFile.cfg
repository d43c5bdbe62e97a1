SPECIFICATION Spec
CONSTANTS
  Requests <- MCRequests
  RuleNames = {"", "a", "b", "c"}
  Models = {"v1", "v2"}
  NaN = NaN
  Inf = Inf
  NegInf = NegInf
  Modes = {"rules", "snapshot"}
  Adapter = "inmemory"
  Model = "v1"
  DiagnoseOn = TRUE
  Sources <- MCSources
  Loads = {r1, r2}
  MaxRuns = 2
  MaxCrashes = 1
SYMMETRY Symmetry
INVARIANTS
  RuleFileInv
  WholeFileLoads
CHECK_DEADLOCK FALSE
