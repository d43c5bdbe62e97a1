SPECIFICATION Spec
CONSTANTS
  Requests <- MCRequests
  RuleNames = {"", "a"}
  Models = {"v1"}
  NaN = NaN
  Inf = Inf
  NegInf = NegInf
  Model = "v1"
  Calls = {c1, c2}
  FlagSets <- BootFlags
  CsvFiles <- MCCsvFiles
  SnapshotFiles <- MCSnapshotFiles
  MaxEdits = 1
CHECK_DEADLOCK FALSE
INVARIANTS
  LifecycleInv
  UnhealthyBootOnlyIfEdited
  ExitIsHonest
PROPERTIES
  SigtermEndsProcess
