SPECIFICATION Spec
CONSTANTS
  Requests <- MCRequests
  RuleNames = {"", "a", "b"}
  Models = {"v1", "v2"}
  NaN = NaN
  Inf = Inf
  NegInf = NegInf
  Countries = {"BR", "DE"}
  Fields <- MCFields
  Calls = {}
  Reloads = {r1}
  Posts = {}
  Boot = boot
  Mode = "rules"
  Adapter = "inmemory"
  Model = "v1"
  DiagnoseOn = TRUE
  Files <- ReloadFiles
  Bodies <- ReloadBodies
  Configs = {}
  BootConfig <- Tight
  MaxEdits = 1
INVARIANTS
  UnhealthyNeverSwappedIn
CHECK_DEADLOCK FALSE
