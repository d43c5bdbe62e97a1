SPECIFICATION Spec
CONSTANTS
  Requests <- MCRequests
  RuleNames = {"", "a", "b"}
  Models = {"v1", "v2"}
  NaN = NaN
  Inf = Inf
  NegInf = NegInf
  Countries = {"BR", "DE"}
  Fields <- MCFields
  Calls = {}
  Reloads = {r1, r2}
  Posts = {}
  Boot = boot
  Mode = "rules"
  Adapter = "indexed"
  Model = "v1"
  DiagnoseOn = TRUE
  Files <- ReloadFiles
  Bodies <- EveryBody
  Configs = {}
  BootConfig <- Tight
  MaxEdits = 2
SYMMETRY Alike
INVARIANTS
  IInv
  AckedMeansInstalledOnce
  ReloadReadsCurrentFile
  LaterReloadNotOlder
  UnhealthyOnlyIfEdited
CHECK_DEADLOCK FALSE
