SPECIFICATION Spec
CONSTANTS
  Requests <- MCRequests
  RuleNames = {"", "a", "b"}
  Models = {"v1", "v2"}
  NaN = NaN
  Inf = Inf
  NegInf = NegInf
  Countries = {"BR", "DE"}
  Fields <- MCFields
  Calls = {c1, c2}
  Reloads = {r1}
  Posts = {p1, p2}
  Boot = boot
  Mode = "snapshot"
  Adapter = "indexed"
  Model = "v1"
  DiagnoseOn = TRUE
  Files <- GuardrailsFiles
  Bodies <- GuardrailsBodies
  Configs <- PostedConfigs
  BootConfig <- Tight
  MaxEdits = 0
SYMMETRY Alike
INVARIANTS
  CapturesInForce
  EnvelopeNeverMeetsOlderDecider
  ReleasedWithinEnvelope
  EchoShowsAConfig
CHECK_DEADLOCK FALSE
