SPECIFICATION Spec
CONSTANTS
  c1 = c1
  c2 = c2
  Calls = {c1, c2}
  NaN = NaN
  NoSpan = NoSpan
  Spans = {s1}
  Factors <- MCFactors
CHECK_DEADLOCK FALSE
INVARIANTS
  BooksBalance
  VetoStaysInside
  LogMatchesSink
  TelemetryInv
PROPERTIES
  AnswerIsReported
