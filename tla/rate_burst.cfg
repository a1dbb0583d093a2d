CONSTANTS
  Callers = {c1, c2, c3}
  Calls = 1
  Period = 3
  Block = TRUE
  MaxDelay = 3
  MaxCount = 4
SPECIFICATION Spec
INVARIANTS
  AtMostCallsAtOnce
