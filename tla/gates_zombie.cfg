CONSTANTS
  Callers = {c1, c2, c3}
  Calls = 1
  Period = 2
  Block = TRUE
  MaxDelay = 1
  MaxCount = 2
  Limit = 1
  Attempts = 2
  Tasks = FALSE
  Kinds = {"decode", "stream", "multi"}
  Nesting = TRUE
  NoCall = NoCall
SPECIFICATION GatesSpec
INVARIANTS
  RequestsUnderSlots
