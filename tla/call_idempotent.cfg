CONSTANTS
  Callers = {c1, c2}
  Limit = 1
  Attempts = 2
  Idempotent = TRUE
  Fifo = FALSE
  Late = TRUE
  Ids = {i1, i2}
  NoKey = NoKey
SPECIFICATION Spec
INVARIANTS
  SlotsConserved
  AppliedOnce
PROPERTIES
  ReturnedMeansApplied
