CONSTANTS
  Callers = {c1, c2}
  Limit = 1
  Attempts = 2
  Idempotent = FALSE
  Fifo = TRUE
  Late = FALSE
  Ids = {i1, i2}
  NoKey = NoKey
SPECIFICATION FairSpec
PROPERTIES
  SlotComesBack
  WaiterServed
