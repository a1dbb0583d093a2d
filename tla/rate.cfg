CONSTANTS
  Callers = {c1, c2, c3}
  Calls = 2
  Period = 3
  Block = TRUE
  MaxDelay = 2
  MaxCount = 3
SPECIFICATION FairSpec
INVARIANTS
  SlotsAllUsed
  BurstBounded
  BurstInv
  BlocksUntilReset
  DelayBounded
PROPERTIES
  BlockedCallEnds
