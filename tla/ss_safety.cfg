CONSTANTS
  Urls = {a, b}
  MaxVersion = 2
  Size <- Shrinking
  Segs = {}
  Tagged = TRUE
  Rollback = FALSE
  MayIgnoreRange = TRUE
  MayEndShort = FALSE
  NoFile = NoFile
  Torn = Torn
  MayHideSize = FALSE
  Attempts = 2
SPECIFICATION FairSpec
INVARIANTS
  TypeOK
  TargetIntact
  NoSplice
  HashInStep
  VerifiedMeansExpected
PROPERTIES
  ForeignPartKept
  ResumableKept
  ImplementsContract
  CallReturns
