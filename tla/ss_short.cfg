CONSTANTS
  Urls = {a, b}
  MaxVersion = 2
  Size <- Shrinking
  Segs = {}
  Tagged = TRUE
  Rollback = FALSE
  MayIgnoreRange = TRUE
  MayEndShort = TRUE
  NoFile = NoFile
  Torn = Torn
  MayHideSize = TRUE
  Attempts = 2
SPECIFICATION Spec
INVARIANTS
  NoSplice
  HashInStep
  VerifiedMeansExpected
PROPERTIES
  ForeignPartKept
  ResumableKept
