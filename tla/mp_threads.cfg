CONSTANTS
  Urls = {a}
  MaxVersion = 1
  Size <- Even
  Segs = {0, 1}
  Configs <- TwoParts
  Async = FALSE
  MaxZombies = 2
  Tagged = TRUE
  Rollback = FALSE
  MayIgnoreRange = FALSE
  MayEndShort = TRUE
  NoFile = NoFile
  Torn = Torn
  MayHideSize = FALSE
  Attempts = 1
SPECIFICATION MpSpec
INVARIANTS
  VerifiedMeansExpected
