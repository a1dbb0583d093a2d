CONSTANTS
  Urls = {a}
  MaxVersion = 1
  Size <- Uneven
  Segs = {0, 1}
  Configs <- TwoParts
  Async = TRUE
  MaxZombies = 0
  Tagged = TRUE
  Rollback = FALSE
  MayIgnoreRange = FALSE
  MayEndShort = FALSE
  NoFile = NoFile
  Torn = Torn
  MayHideSize = FALSE
  Attempts = 2
SPECIFICATION MpSpec
PROPERTIES
  ResumableKept
