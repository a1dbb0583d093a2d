CONSTANTS
  Urls = {a}
  MaxVersion = 3
  Size <- Growing
  Segs = {}
  Tagged = TRUE
  Rollback = FALSE
  MayIgnoreRange = FALSE
  MayEndShort = FALSE
  NoFile = NoFile
  Torn = Torn
  MayHideSize = TRUE
  Attempts = 2
SPECIFICATION Spec
PROPERTIES
  AcceptedHasRemoteSize
