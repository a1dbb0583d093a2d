CONSTANTS
  Urls = {a}
  MaxVersion = 2
  Size <- Three
  Segs = {}
  Tagged = TRUE
  Rollback = TRUE
  MayIgnoreRange = FALSE
  MayEndShort = FALSE
  NoFile = NoFile
  Torn = Torn
  MayHideSize = FALSE
  Attempts = 2
SPECIFICATION Spec
INVARIANTS
  TargetIntact
