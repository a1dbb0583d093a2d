CONSTANTS
  Urls = {a}
  MaxVersion = 1
  Size <- Three
  Segs = {}
  Tagged = TRUE
  Rollback = FALSE
  MayIgnoreRange = FALSE
  MayEndShort = FALSE
  NoFile = NoFile
  Torn = Torn
  MayHideSize = FALSE
  Attempts = 2
SPECIFICATION Spec
INVARIANTS
  ResumeSatisfiable
