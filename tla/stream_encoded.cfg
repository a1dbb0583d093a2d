CONSTANTS
  Urls <- Bodies
  MaxVersion = 1
  Size <- Three
  Tagged = TRUE
  Rollback = FALSE
  MayIgnoreRange = FALSE
  MayEndShort = FALSE
  Attempts = 2
  Packing <- Packings
SPECIFICATION Spec
INVARIANTS
  ReconnectContinues
