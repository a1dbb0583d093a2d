CONSTANTS
  Urls <- Bodies
  MaxVersion = 3
  Size <- Shrinking
  Tagged = TRUE
  Rollback = FALSE
  MayIgnoreRange = TRUE
  MayEndShort = FALSE
  Attempts = 3
  Packing <- Packings
SPECIFICATION FairSpec
INVARIANTS
  NeverSplices
  DoneMeansWhole
PROPERTIES
  StreamEnds
