CONSTANTS
  Templates <- Paths
  Endpoints <- Methods
  Params <- PartParameters
  MaxParams = 2
  Configs <- Configurations
  Jars <- CookieJars
  BagKeys <- KeysOfBags
  Names <- HeaderNames
  Lower <- LowerCase
  Missing = Missing
  None = None
CHECK_DEADLOCK FALSE
SPECIFICATION Spec
INVARIANTS
  PartsAllSent
