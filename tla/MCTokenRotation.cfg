SPECIFICATION FairSpec
CONSTANTS
  MaxTokens = 3
  MaxTroubles = 3
  MaxReloads = 2
  None = None
INVARIANTS
  TokensAccounted
  ActiveIsPersisted
  EditsSurvive
PROPERTIES
  PendingSettles
CHECK_DEADLOCK FALSE
