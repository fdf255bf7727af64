CONSTANTS
  None = None
  MaxRevision = 2
  MaxUsers = 2
  Settings <- MCRaceSettings
SPECIFICATION FairSpec
PROPERTY OkIsApplied
