SPECIFICATION FairSpec
CONSTANTS
  Query = {q1, q2}
  None = None
  MaxEnv = 2
  Scenario <- MCScenario
INVARIANTS
  LockIsReleased
  CachedForEnvironment
PROPERTIES
  StaleIsRefreshed
  HangsOnlyOnServer
CHECK_DEADLOCK FALSE
