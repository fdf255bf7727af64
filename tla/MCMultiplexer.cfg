SPECIFICATION FairSpec
CONSTANTS
  Query = {q1, q2}
  None = None
  MaxConns = 4
  MaxResets = 1
  DemoteLimit = 1
  Scenario <- MCScenario
INVARIANTS
  CalledOnce
  SharedIsUsable
  NoLeak
  PendingIsRead
  ProbingIsProbed
PROPERTIES
  CtxErrorSource
  HangsOnlyOnServer
CHECK_DEADLOCK FALSE
