SPECIFICATION FairSpec
CONSTANTS
  Group = {"g1", "g2"}
  Conn = {c1, c2}
  None = None
  Interval = 2
  IdleTimeout = 2
  Timeout = 9
  Tolerance = 1
  Scenario <- MCScenario
INVARIANTS
  TypeOK
  SetChangeInterrupts
  FailoverIsComplete
PROPERTIES
  TopNIsStable
  NothingBetterLeftOut
  PoolFollowsHealth
CHECK_DEADLOCK FALSE
