SPECIFICATION FairSpec
CONSTANTS
  Versions = {v0, v1, v2, v3}
  First = v0
  Bad = {v2}
  Dying = {v3}
  None = None
INVARIANTS Recoverable
PROPERTIES BlacklistHonoured RollsBackToProven FailedStartRollsBack UpdatesSettle
