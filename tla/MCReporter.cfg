SPECIFICATION FairSpec
CONSTANTS
  b1 = b1
  b2 = b2
  g1 = g1
  g2 = g2
  w1 = w1
  w2 = w2
  bad = bad
  Bytes <- TwoBytes
  Tags = {g1, g2}
  TagOf <- TwoTags
  Mappings <- MCMappings
  Reporters = {"update"}
  Updaters = {"update"}
  Windows = {w1, bad}
  ValidWindows = {w1}
  Legacy <- MCLegacy
  None = None
INVARIANTS
  NoDoubleCount
  Conserved
  WindowContract
  FlushLeavesNothing
PROPERTIES
  LedgerSpec
  PendingSettles
  CountedIsReported
