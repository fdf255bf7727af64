SPECIFICATION Spec
CONSTANTS
  b1 = b1
  b2 = b2
  g1 = g1
  g2 = g2
  w1 = w1
  w2 = w2
  bad = bad
  Bytes <- OneByte
  Tags = {g1}
  TagOf <- OneTag
  Mappings <- OneMapping
  Reporters = {"traffic", "update"}
  Updaters = {"update"}
  Windows = {w1, w2, bad}
  ValidWindows = {w1, w2}
  Legacy <- NoLegacy
  None = None
INVARIANTS
  NoDoubleCount
