CONSTANTS
  Tags = {"a"}
  Users = {"u"}
  Inbounds = {"in1"}
  Mappings <- Withdrawn
  Conns = {c1, c2, c3}
  Bytes = {x, y}
  None = None
SYMMETRY Symmetry
SPECIFICATION Spec
INVARIANTS ValueIsUnits InvisibleIsLate CountedOnce
CHECK_DEADLOCK FALSE
