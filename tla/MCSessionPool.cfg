SPECIFICATION FairSpec
CONSTANTS
  Caller = {c1, c2}
  None = None
  MaxSessions = 2
  MaxStreams = 2
PROPERTY OpenStreamReturns
CHECK_DEADLOCK FALSE
