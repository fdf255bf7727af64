CONSTANTS
  None = None
  MaxRevision = 3
  MaxUsers = 2
  Settings <- MCSettings
SPECIFICATION FairSpec
INVARIANTS
  TypeOK
  NotModifiedIsRunning
  RevisionIsRunning
PROPERTY
  NodeConverges
