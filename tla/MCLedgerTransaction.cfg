SPECIFICATION FairSpec
CONSTANTS
  Writers = {w1, w2, w3}
  LockFree = {}
  Recovering = {w3}
  NoFile = NoFile
  History = History
  MaxLines = 2
  MaxCrashes = 2
  MaxOrphans = 0
CHECK_DEADLOCK FALSE
INVARIANTS
  LeftoversAreSettleable
PROPERTIES
  ImplementsLog
  SuccessDrains
  AllSessionsEnd
