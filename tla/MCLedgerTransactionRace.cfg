SPECIFICATION Spec
CONSTANTS
  Writers = {w1, w2, w3}
  LockFree = {w3}
  Recovering = {}
  NoFile = NoFile
  History = History
  MaxLines = 3
  MaxCrashes = 1
  MaxOrphans = 1
CHECK_DEADLOCK FALSE
INVARIANTS
  FailedNotRecorded
