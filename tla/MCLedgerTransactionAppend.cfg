SPECIFICATION Spec
CONSTANTS
  Writers = {w1, w2, w3}
  LockFree = {w3}
  Recovering = {}
  NoFile = NoFile
  History = History
  MaxLines = 3
  MaxCrashes = 0
  MaxOrphans = 0
CHECK_DEADLOCK FALSE
INVARIANTS
  RecordedStays
