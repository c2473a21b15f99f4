SPECIFICATION FairSpec
CONSTANTS
  Pids = {p1, p2}
  NoInode = NoInode
  Legacy = Legacy
  MaxTokens = 2
  MaxCrashes = 1
INVARIANTS
  LockIsSound
  ExclusiveUnlessMisfired
PROPERTIES
  AcquisitionEnds
CHECK_DEADLOCK FALSE
