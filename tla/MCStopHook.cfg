SPECIFICATION FairSpec
CONSTANTS
  Setups <- Overlap
  MaxPrompts = 1
  MaxFaults = 1
  MaxChanges = 0
PROPERTIES
  CorrectionsEnd
CHECK_DEADLOCK FALSE
