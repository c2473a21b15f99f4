SPECIFICATION Spec
CONSTANTS
  None = None
  Sessions = {s1, s2}
  Branches = {main, feature}
  TaskIds = {t1, t2}
  Trees = {one, two}
  MaxRequests = 1
  MaxRounds = 1
  MaxFaults = 1
SYMMETRY Symmetry
INVARIANTS
  BriefFollowsRequest
  OneOutcome
PROPERTIES
  ApprovalOfWhatWasDispatched
CHECK_DEADLOCK FALSE
