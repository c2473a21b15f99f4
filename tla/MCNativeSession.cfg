SPECIFICATION Spec
CONSTANTS
  None = None
  Platforms = {"linux", "win32"}
  MaxRequests = 2
  MaxFaults = 1
  MaxRaces = 1
INVARIANTS
  AnswersAreTrue
PROPERTIES
  NothingUnasked
  EveryRequestSettles
CHECK_DEADLOCK FALSE
