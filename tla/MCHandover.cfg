SPECIFICATION AllSpec
CONSTANTS
  Paths = {code, extra, locked}
  Baseline = {code, locked}
  Frozen = {locked}
  Events = {red}
  None = None
  MaxUser = 1
  MaxWorker = 2
  MaxFaults = 1
  MaxCrashes = 1
  Sessions = {s1, s2}
  Artifacts = {brief, message}
  MaxFailures = 2
  MaxTouches = 1
  Setups <- Hosts
  MaxPrompts = 2
  MaxFaulty = 1
  MaxChanges = 1
INVARIANTS
  CollectionIsSound
  GateIsHonest
PROPERTIES
  CheckoutIsSpared
  CollectCompletes
  
  
  TurnsEnd
CHECK_DEADLOCK FALSE
