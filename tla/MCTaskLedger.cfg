SPECIFICATION FairSpec
CONSTANTS
  None = None
  Sessions = {s1, s2}
  Branches = {main, feature}
  Base = main
  Trees = {clean, dirty}
  Clean = clean
  Recorders = {"verify"}
  MaxEvents = 2
  MaxKills = 1
INVARIANTS
  LedgerIsSound
  EvidenceInsideTask
PROPERTIES
  LockGuardsLedger
  EveryCommandEnds
  ImplementsTasks
CHECK_DEADLOCK FALSE
