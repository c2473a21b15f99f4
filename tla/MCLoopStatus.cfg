SPECIFICATION LoopSpec
CONSTANTS
  None = None
  TaskNames = {t1, t2}
  Via = "subagent"
  MaxCode = 12
  MaxTurns = 1
  MaxPast = 5
  MaxHistory = 1
  MaxLoop = 24
INVARIANTS
  StatusIsSound
  DoneIsProven
PROPERTIES
  BookkeepingKeepsApproval
  AdviceLeadsToFinish
CHECK_DEADLOCK FALSE
