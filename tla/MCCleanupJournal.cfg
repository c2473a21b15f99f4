SPECIFICATION Spec
CONSTANTS
  Outputs = {skill, workflow}
  Instructions = {agents}
  Released = {workflow}
  None = None
  MaxRuns = 2
  MaxFaults = 1
  MaxCrashes = 2
  MaxEdits = 1
INVARIANTS
  JournalIsSound
PROPERTIES
  NothingIsLost
  RetirementSettles
