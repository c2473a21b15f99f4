SPECIFICATION AllSpec
CONSTANTS
  Names = {build, test}
  MaxHead = 2
  MaxRuns = 3
  MaxPolls = 3
  Pools <- Pairs
  Bodies <- Texts
  Decisions <- Recorded
  MaxMoves = 1
  Commands = {"c1", "c2"}
  Crews <- Teams
  PolicyDocuments <- Documents
  SettingsDocuments <- Settings
  Skills = {old}
  MaxEdits = 1
  MaxBuilds = 2
  MaxActs = 2
INVARIANTS
  VerdictIsEarned
  EvidenceHolds
  UserPartsSurvive
  CommandsDeliver
  BundleIsSound
  BuildsRecover
PROPERTIES
  WatchEnded
CHECK_DEADLOCK FALSE
