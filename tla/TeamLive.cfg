SPECIFICATION FairSpec
CONSTANTS
  Tasks <- TwoTasks
  Deps <- TwoDeps
  Role <- TwoRole
  Turn <- TwoTurn
  MaxAttempts <- TwoMax
  MaxActive = 1
  Dispatchers = {"d1"}
  SandboxTasks = {"coding"}
  HasDeadline = TRUE
  PageTeam = FALSE
  Stoppable = {}
  MaxRetries = 1
  MaxStops = 0
  MaxCrashes = 1
  ParentMayStop = FALSE
PROPERTIES TeamEnds SandboxesReclaimed
