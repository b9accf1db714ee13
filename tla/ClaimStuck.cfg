SPECIFICATION Spec
CONSTANTS
  Tasks <- TwinTasks
  Deps <- TwinDeps
  Role <- TwinRole
  Turn <- TwinTurn
  MaxAttempts <- TwinMax
  MaxActive = 2
  Dispatchers = {"d1"}
  SandboxTasks = {}
  HasDeadline = FALSE
  PageTeam = FALSE
  Stoppable = {"api"}
  MaxRetries = 0
  MaxStops = 1
  MaxCrashes = 0
  ParentMayStop = FALSE
INVARIANT EndedTasksEndTeam
