SPECIFICATION Spec
CONSTANTS
  Tasks <- DeltaTasks
  Deps <- DeltaDeps
  Role <- DeltaRole
  Turn <- DeltaTurn
  MaxAttempts <- DeltaMax
  MaxActive = 2
  Dispatchers = {"d1"}
  SandboxTasks = {"docs"}
  HasDeadline = FALSE
  PageTeam = FALSE
  Stoppable = {"tests", "docs"}
  MaxRetries = 1
  MaxStops = 1
  MaxCrashes = 0
  ParentMayStop = FALSE
INVARIANTS FreshInputs TerminalSettled NothingStalls CompletedDelivers
PROPERTIES StoppedStays ImplementsBoard
