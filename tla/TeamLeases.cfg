SPECIFICATION Spec
CONSTANTS
  Tasks <- TwoTasks
  Deps <- TwoDeps
  Role <- TwoRole
  Turn <- TwoTurn
  MaxAttempts <- TwoMax
  MaxActive = 1
  Dispatchers = {"d1", "d2"}
  SandboxTasks = {"coding"}
  HasDeadline = TRUE
  PageTeam = TRUE
  Stoppable = {}
  MaxRetries = 1
  MaxStops = 0
  MaxCrashes = 1
  ParentMayStop = TRUE
INVARIANTS TypeOK LeaseIntegrity SoleHolder RecoveryClean RequestLedger AttemptBudget ReceiptPerGeneration ParentSilenced
PROPERTIES RequeueClean TerminalStays ReceiptStable
