SPECIFICATION Spec
CHECK_DEADLOCK FALSE
CONSTANTS
  Tasks = {"a"}
  Audit = {}
  MaxAttempts = 1
  Dispatchers = {"d1"}
  BatchSize = 2
  OwnerMay = {}
  MaxEdits = 0
  MaxCrashes = 0
INVARIANT CancelIsClean
