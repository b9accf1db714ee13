SPECIFICATION FairSpec
CONSTANTS
  Tasks = {"a", "b"}
  Audit = {"b"}
  MaxAttempts = 2
  Dispatchers = {"d1"}
  BatchSize = 2
  OwnerMay = {"delete", "rename", "status", "files"}
  MaxEdits = 1
  MaxCrashes = 1
INVARIANTS ActiveIsEarned SucceededKeepsProject ContentsOnce FailedIsClean
PROPERTIES ImplementsBoard ImportEnds
