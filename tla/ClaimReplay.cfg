SPECIFICATION Spec
CONSTANTS
  q1 = q1
  q2 = q2
  Messages = {1}
  Kinds = {"note"}
  Requests <- OneRequest
  MaxAttempts = 3
  MaxRuns = 2
  Mishaps = {}
  MaxMishaps = 0
INVARIANT NotAskedAgain
CHECK_DEADLOCK FALSE
