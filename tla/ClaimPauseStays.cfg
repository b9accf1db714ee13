SPECIFICATION Spec
CONSTANTS
  d1 = d1
  d2 = d2
  Calls = {1}
  Guarded = {1}
  Drivers <- OneDriver
  MaxRecoveries = 1
  UserStops = FALSE
  Rivals = FALSE
  LongCalls = FALSE
  MaxMishaps = 1
PROPERTY PauseStays
CHECK_DEADLOCK FALSE
