SPECIFICATION Spec
CONSTANTS
  Keys <- ThreeKeys
  AutoKey = "auto_summary"
INVARIANTS AcceptedIsGraph CycleIsReal EveryResultReachesVerification LimitIsFair
CHECK_DEADLOCK FALSE
