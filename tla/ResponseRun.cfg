SPECIFICATION FairSpec
CONSTANTS
  d1 = d1
  d2 = d2
  Calls = {1}
  Guarded = {1}
  Drivers <- TwoDrivers
  MaxRecoveries = 1
  UserStops = TRUE
  Rivals = TRUE
  LongCalls = FALSE
  MaxMishaps = 1
INVARIANTS AtMostOnce OnlyApproved SuccessIsTrue CompletedAnswersAll
PROPERTY RunSettles
CHECK_DEADLOCK FALSE
