SPECIFICATION Spec
CONSTANTS
  q1 = q1
  q2 = q2
  Messages = {1}
  Kinds = {"receipt", "brief"}
  Requests <- TwoRequests
  MaxAttempts = 2
  MaxRuns = 2
  Mishaps = {"restart", "error", "receipt", "retry", "seen", "page"}
  MaxMishaps = 1
SYMMETRY Symmetric
CONSTRAINT NotMixedUp
INVARIANTS HandledOnce ReceiptsAreTrue
PROPERTY ClosedStays
CHECK_DEADLOCK FALSE
