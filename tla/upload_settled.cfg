SPECIFICATION Spec
CONSTANTS
  Requests = {r1, r2}
  Nobody = Nobody
  MaxAttempts = 2
  Outlives = FALSE
PROPERTY SettledStays
CHECK_DEADLOCK FALSE
