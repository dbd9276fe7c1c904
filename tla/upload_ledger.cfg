SPECIFICATION LedgerSpec
CONSTANTS
  Requests = {r1, r2, r3}
  Nobody = Nobody
  MaxAttempts = 3
  Outlives = TRUE
INVARIANT VideosAccountedFor
PROPERTY ImplementsPromise
CHECK_DEADLOCK FALSE
