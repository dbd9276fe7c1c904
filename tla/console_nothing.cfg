SPECIFICATION Spec
CONSTANTS
  N = 2
  QueueLimit = 1
  DoneLimit = 1
  MaxPages = 1
  MaxFailures = 0
  None = None
INVARIANT NothingMeansNothing
