SPECIFICATION FairSpec
CONSTANTS
  MaxInstr = 2
  Batches <- FaultBatches
  HistorySize = 2
  Calls = {"drive", "halt", "blocked"}
  Clears = {c1, c2}
  Prompt = FALSE
  FaultyDriver = TRUE
INVARIANT InOrder
PROPERTY KeepsRoverPromise
PROPERTY ProcessorSurvives
CHECK_DEADLOCK FALSE
