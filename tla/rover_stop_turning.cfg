SPECIFICATION Spec
CONSTANTS
  MaxInstr = 1
  Batches <- ProgramBatches
  HistorySize = 1
  Calls = {"drive"}
  Clears = {c1}
  Prompt = TRUE
  FaultyDriver = FALSE
PROPERTY RoverStopped
CHECK_DEADLOCK FALSE
