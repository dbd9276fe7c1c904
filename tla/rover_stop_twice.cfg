SPECIFICATION Spec
CONSTANTS
  MaxInstr = 1
  Batches <- MotionBatches
  HistorySize = 1
  Calls = {"drive"}
  Clears = {c1, c2}
  Prompt = TRUE
  FaultyDriver = FALSE
PROPERTY RoverStopped
CHECK_DEADLOCK FALSE
