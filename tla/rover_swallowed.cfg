SPECIFICATION FairSpec
CONSTANTS
  MaxInstr = 1
  Batches <- ProgramBatches
  HistorySize = 1
  Calls = {"sleep"}
  Clears = {c1}
  Prompt = TRUE
  FaultyDriver = FALSE
PROPERTY ProgramsEnd
CHECK_DEADLOCK FALSE
