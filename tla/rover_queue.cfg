SPECIFICATION FairSpec
CONSTANTS
  MaxInstr = 2
  Batches <- CoreBatches
  HistorySize = 1
  Calls = {"drive", "halt", "sleep", "photo", "blocked"}
  Clears = {c1, c2}
  Prompt = TRUE
  FaultyDriver = FALSE
INVARIANT NothingLost
INVARIANT StopHolds
INVARIANT OnlyCompletedProgramsDriveOn
PROPERTY NothingMovesAfterStop
PROPERTY EverythingSettles
CHECK_DEADLOCK FALSE
