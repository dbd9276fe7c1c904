SPECIFICATION FairReportsSpec
CONSTANTS
  YardMissions = {1}
  WindowSize = 1
  Browsers = {b1}
  BrowserOf <- OneBrowser
  Pages = {p1}
  MaxInstructions = 2
  HistorySize = 2
  MaxAttempts = 2
  MaxFaults = 0
  Nobody = Nobody
INVARIANT NotReplayed
CHECK_DEADLOCK FALSE
