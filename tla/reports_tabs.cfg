SPECIFICATION ReportsSpec
CONSTANTS
  YardMissions = {1}
  WindowSize = 1
  Browsers = {b1}
  BrowserOf <- OneBrowser
  Pages = {p1, p2}
  MaxInstructions = 2
  HistorySize = 2
  MaxAttempts = 2
  MaxFaults = 2
  Nobody = Nobody
INVARIANTS AnsweredReportIsSpent ReportsTypeOK OnlyACleanFinishCompletes
CHECK_DEADLOCK FALSE
