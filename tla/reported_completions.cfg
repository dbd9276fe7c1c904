SPECIFICATION FairReportsSpec
CONSTANTS
  YardMissions = {1,2}
  WindowSize = 1
  Browsers = {b1}
  BrowserOf <- OneBrowser
  Pages = {p1}
  MaxInstructions = 2
  HistorySize = 1
  MaxAttempts = 2
  MaxFaults = 1
  Nobody = Nobody
INVARIANT AnsweredReportIsSpent
PROPERTY ReportsGetRecorded
CHECK_DEADLOCK FALSE
