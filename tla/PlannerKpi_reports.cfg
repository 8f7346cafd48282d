SPECIFICATION Spec
CONSTANTS
  r1 = r1
  r2 = r2
  c1 = c1
  f1 = f1
  NoFilter = NoFilter
  None = None
  Yesterday = Yesterday
  Request = {r1, r2}
  Center = {c1}
  Filter = {NoFilter, f1}
  Normal <- AsWritten
  Day <- Weekend
  Clock <- MondayTuesday
  Mix <- TellingPairs
  ReportRetention = 1
  HistoryRetention = 4
  Faults <- AllFaults
CHECK_DEADLOCK FALSE
INVARIANTS
  TypeOK
  AnswerIsToTheQuestion
  ReportedDaysHaveSnapshots
  HistoryShowsReportedFigures
  JobLeavesNoGap
