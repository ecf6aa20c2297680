SPECIFICATION Spec
CONSTANTS
  RunConfigs <- MCRunConfigs
  MaxLog = 2
  MaxRetries = 1
INVARIANTS
  NoEarlyEnd
  FinalEndsRun
  ReportIsTrue
  LogsPartitioned
PROPERTIES
  StepsNeverRegress
  Terminates
  ImplementsRunReport
