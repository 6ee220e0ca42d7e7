SPECIFICATION MCSpec
CONSTANTS
  Reader = {c1, c2}
  REGIONS = 2
  SYMBOLS = 2
  GroupCounts = {0, 4}
  PatternCounts = {0, 1, 2, 3, 4, 5}
  Content = {a, b}
  Forms <- AnyTable
  Limit = 2
  MaxRuns = 2
  MaxAgain = 1
INVARIANTS
  MeasureTypeOK
  ReportsExact
  StopNotMissed
  RunVerdictSound
  RunsApart
PROPERTY
  ScriptsEnd
CHECK_DEADLOCK FALSE
