SPECIFICATION BenchSpec
CONSTANTS
  w1 = w1
  w2 = w2
  w3 = w3
  w4 = w4
  v1 = v1
  v2 = v2
  Producer = {w1, w3}
  Consumer = {w2, w4}
  Layouts <- AllScripts
  ConsumeBatch = 1
  MaxAttempts = 2
  MaxBatches = 1
  MaxWrong = 1
  Nobody = Nobody
INVARIANTS
  BenchTypeOK
  TotalsAgree
  CurveHonest
PROPERTY
  RunReports
CHECK_DEADLOCK FALSE
