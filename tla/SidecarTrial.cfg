SPECIFICATION TrialSpec
CONSTANTS
  N = 2
  MsgCount = 2
  Matching = {1, 2}
  MaxAgain = 1
  MaxUnheard = 1
  MaxLeft = 1
INVARIANTS
  TrialTypeOK
  VerdictSound
  RuleBeforeRows
  SweepSound
PROPERTY
  SweepEnds
CHECK_DEADLOCK FALSE
