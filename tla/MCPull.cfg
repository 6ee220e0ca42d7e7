SPECIFICATION PullFairSpec
CONSTANTS
  q1 = q1
  q2 = q2
  m1 = m1
  Proc = {b1}
  Uri = {u1}
  DefaultUri = u1
  Queue = {q1}
  Expr = {x1}
  BadExpr = {}
  NoExpr = NoExpr
  None = None
  Msg = {m1, m2, m3}
  MsgQueue <- OneQueue
  Matches <- FirstFiltered
  Window = 2
  Capacity = 2
  MaxMessages = 3
  MaxEvent = 2
  Threshold = 2
INVARIANTS
  PullTypeOK
  LeaseAccounted
  ConfirmOnlyTaken
  RowsAccounted
  WindowStaysOpen
  RowsPassFilter
PROPERTY ConsumeReturns
