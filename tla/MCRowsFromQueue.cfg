SPECIFICATION PullSpec
CONSTANTS
  q1 = q1
  q2 = q2
  m1 = m1
  Proc = {b1}
  Uri = {u1}
  DefaultUri = u1
  Queue = {q1, q2}
  Expr = {x1}
  BadExpr = {}
  NoExpr = NoExpr
  None = None
  Msg = {m1, m2}
  MsgQueue <- TwoQueues
  Matches <- FirstFiltered
  Window = 1
  Capacity = 1
  MaxMessages = 2
  MaxEvent = 2
  Threshold = 2
INVARIANT RowsFromQueue
