SPECIFICATION NoCopyFails
CONSTANTS
  q1 = q1
  q2 = q2
  m1 = m1
  Proc = {b1}
  Uri = {u1}
  DefaultUri = u1
  Queue = {q1}
  Expr = {}
  BadExpr = {}
  NoExpr = NoExpr
  None = None
  Msg = {m1, m2, m3, m4}
  MsgQueue <- OneQueue
  Matches <- FirstFiltered
  Window = 3
  Capacity = 4
  MaxMessages = 2
  MaxEvent = 3
  Threshold = 2
SYMMETRY Messages
INVARIANT PullNeverStalls
