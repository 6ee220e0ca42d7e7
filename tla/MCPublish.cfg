SPECIFICATION MCSpec
CONSTANTS
  Proc = {b1}
  Uri = {u1, u2}
  DefaultUri = u1
  Queue = {q1, q2}
  Expr = {x1, x2, xbad}
  BadExpr = {xbad}
  NoExpr = NoExpr
  None = None
  Name = {n1, n2, n3}
  Value = {v}
  NULL = NULL
  AllColumns = AllColumns
INVARIANTS
  SessionTypeOK
  CacheMatchesBroker
  FilterInForce
  NoHandleWithoutSession
  PayloadIsRow
  PropsExact
  RejectedBeforeSend
  RowTypeOK
CHECK_DEADLOCK FALSE
