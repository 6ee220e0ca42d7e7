SPECIFICATION SysSpec
CONSTANTS
  q1 = q1
  Backend = {b1}
  Worker = {w1}
  Proc = {b1, w1}
  Seg = {s1}
  Uri = {u1}
  DefaultUri = u1
  Queue = {q1}
  Expr = {}
  BadExpr = {}
  NoExpr = NoExpr
  None = None
  Msg = {m1, m2}
  MsgQueue <- OneQueue
  Matches <- AllPass
  Window = 1
  Capacity = 2
  MaxMessages = 1
  MaxEvent = 1
  Threshold = 1
  Faults = {"crash", "startup", "callback", "commit", "confirm"}
INVARIANTS
  OnePlace
  WorkAccounted
PROPERTY
  ImplementsAtLeastOnce
