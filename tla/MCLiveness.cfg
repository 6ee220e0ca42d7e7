SPECIFICATION SubFairSpec
CONSTANTS
  q1 = q1
  Backend = {b1}
  Worker = {w1}
  Proc = {b1, w1}
  Seg = {s1, s2}
  Uri = {u1}
  DefaultUri = u1
  Queue = {q1}
  Expr = {x1, xbad}
  BadExpr = {xbad}
  NoExpr = NoExpr
  None = None
  Msg = {m1}
  MsgQueue <- OneQueue
  Matches <- AllPass
  Window = 1
  Capacity = 1
  Faults = {"crash", "startup", "callback", "commit", "confirm"}
INVARIANT
  ReadyMeansOpen
PROPERTIES
  SubscribeReturns
  UnsubscribeStops
