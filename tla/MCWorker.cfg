SPECIFICATION SubSpec
CONSTANTS
  q1 = q1
  Backend = {b1, b2}
  Worker = {w1}
  Proc = {b1, b2, w1}
  Seg = {s1, s2}
  Uri = {u1}
  DefaultUri = u1
  Queue = {q1}
  Expr = {}
  BadExpr = {}
  NoExpr = NoExpr
  None = None
  Msg = {m1}
  MsgQueue <- OneQueue
  Matches <- AllPass
  Window = 1
  Capacity = 2
  Faults = {"crash", "startup", "callback", "commit", "confirm"}
INVARIANTS
  SubTypeOK
  EffectBeforeConfirm
  OncePerProcess
  SegmentMapped
SYMMETRY Interchangeable
