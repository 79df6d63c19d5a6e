SPECIFICATION Spec
CONSTANTS
  k = k
  b = b
  p = p
  g = g
  u = u
  c = c
  NoOp = NoOp
  Loop = Loop
  Task = {t1}
  Op <- BanRows
  Kind <- BanKinds
  BatchLimit = 2
  PurgeLimit = 1
  MaxFaults = 2
INVARIANT ResultTruthful
CHECK_DEADLOCK FALSE
