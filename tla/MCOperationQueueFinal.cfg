SPECIFICATION FairSpec
CONSTANTS
  k = k
  b = b
  p = p
  g = g
  u = u
  c = c
  NoOp = NoOp
  Loop = Loop
  Task = {t1}
  Op <- FinalRows
  Kind <- FinalKinds
  BatchLimit = 1
  PurgeLimit = 1
  MaxFaults = 2
INVARIANT CleanupAfterProjection
PROPERTY EveryRowSettles
CHECK_DEADLOCK FALSE
