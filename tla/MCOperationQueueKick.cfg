SPECIFICATION Spec
CONSTANTS
  k = k
  b = b
  p = p
  g = g
  u = u
  c = c
  NoOp = NoOp
  Loop = Loop
  Task = {t1, t2}
  Op <- KickRows
  Kind <- KickKinds
  BatchLimit = 2
  PurgeLimit = 1
  MaxFaults = 3
INVARIANTS TypeOK KickAtMostOnce OneLeaseHolder
PROPERTY KeepsPromise
SYMMETRY Tasks
