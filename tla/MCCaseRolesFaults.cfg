SPECIFICATION Spec
CONSTANTS
  NoCase = NoCase
  Case = {c1}
  Worker = {w1, w2}
  Resolver = {r1}
  Teams <- Pairs
  MaxMessages = 2
  MaxClaims = 2
  MaxFaults = 1
PROPERTY ContainedWithFaults
SYMMETRY Interchangeable
CHECK_DEADLOCK FALSE
