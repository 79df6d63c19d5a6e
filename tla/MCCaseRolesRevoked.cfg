SPECIFICATION Spec
CONSTANTS
  NoCase = NoCase
  Case = {c1}
  Worker = {w1}
  Resolver = {r1}
  Teams <- Both
  MaxMessages = 2
  MaxClaims = 2
  MaxFaults = 1
INVARIANT SentActionDecides
SYMMETRY Interchangeable
CHECK_DEADLOCK FALSE
