SPECIFICATION Spec
CONSTANTS
  NoCase = NoCase
  Case = {c1, c2}
  Worker = {w1, w2}
  Resolver = {r1}
  Teams <- Pairs
  MaxMessages = 2
  MaxClaims = 2
  MaxFaults = 0
INVARIANTS TypeOK SentActionDecides RoleAccounted
PROPERTY ContainmentHonest
SYMMETRY Interchangeable
CHECK_DEADLOCK FALSE
