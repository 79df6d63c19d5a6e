SPECIFICATION AllSpec
CONSTANTS
  msg1 = msg1
  msg2 = msg2
  Gated = {ann, ben}
  Source = {msg1, msg2}
  Handler = {view1, view2, boot}
  Recovery = boot
  MaxTier = 2
  Mentions <- Mentioned
  Extras = {TRUE}
  GateLimits <- GateTroubles
  NoHandler = NoHandler
  NoSource = NoSource
  p = p
  NoProof = NoProof
  a = a
  b = b
  A = A
  B = B
  NoRole = NoRole
  d = d
  e = e
  ann = ann
  ben = ben
INVARIANTS AllTypeOK IncrementsHonest
PROPERTIES AnnouncedRightly RolesConverge AnalyticsConverge
CHECK_DEADLOCK FALSE
