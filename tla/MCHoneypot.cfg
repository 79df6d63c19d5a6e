SPECIFICATION Spec
CONSTANTS
  Kinds = {r, a}
  Members = {u, w}
  Payloads = {x}
  Missing = Missing
  NoCopy = NoCopy
  Message <- Messages
  Size <- Sizes
  MaxFiles = 3
  EvidenceLimits <- Accidents
  Slots = 2
  MaxSummary = 2
  MaxPage = 2
  PostLimits <- Losses
  MaxIncident = 2
  MaxSession = 2
  MaxRetry = 1
  Policies <- Explored
  WatchLimits <- Visited
  MaxOffer = 1
  Mail <- Mails
  DrainBatch = 1
  BacklogLimits <- Fortunes
  NoPanel = NoPanel
  NoRole = NoRole
  NoChannel = NoChannel
  Panel = {p, q}
  Role = {R, S}
  Channel = {c, d}
  Here = c
  ManualLimits <- Meddlings
INVARIANTS TypeOK MessagesSettle ShownAsRecorded ThrownOutRightly PunishedOnce RolesStay
PROPERTIES MoveInvisible WorkEnds
CHECK_DEADLOCK FALSE
