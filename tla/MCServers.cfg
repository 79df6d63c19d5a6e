SPECIFICATION AllSpec
CONSTANTS
  Pages = 3
  MaxTurn = 4
  one = one
  two = two
  ann = ann
  ben = ben
  NoProxy = NoProxy
  NoOpener = NoOpener
  Session = {one, two}
  CommandLimits <- Busy
  MaxText = 3
  PageLength = 2
  CorrelationWindow = 6
INVARIANTS AllTypeOK NewestPageStays HistoryExact CountsExact
PROPERTIES StaleRefused ErasedNotRestored SentAsAllowed
CHECK_DEADLOCK FALSE
