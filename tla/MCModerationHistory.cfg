SPECIFICATION Spec
CONSTANTS
  CorrelationWindow = 5
  HistoryCases <- OneSoftban
INVARIANT SoftbanNotCharted
CHECK_DEADLOCK FALSE
