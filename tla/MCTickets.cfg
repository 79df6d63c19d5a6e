SPECIFICATION Spec
CONSTANTS
  User = {"a", "p", "q"}
  Author = "a"
  NoUser = NoUser
  Message = {"m", "n"}
  NoMessage = NoMessage
  NoTicket = NoTicket
  Requests <- Direct
  MaxPings = 2
  Limits <- Mixed
INVARIANTS TypeOK NothingForgotten SaidOnce
PROPERTIES PingsInTurn PingNotRepeated ErasedNotPinged KeepsReviewPromise
CHECK_DEADLOCK FALSE
