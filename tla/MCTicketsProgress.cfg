SPECIFICATION FairSpec
CONSTANTS
  User = {"a", "p"}
  Author = "a"
  NoUser = NoUser
  Message = {"m", "n"}
  NoMessage = NoMessage
  NoTicket = NoTicket
  Requests <- Direct
  MaxPings = 2
  Limits <- Slow
PROPERTIES TicketMovesOn
CHECK_DEADLOCK FALSE
