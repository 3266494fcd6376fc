SPECIFICATION Spec
CONSTANTS
  CmdCount = 5
  StatCount = 4
  StatPage <- OwnPages
  PageLen = 4
  MaxElems = 2
  Payload <- MCPayload
  ReplyLen <- MCReplyLen
  EventLen <- MCLongLen
  MaxCalls = 2
  MaxEvents = 2
  StaleHeaders <- NoHeader
  IsRemote = TRUE
CHECK_DEADLOCK FALSE
INVARIANT ReadsInOrder
