SPECIFICATION FairSpec
CONSTANTS
  CmdCount = 5
  StatCount = 4
  StatPage <- OwnPages
  PageLen = 4
  MaxElems = 2
  Payload <- MCPayload
  ReplyLen <- MCReplyLen
  EventLen <- MCEventLen
  MaxCalls = 4
  MaxEvents = 3
  StaleHeaders <- NoHeader
  IsRemote = TRUE
CHECK_DEADLOCK FALSE
INVARIANTS
  RequestsReadable
  ReadsInOrder
  SequencerOnce
PROPERTIES
  ReplyIsOurs
  ImplementsSerialJobs
  CallsEnd
