SPECIFICATION Spec
CONSTANTS
  MaxJobs = 6
  RingSize = 2
  CmdqSize = 5
  Align = 2
  JobLen <- MCJobLen
  KargSlots = 2
  SigInit <- ZeroPage
  IsRemote = TRUE
CHECK_DEADLOCK FALSE
INVARIANTS
  TypeOK
  PendingStreamsIntact
  KernargsIntact
  ResultFresh
