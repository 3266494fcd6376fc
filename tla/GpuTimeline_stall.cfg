SPECIFICATION FairSpec
CONSTANTS
  MaxJobs = 5
  RingSize = 8
  CmdqSize = 40
  Align = 2
  JobLen <- MCJobLen
  KargSlots = 4
  SigInit <- ZeroPage
  IsRemote = FALSE
PROPERTIES
  ImplementsSerialJobs
  EveryJobFinishes
