SPECIFICATION FairSpec
CONSTANTS
  p1 = p1
  p2 = p2
  Procs <- MCProcs
  NoOne = NoOne
  Gone = Gone
  MaxFaults = 3
INVARIANTS
  OneClient
  BootsClean
  RunsReady
  UnloadAfterStop
  CleanEnd
PROPERTY Recovers
