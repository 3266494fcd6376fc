SPECIFICATION Spec
CONSTANTS
  Cnt <- MCCnt
  VaPool = 16
  PaPool = 9
  Frames <- MCFrames
  Root = root
  Ranges <- MCRanges
  Sizes = {2, 4}
  Reserved = 4
  f1 = f1
  f2 = f2
  f3 = f3
  f4 = f4
SYMMETRY Symmetry
CHECK_DEADLOCK FALSE
INVARIANTS
  NoOrphan
