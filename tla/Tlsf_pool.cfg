SPECIFICATION Spec
CONSTANTS
  Size = 13
  BlockSize = 2
  L2 = 2
  Lens = {1, 3, 4, 6}
  Aligns = {1, 4}
INVARIANTS
  Tiled
  LinksRight
  ListsExact
  Coalesced
  SearchExact
PROPERTY ImplementsRegions
