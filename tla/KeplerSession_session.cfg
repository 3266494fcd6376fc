SPECIFICATION Spec
CONSTANTS
    Windows = {1, 3}
    Chunks = 2
    PollLimit = 3
    Rings = 4
    MaxLate = 2
INVARIANT OneClient
PROPERTIES FaultNotMasked OnlyOwnResults RunEnds
