SPECIFICATION Spec
CONSTANTS
    Windows = {1, 2}
    Chunks = 2
    PollLimit = 2
    Rings = 2
    MaxLate = 2
PROPERTIES CompletionIsReal
