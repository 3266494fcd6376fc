SPECIFICATION Spec
CONSTANTS
    Regs = {"a", "b", "h"}
    Hostile = "h"
    Values = {0, 1}
    Nothing = Nothing
    Chunk = 2
    Slots = 2
    Capacity = 20
    Settings <- MCSettings
    Prog0s <- MCProg0s
    Bodies <- MCBodies
    Tails <- MCTails
    Stores <- MCStores
INVARIANTS InProgramOrder DoneUnpaused
PROPERTIES SegmentStable SessionEnds
