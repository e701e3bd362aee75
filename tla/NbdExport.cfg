\* A partition of three sectors, windows of two, one slot,
\* two invalidations and one connection.
SPECIFICATION LiveSpec
CONSTANTS
    Sectors = 3
    WindowBlocks = 2
    SlotCount = 1
    ExtentLists <- MCExtentLists
    Generations = {1, 2}
    MaxEpoch = 2
    MaxConnections = 1
INVARIANTS
    DiscIsUsedInTurn
PROPERTIES
    FreshReplies
    CloseFinishes

