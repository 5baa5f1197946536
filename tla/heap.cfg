SPECIFICATION HeapSpec
CONSTANTS
    MAX_ORDER = 2
    Start = 3
    End = 9
    Requests = {1, 2, 3}
    PG_SIZE = 16
    ArenaSize = 2
    DescSize = 10
    MinBlock = 2
    Layouts <- SomeLayouts
    MaxBlocks = 2
INVARIANTS
    PagesPartitioned
    FullyMerged
    RefusesOnlyWhenFull
    BlocksSafe
    FromBlockHolds
PROPERTY UsesPalloc
