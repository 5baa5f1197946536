SPECIFICATION FairSpec
CONSTANTS
    Thread = {0, 1, 2}
    Client = {0, 1}
    NoThread = none
    NoLevel = nolevel
    None = nothing
    Sector = {0}
    Value = {0, 1}
    Asks <- ReaderWriters
    QUEUE_SIZE = 2
    IdxMod = 2
INVARIANTS
    QuietWhenFree
    DriverAssertions
    LazyOnce
    MaskedUntilCompletion
PROPERTIES
    AtomicSectors
    RequestsReturn
