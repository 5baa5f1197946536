SPECIFICATION Spec
CONSTANTS
    Proc = {p, q}
    Name = {x, y}
    Nobody = nobody
    Data = data
    DiskSize = 10
    SECTOR_SIZE = 2
    MapLen = 1
    RootLen = 1
    DirSize = 2
    Lens = {1, 2, 3, 11}
    MaxInodes = 3
    MaxCalls = 4
    MaxBoots = 2
INVARIANTS
    SectorsDisjoint
    DirSound
    MemoryMatchesDisk
    FilesAlive
PROPERTY SectorsAccounted
SYMMETRY Symmetry
