SPECIFICATION Spec
CONSTANTS
    Proc = {p, q}
    Loader = {k, l}
    NoThread = none
    NoTable = notable
    NoEntry = invalid
    PX = {0, 1}
    KernelPages <- UpperHalf
    Images <- TwoPrograms
    StackPage <- TopPage
    KPages = {1, 2, 3, 4, 5, 6, 7, 8, 9, 10, 11}
    UPages = {101, 102, 103, 104, 105}
INVARIANTS
    SpacesSound
    NothingLeaks
SYMMETRY Loaders
