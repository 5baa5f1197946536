SPECIFICATION Spec
CONSTANTS
    Kernel = {k}
    User = {a, b}
    NoAddr = noaddr
    MaxFrames = 3
INVARIANTS
    UserContext
    ReturnsHome
    OwnStack
SYMMETRY Processes
