SPECIFICATION LockSpec
CONSTANTS
    init = init
    idle = idle
    a = a
    b = b
    Thread = {init, idle, a, b}
    Initial = init
    Idle = idle
    NoThread = none
    NoArg = noarg
    MaxPrio = 3
    DefaultPrio = 1
    SpawnPrios <- Spawn23
    SetPrios = {}
    SleepTicks = {}
    MaxTicks = 0
    MaxNest = 1
    Queue = {}
    EmptyQueue <- PSEmpty
    Members <- PSMembers
    Register <- PSRegister
    Schedule <- PSSchedule
    Sema = {1}
    InitValue <- Unlocked
    MaxValue = 1
    Uses <- AllUse
    Setters = {}
    MaxAcquires <- TwiceInit
INVARIANT
    PriorityRestored
SYMMETRY Spawned
