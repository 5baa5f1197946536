SPECIFICATION Spec
CONSTANTS
    Thread = {init, idle, a, b}
    Initial = init
    Idle = idle
    NoThread = none
    NoArg = noarg
    MaxPrio = 2
    DefaultPrio = 1
    SpawnPrios <- Spawn12
    SetPrios = {}
    SleepTicks = {}
    MaxTicks = 0
    MaxNest = 1
    Queue <- PSQueue
    EmptyQueue <- PSEmpty
    Members <- PSMembers
    Register <- PSRegister
    Schedule <- PSSchedule
    Sema = {s}
    InitValue <- NoUnits
    MaxValue = 2
INVARIANTS
    NoLostWakeup
    WaitersBlocked
    InterruptsRestored
SYMMETRY Spawned
