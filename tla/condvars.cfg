SPECIFICATION CondSpec
CONSTANTS
    Thread = {init, idle, a, b}
    Initial = init
    Idle = idle
    NoThread = none
    NoArg = noarg
    MaxPrio = 2
    DefaultPrio = 1
    SpawnPrios <- Spawn12
    SetPrios = {2}
    SleepTicks = {}
    MaxTicks = 0
    MaxNest = 1
    Queue = {}
    EmptyQueue <- PSEmpty
    Members <- PSMembers
    Register <- PSRegister
    Schedule <- PSSchedule
    Sema <- Semas
    Lock = lock
    InitValue <- Unlocked
    MaxValue = 1
    MaxWaits <- OnceEach
INVARIANTS
    NotifyExactlyOnce
    CondvarSafe
SYMMETRY Spawned
