SPECIFICATION FairThreadSpec
CONSTANTS
    Thread = {init, idle, a, b}
    Initial = init
    Idle = idle
    NoThread = none
    NoArg = noarg
    MaxPrio = 1
    DefaultPrio = 1
    SpawnPrios <- Spawn1
    SetPrios = {}
    SleepTicks = {1, 2}
    MaxTicks = 3
    MaxNest = 1
    Queue <- FSQueue
    EmptyQueue <- FSEmpty
    Members <- FSMembers
    Register <- FSRegister
    Schedule <- FSSchedule
PROPERTIES
    ReadyRuns
    SleeperRuns
