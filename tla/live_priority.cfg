SPECIFICATION FairThreadSpec
CONSTANTS
    Thread = {init, idle, a, b}
    Initial = init
    Idle = idle
    NoThread = none
    NoArg = noarg
    MaxPrio = 1
    DefaultPrio = 1
    SpawnPrios <- SpawnAny
    SetPrios = {}
    SleepTicks = {}
    MaxTicks = 0
    MaxNest = 1
    Queue <- PSQueue
    EmptyQueue <- PSEmpty
    Members <- PSMembers
    Register <- PSRegister
    Schedule <- PSSchedule
PROPERTIES
    TopReadyRuns
