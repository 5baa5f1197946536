SPECIFICATION ThreadSpec
CONSTANTS
    Thread = {init, idle, a}
    Initial = init
    Idle = idle
    NoThread = none
    NoArg = noarg
    MaxPrio = 2
    DefaultPrio = 1
    SpawnPrios <- SpawnAny
    SetPrios = {0, 2}
    SleepTicks = {1, 2}
    MaxTicks = 3
    MaxNest = 2
    Queue <- PSQueue
    EmptyQueue <- PSEmpty
    Members <- PSMembers
    Register <- PSRegister
    Schedule <- PSSchedule
INVARIANTS
    ReadyExact
    ThreadInv
    ManagerSafe
    HighestPriorityRuns
    AllCoversLive
    NoOversleep
    SleepersStayBlocked
