\* Two runs of one account, a Stop, a fault, and what must happen in the end.
CONSTANTS
    u1 = u1
    u2 = u2
    u3 = u3
    Users = {u1}
    MaxRuns = 2
    Owner <- OneAccount
    Capacity = 2
    PerSlot = 1
    WindowFloor = 1
    RunTimeout = 1
    StaleAfter = 2
    MaxRounds = 1
    MaxFaults = 1
    Stoppable = {1}
    WithImages = {}
SPECIFICATION FairSpec
CHECK_DEADLOCK FALSE
INVARIANTS OneRunPerUser
PROPERTIES KeepsPromise RunsComplete StoppedRunLetsGo
