\* Three accounts, two slots, a crash that orphans rows.
CONSTANTS
    u1 = u1
    u2 = u2
    u3 = u3
    Users = {u1, u2, u3}
    MaxRuns = 3
    Owner <- ThreeAccounts
    Capacity = 2
    PerSlot = 1
    WindowFloor = 1
    RunTimeout = 0
    StaleAfter = 1
    MaxRounds = 1
    MaxFaults = 1
    Stoppable = {}
    WithImages = {}
SPECIFICATION Spec
CHECK_DEADLOCK FALSE
INVARIANTS CapacityRespected
