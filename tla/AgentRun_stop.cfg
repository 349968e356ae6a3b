\* One run through every step of it: images, two rounds, a Stop, three faults.
CONSTANTS
    u1 = u1
    u2 = u2
    u3 = u3
    Users = {u1}
    MaxRuns = 1
    Owner <- OneRun
    Capacity = 1
    PerSlot = 8
    WindowFloor = 16
    RunTimeout = 3
    StaleAfter = 4
    MaxRounds = 2
    MaxFaults = 3
    Stoppable = {1}
    WithImages = {1}
SPECIFICATION Spec
CHECK_DEADLOCK FALSE
INVARIANTS TypeOK LiveRunKeepsItsRow SecretsDropped ReportedAfterSaved SavedTurnNotRepeated OneLateCallAtMost
PROPERTIES TerminalIsFinal KeepsPromise
