\* One run with a Stop, a fault, two stream frames and one client.
CONSTANTS
    u1 = u1
    Users = {u1}
    MaxRuns = 1
    Owner <- OneRun
    Capacity = 1
    PerSlot = 8
    WindowFloor = 16
    RunTimeout = 0
    StaleAfter = 1
    MaxRounds = 1
    MaxFaults = 1
    Stoppable = {1}
    WithImages = {1}
    MaxStream = 4
SPECIFICATION EventSpec
CHECK_DEADLOCK FALSE
INVARIANTS EventTypeOK ClashIsCollision CounterIsLast NothingSkipped ClosesInformed
PROPERTIES AnnouncedFirst
