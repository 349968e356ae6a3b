\* A tool call leaves after the stop message has been saved.
CONSTANTS
    u1 = u1
    u2 = u2
    u3 = u3
    Users = {u1}
    MaxRuns = 1
    Owner <- OneRun
    Capacity = 1
    PerSlot = 8
    WindowFloor = 16
    RunTimeout = 3
    StaleAfter = 4
    MaxRounds = 1
    MaxFaults = 0
    Stoppable = {1}
    WithImages = {}
SPECIFICATION Spec
CHECK_DEADLOCK FALSE
PROPERTIES NoCallAfterStopMessage
