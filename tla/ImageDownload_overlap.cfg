\* A pause and a resume while the first transfer is still running.
CONSTANTS
    Size = 3
    Misfiled = FALSE
    MaxRows = 1
    MaxQueues = 1
    MaxPauses = 1
    MaxFaults = 0
    MaxCalls = 2
    MaxOverlaps = 1
SPECIFICATION Spec
CHECK_DEADLOCK FALSE
INVARIANTS DoneIsWhole
