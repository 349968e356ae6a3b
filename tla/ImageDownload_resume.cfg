\* Two rows, two queueings, a pause, two faults, one overlapping request.
CONSTANTS
    Size = 2
    Misfiled = TRUE
    MaxRows = 2
    MaxQueues = 2
    MaxPauses = 1
    MaxFaults = 2
    MaxCalls = 2
    MaxOverlaps = 1
SPECIFICATION FairSpec
CHECK_DEADLOCK FALSE
INVARIANTS TypeOK WholeUnlessCrossed
PROPERTIES GrowsOnly InterruptedResumes
