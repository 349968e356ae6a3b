\* Two schedules that can be stuck at once, one monitor and the heartbeat; monitors queue runs.
CONSTANTS
    Schedules = {"s", "z"}
    Monitors = {"m"}
    Crons = {"rare"}
    Fires <- FiresAt
    Horizon = 3
    Modes = {"contains"}
    Targets = {"t"}
    Background = {"m"}
    HeartbeatEvery = 2
    CheckEvery = 2
    DedupeWindow = 1
    Hour = 1
    MaxPerHour = 1
    Batch = 1
    MaxTime = 2
    MaxRuns = 2
    MaxUpsets = 2
SPECIFICATION Spec
INVARIANTS TypeOK OncePerDue AlarmsOnce BudgetKept StrandedByFailure NoDoubleNudge
PROPERTIES DueIsServed QueueDrains StuckFiresAgain
