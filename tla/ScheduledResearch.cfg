SPECIFICATION LiveSpec
CONSTANTS
    Runners = {u1, u2}
    Requests = {q1}
    Interval = 1
    RunsPerTick = 2
    MaxFailures = 3
    BackoffBase = 1
    BackoffMax = 2
    Saturation = 4
INVARIANTS TypeOK OneRun
PROPERTIES PauseHolds EnabledJobsRun
