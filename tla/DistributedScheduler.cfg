SPECIFICATION SchedulerFairSpec
CONSTANTS
    Instances = {i1, i2}
    Runs = {r1, r2, r3}
    NoRun = NoRun
    Interval = 1
    MaxStarts = 3
    MaxFailures = 1
INVARIANT OverlapOnlyAfterExpiry
PROPERTY JobKeepsRunning
CHECK_DEADLOCK FALSE
