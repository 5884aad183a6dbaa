\* Two coordinators submit the same run ID; fairness; the keys expire at the end.
SPECIFICATION FairSpec
CONSTANTS
    w1 = w1
    t1 = t1
    k1 = k1
    k2 = k2
    Coordinators = {k1, k2}
    Workers = {w1}
    Threads = {t1}
    Cases = {1}
    Position <- MCPosition
    Suites <- MCSuites
    Statuses <- MCTwoStatuses
    Suite = {1}
    MaxDeliveries = 1
    ScanLimit = 2
    Timeout = 1
    Lease = 1
    Wait = 2
    LastStart <- OneLater
    Retention = 1
    MaxTime = 5
    MaxRuns = 2
    MaxFaults = 1
    RunTimeouts = {1}
    LeaseTimes = {1}
INVARIANTS
    NoStaleResults
PROPERTIES
    UsesQueue
    CoordinatorEnds
    WorkersLeave
CHECK_DEADLOCK FALSE
