\* One worker of two threads, two cases: the threads share the flags, the
\* heartbeat and its round.
SPECIFICATION DSpec
CONSTANTS
    w1 = w1
    t1 = t1
    t2 = t2
    k1 = k1
    Coordinators = {k1}
    Workers = {w1}
    Threads = {t1, t2}
    Cases = {1, 2}
    Position <- MCPosition
    Suites <- MCSuites
    Statuses <- MCTwoStatuses
    Suite = {1, 2}
    MaxDeliveries = 1
    ScanLimit = 2
    Timeout = 3
    Lease = 1
    Wait = 1
    LastStart <- AtOnce
    Retention = 5
    MaxTime = 4
    MaxRuns = 1
    MaxFaults = 1
    RunTimeouts = {3}
    LeaseTimes = {1}
INVARIANTS
    ReportIsLast
    GreenMeansAllPassed
    LostIsFenced
    NothingLeftBehind
SYMMETRY MCSymmetry
CHECK_DEADLOCK FALSE
