\* A heartbeat that fails while the lease is live.
SPECIFICATION DSpec
CONSTANTS
    w1 = w1
    t1 = t1
    k1 = k1
    Coordinators = {k1}
    Workers = {w1}
    Threads = {t1}
    Cases = {1}
    Position <- MCPosition
    Suites <- MCSuites
    Statuses <- MCTwoStatuses
    Suite = {1}
    MaxDeliveries = 2
    ScanLimit = 2
    Timeout = 2
    Lease = 1
    Wait = 1
    LastStart <- AtOnce
    Retention = 5
    MaxTime = 3
    MaxRuns = 1
    MaxFaults = 1
    RunTimeouts = {2}
    LeaseTimes = {1}
PROPERTIES
    LostNotTrusted
CHECK_DEADLOCK FALSE
