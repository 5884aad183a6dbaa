\* The run outlives the clock, so only a worker can bring the case to an end.
SPECIFICATION KSpec
CONSTANTS
    w1 = w1
    w2 = w2
    t1 = t1
    Crashed = w1
    Survivor = w2
    LastKill = 2
    Coordinators = {}
    Workers = {w1, w2}
    Threads = {t1}
    Cases = {1}
    Position <- MCPosition
    Suites <- MCSuites
    Statuses = {"passed", "error"}
    Suite = {1}
    MaxDeliveries = 3
    ScanLimit = 2
    Timeout = 6
    Lease = 1
    Wait = 6
    LastStart <- MCLastStart
    Retention = 5
    MaxTime = 5
    MaxRuns = 1
    MaxFaults = 1
    RunTimeouts = {6}
    LeaseTimes = {1}
INVARIANTS
    NothingLeft
PROPERTIES
    CaseRecovers
CHECK_DEADLOCK FALSE
