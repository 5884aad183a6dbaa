\* Claims, reclaims, renewals, late and repeated completions; the run ID is
\* created again, with another suite, once the keys of the first run have expired;
\* a timeout below a tick truncates to 0 and gives a run that is over at once.
SPECIFICATION Spec
CONSTANTS
    Cases = {1, 2, 3}
    Position <- MCPosition
    Suites <- MCSuites
    Statuses = {"passed"}
    MaxDeliveries = 2
    ScanLimit = 2
    LeaseTimes = {1, 2}
    RunTimeouts = {0, 3}
    Retention = 1
    MaxTime = 7
    MaxRuns = 2
INVARIANTS
    OnePlace
    LatestDeliveryWins
    KeysExpire
PROPERTIES
    LeaseProtects
    ReclaimedFirst
    ImplementsLedger
CHECK_DEADLOCK FALSE
