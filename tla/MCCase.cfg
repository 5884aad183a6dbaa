SPECIFICATION FairSpec
CONSTANTS
    Setup <- WriteOnly
    Test <- ReadWrite
    Teardown <- TwoCleanups
    RequestTimeout = 2
    CaseTimeout = 2
    CleanupTimeout = 1
    ConnectRetries = 1
    Pause = 1
    MaxChunks = 1
    QuietReads = 1
INVARIANTS
    TeardownAttempted
    PassedMeansAll
    NoReplay
    OneAfterLoss
    CaseBounded
PROPERTIES
    CaseEnds
    ImplementsOutline
CHECK_DEADLOCK FALSE
