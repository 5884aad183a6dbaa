\* An earlier or overlapping command, and one that is interrupted.
SPECIFICATION FairSpec
CONSTANTS
    Writers = {1, 2}
    MaxOutages = 1
    Own = 2
    Size = 2
    Concurrency = 1
    MaxSignals = 2
    StderrFails = TRUE
INVARIANTS
    Readable
    ReportTells
    CodeTellsReport
    InterruptIsClean
    CodeIsOnFile
PROPERTIES
    Exits
CHECK_DEADLOCK FALSE
