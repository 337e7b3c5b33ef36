SPECIFICATION FairSpec
CONSTANTS
    Flushers = {f1, f2}
    LogLimit = 2
    MaxLogs = 3
INVARIANTS
    DoneClosedOnce
    OneReport
PROPERTIES
    CancelEnds
    ResultEnds
    RunnerReports
\* the runner ends
CHECK_DEADLOCK FALSE
