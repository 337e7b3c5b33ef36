SPECIFICATION FairSpec
CONSTANTS
    Managers = {a, b}
    Stopped = {a}
    Msgs = {x}
    MaxSendAttempts = 2
    StoreSyncBufferSize = 1
    MaxFaults = 2
INVARIANTS
    AttemptsLeft
    ExclusiveUnlessSlow
PROPERTIES
    StopFlushes
    ResultsCountOnce
    StopReturns
    MessagesEnd
    CancelEnds
\* every message may be final
CHECK_DEADLOCK FALSE
