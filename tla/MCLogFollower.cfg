SPECIFICATION FairSpec
CONSTANTS
    BufferSize = 2
    ErrDropped = ErrDropped
    MaxLines = 2
    MaxBreaks = 1
INVARIANTS
    EndIsComplete
    LossesAnnounced
PROPERTIES
    QueueIsLossy
    
    QueueGoroutineEnds
\* job and follower end
CHECK_DEADLOCK FALSE
