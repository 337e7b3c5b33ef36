SPECIFICATION FairSpec
CONSTANTS
    Subs = {a, b, c}
    None = None
    MaxNotify = 2
INVARIANTS
    Registered
    MembersCurrent
    ListensUnlessRemoved
    LossReported
PROPERTIES
    SubscribeReturns
\* every subscription may be canceled
CHECK_DEADLOCK FALSE
