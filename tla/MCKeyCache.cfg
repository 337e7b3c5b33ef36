SPECIFICATION Spec
CONSTANTS
    Rotators = {a,b}
    Callers = {c,d}
    KeyDuration = 2
    TokenDuration = 0
    Hour = 1
    RotationInterval = 1
    RefreshInterval = 3
    MaxTime = 6
INVARIANTS
    OneUnrotated
    AlwaysSignable
    FreshCacheIsSafe
    OneFetch
    LiveKeysFound
    NoLostWakeup
SYMMETRY Symmetry
\* Time is bounded.
CHECK_DEADLOCK FALSE
