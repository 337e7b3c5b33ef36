SPECIFICATION Spec
CONSTANTS
    Rotators = {a}
    Callers = {c}
    KeyDuration = 2
    TokenDuration = 2
    Hour = 1
    RotationInterval = 1
    RefreshInterval = 1
    MaxTime = 7
INVARIANT
    TokensOutlived
SYMMETRY Symmetry
CHECK_DEADLOCK FALSE
