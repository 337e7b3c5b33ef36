SPECIFICATION Spec
CONSTANTS
    Subs = {a, b, c}
    None = None
    MaxNotify = 2
INVARIANTS
    ListensWhileSubscribed
CHECK_DEADLOCK FALSE
