SPECIFICATION Spec
CONSTANTS
    ws = ws
    None = None
    Jobs = {1, 2}
    Kind <- DeleteLast
    Workspaces = {ws}
    WorkspaceOf <- OneWorkspace
    Daemons = {d1, d2}
    Rpcs = {r1, r2}
    Cancels = {x}
SYMMETRY Symmetry
INVARIANTS
    OneUnendedBuild
    SuccessIsRecorded
    ExclusiveUnlessTerminated
PROPERTIES
    StatesAccumulate
\* every request may have been used
CHECK_DEADLOCK FALSE
