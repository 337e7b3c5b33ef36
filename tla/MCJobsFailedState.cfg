SPECIFICATION Spec
CONSTANTS
    ws = ws
    None = None
    Jobs = {1, 2}
    Kind <- AllBuilds
    Workspaces = {ws}
    WorkspaceOf <- OneWorkspace
    Daemons = {d1}
    Rpcs = {r1}
    Cancels = {}
INVARIANT
    FailedStateInherited
\* every request may have been used
CHECK_DEADLOCK FALSE
