SPECIFICATION FairSpec
CONSTANTS
    ws = ws
    None = None
    Jobs = {1, 2}
    Kind <- BuildAndImport
    Workspaces = {ws}
    WorkspaceOf <- OneWorkspace
    Daemons = {d1}
    Rpcs = {r1}
    Cancels = {x}
INVARIANT
    SuccessIsRecorded
PROPERTY
    OrphansEnd
\* every request may have been used
CHECK_DEADLOCK FALSE
