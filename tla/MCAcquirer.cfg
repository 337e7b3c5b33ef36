SPECIFICATION Spec
CONSTANTS
    c1 = c1
    c2 = c2
    c3 = c3
    Calls = {c1, c2, c3}
    Keys <- OneKey
    KeyOf <- OneKeyOf
    Jobs = {1, 2}
    Job <- OnPremJob
    Legacy = {}
    Untagged <- MCUntagged
SYMMETRY CallSymmetry
INVARIANTS
    OneQueryPerDomain
    SendNeverBlocks
    NoInternalError
    DomainsInUse
    NoLostWakeup
\* every call may have returned, and then nothing is left to do
CHECK_DEADLOCK FALSE
