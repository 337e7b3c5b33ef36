SPECIFICATION FairSpec
CONSTANTS
    c1 = c1
    c2 = c2
    c3 = c3
    Calls = {c1, c2}
    Keys <- TwoKeys
    KeyOf <- TwoKeyOf
    Jobs = {1}
    Job <- MixedJob
    Legacy = {1}
    Untagged <- MCUntagged
PROPERTY
    NoJobStuck
\* every call may have returned, and then nothing is left to do
CHECK_DEADLOCK FALSE
