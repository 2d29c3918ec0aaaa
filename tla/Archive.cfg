SPECIFICATION FairSpec
CONSTANTS
    Last = 2
    Values = {v1, v2}
    None = none
    Faults = {"kill", "fail"}
    MaxFaults = 2
    MaxWrites = 1
    MaxRestores = 2
INVARIANTS
    RemovedIsKept
    AllPutBack
PROPERTIES
    RunsGoOn
CHECK_DEADLOCK FALSE
