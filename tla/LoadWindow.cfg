SPECIFICATION FairSpec
CONSTANTS
    Loads = {tail, copy}
    Triggers = {stamp, audit}
    Faults = {"kill", "refused", "disk", "answer"}
    MaxFaults = 2
    MaxRuns = 1
INVARIANTS
    TypeOK
    OffIsRecorded
    UsersOffStaysOff
PROPERTIES
    AllBackOn
CHECK_DEADLOCK FALSE
