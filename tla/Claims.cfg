SPECIFICATION FairSpec
CONSTANTS
    Machines = {m1, m2}
    NoOne = none
    Ranges <- TwoRanges
    Deletes <- OneRange
    Faults = {"kill", "pause", "error"}
    MaxFaults = 2
INVARIANTS
    TypeOK
    AuditClean
    DoneComplete
PROPERTIES
    AllCopied
CHECK_DEADLOCK FALSE
