SPECIFICATION FairSpec
CONSTANTS
    Askers = {repair, proof, cutover}
    Polite = {proof}
    Repairs = {repair}
    Cutovers = {cutover}
    Faults = {"kill", "interrupt", "link", "asker", "stray"}
    MaxFaults = 2
    MaxLog = 2
    MaxAsks = 2
INVARIANTS
    TypeOK
    OwnHoldIsKept
    EndsAsSource
PROPERTIES
    AllApplied
CHECK_DEADLOCK FALSE
