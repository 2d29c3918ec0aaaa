SPECIFICATION FairSpec
CONSTANTS
    DBs = {app, crm}
    OptionSets <- Hops
    Faults = {"kill", "fails", "refused", "drop"}
    MaxFaults = 2
    MaxRuns = 2
INVARIANTS
    TypeOK
    UndoneIsWhole
    UndoneCarriesAll
    FlippedHasAll
    JobOnOneSide
    RolledBackHasAll
PROPERTIES
    ComesToAnEnd
CHECK_DEADLOCK FALSE
