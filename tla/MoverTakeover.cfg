SPECIFICATION FairSpec
CONSTANTS
    Machines = {m1, m2}
    NoOne = none
    MaxToken = 2
    MaxFence = 8
    Faults = {"crash", "interrupt", "silent", "answer", "pause", "forget"}
    MaxFaults = 2
INVARIANTS
    TypeOK
    OneBatchBehind
    HolderGoesOn
    HolderAtMark
    StateAtPosition
    NoHoldingForgotten
PROPERTIES
    SavedNeverGoesBack
    OneWriterAtATime
    AllApplied
CHECK_DEADLOCK FALSE
