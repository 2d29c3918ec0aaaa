SPECIFICATION Spec
CONSTANTS
    Keys <- TwoKeys
    Edges <- SmallEdges
    RetireAfter = 2
    Exports = TRUE
    Ops = {"put"}
    Killed = {}
    MaxTxns = 2
    MaxStops = 0
INVARIANTS
    LeftOutWasRead
CHECK_DEADLOCK FALSE
