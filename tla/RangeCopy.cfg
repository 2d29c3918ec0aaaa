SPECIFICATION Spec
CONSTANTS
    Keys <- TwoKeys
    Edges <- SmallEdges
    RetireAfter = 1
    Exports = FALSE
    Ops = {"put", "delete", "move"}
    Killed = {"copy", "tail"}
    MaxTxns = 3
    MaxStops = 1
INVARIANTS
    TypeOK
    LeftOutWasRead
    EndsAsSourceUnlessMoved
CHECK_DEADLOCK FALSE
