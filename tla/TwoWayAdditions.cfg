SPECIFICATION Spec
CONSTANTS
    Sides = {a, b}
    Home = b
    NoOne = noone
    NoRow = norow
    Rulebooks <- OrderBook
    Texts <- TextsWritten
    Amounts <- AmountsAdded
    MaxWrites = 3
    MaxTime = 3
    MaxFaults = 0
INVARIANTS
    AdditionsAreKept
CHECK_DEADLOCK FALSE
