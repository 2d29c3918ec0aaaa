SPECIFICATION Spec
CONSTANTS
    Sides = {a, b}
    Home = b
    NoOne = noone
    NoRow = norow
    Rulebooks <- Books
    Texts <- TextsWritten
    Amounts <- AmountsAdded
    MaxWrites = 3
    MaxTime = 3
    MaxFaults = 1
INVARIANTS
    TypeOK
    EndsAlike
    EveryAdditionKept
    HighestStands
    NothingOwnLost
CHECK_DEADLOCK FALSE
