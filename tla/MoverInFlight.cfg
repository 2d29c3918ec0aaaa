SPECIFICATION Spec
CONSTANTS
    Machines = {m1, m2}
    NoOne = none
    MaxToken = 2
    MaxFence = 4
    Faults = {"late", "crash", "pause"}
    MaxFaults = 2
INVARIANTS
    NumbersRise
SYMMETRY Interchangeable
CHECK_DEADLOCK FALSE
