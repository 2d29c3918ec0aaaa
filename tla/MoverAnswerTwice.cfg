SPECIFICATION Spec
CONSTANTS
    Machines = {m1, m2}
    NoOne = none
    MaxToken = 2
    MaxFence = 3
    Faults = {"answer"}
    MaxFaults = 1
INVARIANTS
    ExactlyOnce
CHECK_DEADLOCK FALSE
