SPECIFICATION Spec
CONSTANTS
    Callers = {c1, c2, c3}
    Interval = 2
    Timeout = 3
    MaxHops = 1
    Late = 1
    Horizon = 6
    LastSlot = 8
SYMMETRY MCSymmetry
INVARIANTS
    Paced
    Evenly
CHECK_DEADLOCK FALSE
