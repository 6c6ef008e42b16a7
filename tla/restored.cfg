SPECIFICATION Spec
CONSTANTS
    Generations = {g0, g1, g2}
    Absent = Absent
    Stray = Stray
    MaxStops = 3
INVARIANT UnfinishedIsUndone
CHECK_DEADLOCK FALSE
