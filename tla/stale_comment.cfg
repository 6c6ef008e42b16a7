SPECIFICATION Spec
CONSTANTS
    Comments = {c1, c2}
    Root = Root
    MaxRevision = 1
    ClaimLimit = 2
    MaxAttempts = 3
    MaxFaults = 1
    Gone = Gone
INVARIANTS DeliveredIsCurrent
CHECK_DEADLOCK FALSE
