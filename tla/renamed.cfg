SPECIFICATION Spec
CONSTANTS
    Post = p
    Comments = {c1, c2}
    Servers = {s1, s2}
    NoId = NoId
    MaxStarts = 1
INVARIANT RemoteIdsUntouched
CHECK_DEADLOCK FALSE
