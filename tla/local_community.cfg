SPECIFICATION FairSpec
CONSTANTS
    Host = h
    a = a
    b = b
    r = r
    q = q
    Subs = {a, b}
    Remotes = {r, q}
    Sources <- Mixed
    Depth = 1
    Events <- PostUpdated
    MaxEvents = 3
    MaxTroubles = 1
INVARIANTS TypeOK CopiesHaveContext MessagesAccountedFor MutationFollowsCreate FailuresAreIsolated
PROPERTIES RelaySettles
CHECK_DEADLOCK FALSE
