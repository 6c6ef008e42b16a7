SPECIFICATION AllSpec
CONSTANTS
    Texts = {first, second}
    FirstText = first
    MaxEdits = 3
    MaxMutations = 5
    Drains = {d1, d2}
    MaxCrashes = 1
    MaxUnreadable = 1
    NoDrain = NoDrain
    NoText = NoText
    Removed = Removed
    Comments = {c1, c2}
    Root = Root
    MaxRevision = 1
    ClaimLimit = 2
    MaxAttempts = 2
    MaxFaults = 1
    Gone = Gone
    Post = Post
    Servers = {s1}
    NoId = NoId
    MaxStarts = 2
SYMMETRY Symmetry
INVARIANTS TypesOK OneTransition DeleteIsLastSource NothingLost DeletedUnseenStaysSuppressed OneMessage WaitsForParent
PROPERTIES NeverOlder StartKeepsReferences
CHECK_DEADLOCK FALSE
