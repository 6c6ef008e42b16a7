SPECIFICATION BothSpec
CONSTANTS
    ProfileKeys = {}
    ContentKeys = {note}
    MaxVersion = 3
    Endpoints = {1}
    DirectTargets = {}
    Followers = {alice}
    MaxIncarnation = 1
    Bannable = {}
    Drains = {d1, d2}
    ClaimLimit = 1
    MaxCrashes = 1
    NoDrain = NoDrain
    NoInbox = NoInbox
    Profile = {profile}
    Posts = {post}
    Places = {1, 2}
    Direct = {2}
    Readers = {reader}
    Banned = {reader}
    Workers = {worker}
SYMMETRY DrainSymmetry
INVARIANTS TypeOK VersionBarrier DeliveredWasAccepted OneVersionEach MediaKept
PROPERTIES TerminalIsFinal OnlyOwnerSettles ImplementsOutbox RefollowRevivesNothing
CHECK_DEADLOCK FALSE
