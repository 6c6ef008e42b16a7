SPECIFICATION Spec
CONSTANTS
    ProfileKeys = {}
    ContentKeys = {note}
    MaxVersion = 2
    Endpoints = {1}
    DirectTargets = {}
    Followers = {alice}
    MaxIncarnation = 1
    Bannable = {}
    Drains = {d1}
    ClaimLimit = 1
    MaxCrashes = 0
    NoDrain = NoDrain
    NoInbox = NoInbox
INVARIANTS DeliveredDeleteIsLast
CHECK_DEADLOCK FALSE
