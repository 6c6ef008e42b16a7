SPECIFICATION FairSpec
CONSTANTS
    ProfileKeys = {}
    ContentKeys = {note}
    MaxVersion = 2
    Endpoints = {1}
    DirectTargets = {}
    Followers = {alice}
    MaxIncarnation = 1
    Bannable = {}
    Drains = {d1}
    ClaimLimit = 1
    MaxCrashes = 1
    NoDrain = NoDrain
    NoInbox = NoInbox
PROPERTIES StaleClaimsRecovered
CHECK_DEADLOCK FALSE
