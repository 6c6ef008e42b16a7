SPECIFICATION EndSpec
CONSTANTS
    Texts = {first, second}
    FirstText = first
    MaxEdits = 3
    MaxMutations = 4
    Drains = {d1}
    MaxCrashes = 0
    MaxUnreadable = 0
    NoDrain = NoDrain
    NoText = NoText
    Removed = Removed
    ContentKeys = {note}
    Endpoints = {1}
    Followers = {alice}
    MaxVersion = 2
    NoInbox = NoInbox
INVARIANTS EditsInOrder
PROPERTIES EveryRowSettles Converges
CHECK_DEADLOCK FALSE
