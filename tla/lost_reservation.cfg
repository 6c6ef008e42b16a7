SPECIFICATION FairSpec
CONSTANTS
    Texts = {first, second}
    FirstText = first
    MaxEdits = 2
    MaxMutations = 3
    Drains = {d1}
    MaxCrashes = 1
    MaxUnreadable = 0
    NoDrain = NoDrain
    NoText = NoText
    Removed = Removed
PROPERTIES AdmittedIsReserved
CHECK_DEADLOCK FALSE
