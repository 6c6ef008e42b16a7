SPECIFICATION FairSpec
CONSTANTS
    Follows = {f1, f2}
    Undos = {u1}
    NoRow = NoRow
    MaxFollowAttempts = 2
    MaxFollowFaults = 1
    MaxFollowCrashes = 1
    Channels = {a, b}
    Communities = {m}
    NoFollow = NoFollow
    MaxCommands = 3
    MaxSubFaults = 1
    MaxSubCrashes = 1
    Post = post
    Comments = {reply}
    Remote = remote
    Nothing = Nothing
    SyncDeliveries <- PostTwice
    MaxSyncTroubles = 1
    FeedComments = {c1, c2}
    Root = Root
    Gone = Gone
    MaxRevision = 0
    ClaimLimit = 1
    MaxFeedAttempts = 2
    MaxFeedFaults = 2
    Generations = {g0, g1}
    Absent = Absent
    Stray = Stray
    MaxInterruptions = 2
    Assets = {a1, a2}
    None = None
    MaxVersions = 2
    MaxStops = 1
    InviteCommands = {i1, i2, i3}
    Codes = {k1, k2, k3}
    NoCode = NoCode
    MaxInviteTroubles = 2
    Releases = {"early", "stage4", "stage6", "stage7", "current"}
    MaxFailures = 2
INVARIANTS TypesOK ToldOnce RoutedIsFollowed CommentsReachAll RetriesAddNoCopy RecoversWhole ReferencedHasBytes BackupFindsMedia InvitesAccountedFor UpgradeKeepsRows
PROPERTIES StoredIsAnswered PendingEnds EveryDeliveryEnds
CHECK_DEADLOCK FALSE
