----------------------------- MODULE MCBridging -----------------------------
(***************************************************************************)
(* Profile media, one instance each of inbound follows, of remote          *)
(* subscriptions and of the sync of a remote community, and the parts of   *)
(* MCKeeping.  They share no state here: a behaviour takes the steps of    *)
(* one of them, the focus, and the others stay where they began.           *)
(***************************************************************************)
EXTENDS ProfileMedia

CONSTANTS
    Follows, Undos, NoRow, MaxFollowAttempts, MaxFollowFaults, MaxFollowCrashes,
    Channels, Communities, NoFollow, MaxCommands, MaxSubFaults, MaxSubCrashes,
    Post, Comments, Remote, Nothing, SyncDeliveries, MaxSyncTroubles,
    FeedComments, Root, Gone, MaxRevision, ClaimLimit, MaxFeedAttempts, MaxFeedFaults,
    Generations, Absent, Stray, MaxInterruptions,
    InviteCommands, Codes, NoCode, MaxInviteTroubles,
    Releases, MaxFailures

VARIABLES
    focus,
    kind, queue, attempts, receipts, handlers, row, lastId, accepted, told,
    followFaults, followCrashes,
    follows, subs, calls, outbox, accepts, remote, denied, undone,
    subFaults, subCrashes,
    source, members, groups, made, jobs, status, open,
    syncChurn, syncFaults, syncBroken, syncCrashes,
    duty,
    feedRows, parent, content, removed, state, feedAttempts, message, shown, bound,
    batch, phase, unwoken, feedFaults,
    live, retained, staged, marker, stage, todo, current, has, seen, hot, torn,
    opened, interruptions,
    given, alive, published, command, troubles,
    db, saved, transaction, foreignKeys, at, personal, failures

Follow == INSTANCE InboundFollow
    WITH MaxAttempts <- MaxFollowAttempts, MaxFaults <- MaxFollowFaults,
         MaxCrashes <- MaxFollowCrashes, faults <- followFaults, crashes <- followCrashes

Subscription == INSTANCE RemoteSubscription
    WITH MaxFaults <- MaxSubFaults, MaxCrashes <- MaxSubCrashes,
         faults <- subFaults, crashes <- subCrashes

\* The post is announced twice, its comment is created, announced and updated.
PostTwice ==
    ({"create"} \X (Comments \cup {Post}) \X {1, 2})
        \cup ({"update"} \X Comments \X {1})

Sync == INSTANCE CommunitySync
    WITH Sources <- {Remote} \cup Channels,
         Deliveries <- SyncDeliveries, MaxTroubles <- MaxSyncTroubles, subs <- members,
         churn <- syncChurn, faults <- syncFaults, broken <- syncBroken,
         crashes <- syncCrashes

Keeping == INSTANCE MCKeeping

followVars == <<kind, queue, attempts, receipts, handlers, row, lastId, accepted,
                told, followFaults, followCrashes>>
subVars == <<follows, subs, calls, outbox, accepts, remote, denied, undone,
             subFaults, subCrashes>>
syncVars == <<source, members, groups, made, jobs, status, open, syncChurn,
              syncFaults, syncBroken, syncCrashes>>
feedVars == <<feedRows, parent, content, removed, state, feedAttempts, message,
              shown, bound, batch, phase, unwoken, feedFaults>>
restoreVars == <<live, retained, staged, marker, stage, todo, current, has, seen,
                 hot, torn, opened, interruptions>>
inviteVars == <<given, alive, published, command, troubles>>
upgradeVars == <<db, saved, transaction, foreignKeys, at, personal, failures>>
keepingVars == <<duty, feedVars, restoreVars, inviteVars, upgradeVars>>
allVars == <<focus, vars, followVars, subVars, syncVars, keepingVars>>

AllInit ==
    /\ focus \in {"media", "follow", "subscription", "sync", "keeping"}
    /\ Init
    /\ Follow!Init /\ (focus # "follow" => kind = "user")
    /\ Subscription!Init
    /\ Sync!Init /\ (focus # "sync" => source = [o \in Sync!Objects |-> Remote])
    /\ IF focus = "keeping" THEN Keeping!Init ELSE Keeping!Rests

InMedia ==
    /\ focus = "media"
    /\ UNCHANGED <<focus, followVars, subVars, syncVars, keepingVars>>
InFollow ==
    /\ focus = "follow"
    /\ UNCHANGED <<focus, vars, subVars, syncVars, keepingVars>>
InSubscription ==
    /\ focus = "subscription"
    /\ UNCHANGED <<focus, vars, followVars, syncVars, keepingVars>>
InSync ==
    /\ focus = "sync"
    /\ UNCHANGED <<focus, vars, followVars, subVars, keepingVars>>
InKeeping ==
    /\ focus = "keeping"
    /\ UNCHANGED <<focus, vars, followVars, subVars, syncVars>>

AllNext ==
    \/ InMedia /\ Next
    \/ InFollow /\ Follow!Next
    \/ InSubscription /\ Subscription!Next
    \/ InSync /\ Sync!Next
    \/ InKeeping /\ Keeping!Next

\* The fairness each of the modules states.
Fairness ==
    /\ \A d \in Follow!Deliveries : WF_followVars(focus = "follow" /\ Follow!Bridge(d))
    /\ \A f \in Follows :
          WF_followVars(focus = "follow" /\ (Follow!Progress(f) \/ Follow!AcceptFails(f)))
    /\ \A c \in Subscription!Commands :
          /\ WF_subVars(/\ focus = "subscription"
                        /\ (Subscription!Gateway(c) \/ Subscription!Resume(c)))
          /\ \A m \in Communities :
                WF_subVars(focus = "subscription" /\ Subscription!RemoteFollowed(c, m))
          /\ WF_subVars(focus = "subscription" /\ Subscription!HandleAccept(c))
    /\ \A m \in Communities :
          WF_subVars(focus = "subscription" /\ Subscription!ImplicitAccept(m))
    /\ WF_feedVars(focus = "keeping" /\ duty = "feed" /\ Keeping!Feed!Scheduler)

AllSpec == AllInit /\ [][AllNext]_allVars
FairSpec == AllSpec /\ Fairness

-----------------------------------------------------------------------------
(* The properties of the instances; those of ProfileMedia are its own *)

ASSUME BridgingAssumption ==
    /\ ProfileMediaAssumption
    /\ Follow!InboundFollowAssumption
    /\ Subscription!RemoteSubscriptionAssumption
    /\ Sync!CommunitySyncAssumption
    /\ Keeping!Feed!PersonalFeedAssumption
    /\ Keeping!Restore!RestoreJournalAssumption
    /\ Keeping!Invites!GuildInvitesAssumption
    /\ Keeping!Upgrade!MigrationsAssumption

TypesOK ==
    /\ TypeOK
    /\ Follow!TypeOK /\ Subscription!TypeOK /\ Sync!TypeOK
    /\ Keeping!TypeOK
ToldOnce == Follow!ToldOnce
StoredIsAnswered == Follow!StoredIsAnswered
RoutedIsFollowed == Subscription!RoutedIsFollowed
PendingEnds == Subscription!PendingEnds
CommentsReachAll == Sync!CommentsReachAll
RetriesAddNoCopy == Sync!RetriesAddNoCopy
EveryDeliveryEnds == Keeping!Feed!EveryDeliveryEnds
RecoversWhole == Keeping!Restore!RecoversWhole
InvitesAccountedFor == Keeping!Invites!InvitesAccountedFor
UpgradeKeepsRows == Keeping!Upgrade!UpgradeKeepsRows
=============================================================================
