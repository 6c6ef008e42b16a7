------------------------------ MODULE MCKeeping ------------------------------
(***************************************************************************)
(* What the bridge keeps: the comments below a personal-feed post, the     *)
(* deployment that a restore replaces, the invite of a server, the tables  *)
(* that an upgrade rebuilds.  They share no state here: a behaviour takes  *)
(* the steps of one of them, the duty, and the others stay where they      *)
(* began.  MCBridging runs this module beside its own parts.               *)
(***************************************************************************)
EXTENDS Naturals, FiniteSets, Sequences

CONSTANTS
    FeedComments, Root, Gone, MaxRevision, ClaimLimit, MaxFeedAttempts, MaxFeedFaults,
    Generations, Absent, Stray, MaxInterruptions,
    InviteCommands, Codes, NoCode, MaxInviteTroubles,
    Releases, MaxFailures

VARIABLES
    duty,
    feedRows, parent, content, removed, state, feedAttempts, message, shown, bound,
    batch, phase, unwoken, feedFaults,
    live, retained, staged, marker, stage, todo, current, has, seen, hot, torn,
    opened, interruptions,
    given, alive, published, command, troubles,
    db, saved, transaction, foreignKeys, at, personal, failures

Feed == INSTANCE PersonalFeedDelivery
    WITH Comments <- FeedComments, MaxAttempts <- MaxFeedAttempts, MaxFaults <- MaxFeedFaults,
         rows <- feedRows, attempts <- feedAttempts, faults <- feedFaults

Restore == INSTANCE RestoreJournal
    WITH MaxStops <- MaxInterruptions, used <- seen, stops <- interruptions

Invites == INSTANCE GuildInvites WITH Commands <- InviteCommands, MaxTroubles <- MaxInviteTroubles

Upgrade == INSTANCE Migrations WITH open <- transaction

feedVars == <<feedRows, parent, content, removed, state, feedAttempts, message,
              shown, bound, batch, phase, unwoken, feedFaults>>
restoreVars == <<live, retained, staged, marker, stage, todo, current, has, seen,
                 hot, torn, opened, interruptions>>
inviteVars == <<given, alive, published, command, troubles>>
upgradeVars == <<db, saved, transaction, foreignKeys, at, personal, failures>>
vars == <<duty, feedVars, restoreVars, inviteVars, upgradeVars>>

Init ==
    /\ duty \in {"feed", "restore", "invites", "upgrade"}
    /\ Feed!Init
    /\ Restore!Init
    /\ Invites!Init
    /\ Upgrade!Init /\ (duty # "upgrade" => db.shape["objects"] = "new")
    /\ \/ duty = "restore"
       \/ has[current] = Restore!Parts /\ current = CHOOSE g \in Generations : TRUE

\* Where the parts of this module stay while another module runs.
Rests == Init /\ duty = "feed"

\* Bound: crashes and lost answers meet one comment, failed calls both.
FeedSteps == Feed!Next /\ (feedFaults' > 0 => Len(feedRows') <= 1)

Next ==
    \/ /\ duty = "feed" /\ FeedSteps
       /\ UNCHANGED <<duty, restoreVars, inviteVars, upgradeVars>>
    \/ /\ duty = "restore" /\ Restore!Next
       /\ UNCHANGED <<duty, feedVars, inviteVars, upgradeVars>>
    \/ /\ duty = "invites" /\ Invites!Next
       /\ UNCHANGED <<duty, feedVars, restoreVars, upgradeVars>>
    \/ /\ duty = "upgrade" /\ Upgrade!Next
       /\ UNCHANGED <<duty, feedVars, restoreVars, inviteVars>>

TypeOK ==
    Feed!TypeOK /\ Restore!TypeOK /\ Invites!TypeOK /\ Upgrade!TypeOK
=============================================================================
