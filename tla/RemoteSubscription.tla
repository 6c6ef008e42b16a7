------------------------- MODULE RemoteSubscription -------------------------
(***************************************************************************)
(* Channels subscribe to remote communities over one shared Follow.        *)
(*                                                                         *)
(* A channel has at most one subscription row; a community has at most one *)
(* follow row of the bridge actor, which every channel of that community   *)
(* shares.  /subscribe-community and /unsubscribe-channel read both tables *)
(* and then await the gateway, and whatever happens meanwhile is not read  *)
(* again (operations/subscribe.py, operations/unsubscribe.py).  The remote *)
(* side answers a Follow with an Accept, or with content alone, and both   *)
(* activate the follow row and all waiting channels in one transaction     *)
(* (activitypub_handlers.py, bridge_actor_follows.py).  A start of the     *)
(* bridge deletes the follow rows and makes every channel wait again       *)
(* (migrations.py).                                                        *)
(*                                                                         *)
(* A command is one run of an operation; the Follow it may send and the    *)
(* row it may create are named by the command.                             *)
(***************************************************************************)
EXTENDS Naturals, FiniteSets

CONSTANTS
    Channels,       \* Discord forum channels
    Communities,    \* remote communities, by canonical actor id
    MaxCommands,    \* bound: runs of the two operations
    MaxFaults,      \* bound: gateway calls that fail
    MaxCrashes,     \* bound: crashes of the bridge
    NoRow,          \* no follow row, no subscription row
    NoFollow        \* a failed row has no follow activity id

VARIABLES
    follows,    \* community -> its bridge_actor_follows row
    subs,       \* channel -> its channel_community_subscriptions row
    calls,      \* command -> how far it is, and what it awaits
    outbox,     \* Follows in the gateway's queue, as <<command, community>>
    accepts,    \* Accepts on their way to the bridge
    remote,     \* communities that have the bridge actor as a follower
    denied,     \* communities whose instance the operator denies
    undone,     \* history: Follows that an Undo crossed: it was called for their
                \*          row, was sent when they had been, or deleted their row
    faults, crashes

vars == <<follows, subs, calls, outbox, accepts, remote, denied, undone,
          faults, crashes>>

Commands == 1 .. MaxCommands
Statuses == {"pending", "accepted", "failed"}
FollowRows == [status : Statuses, follow : Commands \cup {NoFollow}]
SubRows == [community : Communities, status : Statuses,
            follow : Commands \cup {NoFollow}]

RemoteSubscriptionAssumption ==
    /\ MaxCommands \in Nat
    /\ MaxFaults \in Nat
    /\ MaxCrashes \in Nat
    /\ NoFollow \notin Nat
    /\ NoRow \notin FollowRows \cup SubRows

Call(at, ch, m) == [at |-> at, channel |-> ch, community |-> m]

TypeOK ==
    /\ follows \in [Communities -> FollowRows \cup {NoRow}]
    /\ subs \in [Channels -> SubRows \cup {NoRow}]
    /\ \A c \in Commands :
          /\ calls[c].at \in {"ready", "follow", "followed", "undo", "undid", "done"}
          /\ calls[c].at \notin {"ready", "done"} =>
                /\ calls[c].channel \in Channels
                /\ calls[c].community \in Communities
    /\ outbox \subseteq Commands \X Communities
    /\ accepts \subseteq Commands
    /\ remote \subseteq Communities
    /\ denied \subseteq Communities
    /\ undone \subseteq Commands
    /\ faults \in 0 .. MaxFaults
    /\ crashes \in 0 .. MaxCrashes

Init ==
    /\ follows = [m \in Communities |-> NoRow]
    /\ subs = [ch \in Channels |-> NoRow]
    /\ calls = [c \in Commands |-> [at |-> "ready"]]
    /\ outbox = {}
    /\ accepts = {}
    /\ remote = {}
    /\ denied = {}
    /\ undone = {}
    /\ faults = 0
    /\ crashes = 0

\* Commands are numbered in the order they start.
Starts(c) == calls[c].at = "ready" /\ \A d \in 1 .. c - 1 : calls[d].at # "ready"
Ends(c) == calls' = [calls EXCEPT ![c] = [at |-> "done"]]
Awaits(c, at, ch, m) == calls' = [calls EXCEPT ![c] = Call(at, ch, m)]
Has(m, status) == follows[m] # NoRow /\ follows[m].status = status
Fault == faults < MaxFaults /\ faults' = faults + 1

-----------------------------------------------------------------------------
(* /subscribe-community *)

\* The preconditions: no accepted and no pending row of this channel.
MaySubscribe(ch) == ~(subs[ch] # NoRow /\ subs[ch].status # "failed")

\* Another channel's follow is accepted or pending: share it, in its state.
SubscribeShared(c, ch, m) ==
    /\ Starts(c)
    /\ MaySubscribe(ch)
    /\ Has(m, "accepted") \/ Has(m, "pending")
    /\ subs' = [subs EXCEPT ![ch] = [community |-> m, status |-> follows[m].status,
                                     follow |-> follows[m].follow]]
    /\ Ends(c)
    /\ UNCHANGED <<follows, outbox, accepts, remote, denied, undone, faults, crashes>>

\* No follow, or a failed one: the failed rows go, and the policy decides
\* whether the gateway is asked for a Follow.
SubscribeFresh(c, ch, m) ==
    /\ Starts(c)
    /\ MaySubscribe(ch)
    /\ follows[m] = NoRow \/ Has(m, "failed")
    /\ subs' = [subs EXCEPT ![ch] = NoRow]
    /\ follows' = [follows EXCEPT ![m] = NoRow]
    /\ IF m \in denied THEN Ends(c) ELSE Awaits(c, "follow", ch, m)
    /\ UNCHANGED <<outbox, accepts, remote, denied, undone, faults, crashes>>

\* followCommunity: the Follow is in the gateway's queue under a new id.
GatewayFollows(c) ==
    /\ calls[c].at = "follow"
    /\ outbox' = outbox \cup {<<c, calls[c].community>>}
    /\ calls' = [calls EXCEPT ![c].at = "followed"]
    /\ UNCHANGED <<follows, subs, accepts, remote, denied, undone, faults, crashes>>

\* Variant: the channel's row is stored although the follow row was refused.
StoreChannelAnyway(c, status, follow) ==
    LET ch == calls[c].channel
        m == calls[c].community
    IN  /\ follows' = IF follows[m] # NoRow THEN follows
                      ELSE [follows EXCEPT ![m] = [status |-> status, follow |-> follow]]
        /\ subs' = IF subs[ch] # NoRow THEN subs
                   ELSE [subs EXCEPT ![ch] =
                            [community |-> m, status |-> status, follow |-> follow]]

\* Both rows, each in a transaction of its own.  The unique column of either
\* table refuses a second row, which ends the command with an exception.
Store(c, status, follow) ==
    LET ch == calls[c].channel
        m == calls[c].community
    IN  IF follows[m] # NoRow THEN UNCHANGED <<follows, subs>>
        ELSE /\ follows' = [follows EXCEPT ![m] = [status |-> status, follow |-> follow]]
             /\ subs' = IF subs[ch] # NoRow THEN subs
                        ELSE [subs EXCEPT ![ch] =
                                 [community |-> m, status |-> status, follow |-> follow]]

FollowAnswered(c) ==
    /\ calls[c].at = "followed"
    /\ Store(c, "pending", c)
    /\ Ends(c)
    /\ UNCHANGED <<outbox, accepts, remote, denied, undone, faults, crashes>>

\* The call raises, before or after the gateway queued the Follow.
FollowFails(c) ==
    /\ calls[c].at \in {"follow", "followed"}
    /\ Fault
    /\ Store(c, "failed", NoFollow)
    /\ Ends(c)
    /\ UNCHANGED <<outbox, accepts, remote, denied, undone, crashes>>

-----------------------------------------------------------------------------
(* /unsubscribe-channel *)

\* count_subscriptions_for_community counts the rows of every status.
Subscribers(m) == {ch \in Channels : subs[ch] # NoRow /\ subs[ch].community = m}
FollowIdOf(m) == IF follows[m] = NoRow THEN NoFollow ELSE follows[m].follow

\* One of several channels, or the instance is denied: the row goes, and the
\* remote side hears nothing.
UnsubscribeLocally(c, ch) ==
    LET m == subs[ch].community
    IN  /\ Starts(c)
        /\ subs[ch] # NoRow
        /\ \/ Subscribers(m) # {ch}
           \/ FollowIdOf(m) # NoFollow /\ m \in denied
        /\ subs' = [subs EXCEPT ![ch] = NoRow]
        /\ Ends(c)
        /\ UNCHANGED <<follows, outbox, accepts, remote, denied, undone, faults,
                       crashes>>

\* The last channel: its row goes, and the Undo is called for.
UnsubscribeLast(c, ch) ==
    LET m == subs[ch].community
    IN  /\ Starts(c)
        /\ subs[ch] # NoRow
        /\ Subscribers(m) = {ch}
        /\ FollowIdOf(m) # NoFollow
        /\ m \notin denied
        /\ subs' = [subs EXCEPT ![ch] = NoRow]
        /\ undone' = undone \cup {FollowIdOf(m)}
        /\ Awaits(c, "undo", ch, m)
        /\ UNCHANGED <<follows, outbox, accepts, remote, denied, faults, crashes>>

\* The last channel, and no follow id to undo: refused, and the row stays.
UnsubscribeRefused(c, ch) ==
    /\ Starts(c)
    /\ subs[ch] # NoRow
    /\ Subscribers(subs[ch].community) = {ch}
    /\ FollowIdOf(subs[ch].community) = NoFollow
    /\ Ends(c)
    /\ UNCHANGED <<follows, subs, outbox, accepts, remote, denied, undone, faults,
                   crashes>>

\* unfollowCommunity: the signed Undo reaches the remote inbox at once.
GatewayUndoes(c) ==
    /\ calls[c].at = "undo"
    /\ remote' = remote \ {calls[c].community}
    /\ undone' = undone \cup {d \in Commands : /\ calls[d].at = "followed"
                                              /\ calls[d].community = calls[c].community}
    /\ calls' = [calls EXCEPT ![c].at = "undid"]
    /\ UNCHANGED <<follows, subs, outbox, accepts, denied, faults, crashes>>

\* The cleanup was confirmed: the follow row of the community goes, whichever
\* Follow it carries now and whoever shares it now.
UndoAnswered(c) ==
    LET m == calls[c].community
    IN  /\ calls[c].at = "undid"
        /\ follows' = [follows EXCEPT ![m] = NoRow]
        /\ undone' = undone \cup ({FollowIdOf(m)} \ {NoFollow})
        /\ Ends(c)
        /\ UNCHANGED <<subs, outbox, accepts, remote, denied, faults, crashes>>

\* It was not, whether or not the Undo arrived: the follow row stays.
UndoFails(c) ==
    /\ calls[c].at \in {"undo", "undid"}
    /\ Fault
    /\ Ends(c)
    /\ UNCHANGED <<follows, subs, outbox, accepts, remote, denied, undone, crashes>>

-----------------------------------------------------------------------------
(* The remote side, and what it sends *)

\* A Follow arrives; some instances never send the Accept.
RemoteFollowed(c, m) ==
    /\ <<c, m>> \in outbox
    /\ outbox' = outbox \ {<<c, m>>}
    /\ remote' = remote \cup {m}
    /\ \E answers \in BOOLEAN : accepts' = IF answers THEN accepts \cup {c} ELSE accepts
    /\ UNCHANGED <<follows, subs, calls, denied, undone, faults, crashes>>

\* Variant: the channels that share the Follow are left waiting.
ActivateFollow(m) == follows' = [follows EXCEPT ![m].status = "accepted"] /\ UNCHANGED subs

\* mark_bridge_actor_follow_accepted: the row and every waiting channel.
Activate(m) ==
    /\ follows' = [follows EXCEPT ![m].status = "accepted"]
    /\ subs' = [ch \in Channels |->
           IF ch \in Subscribers(m) /\ subs[ch].status = "pending"
           THEN [subs[ch] EXCEPT !.status = "accepted"] ELSE subs[ch]]

\* Accept(Follow): found by its Follow's id; unknown, accepted before or from a
\* denied instance, it is skipped, and its receipt keeps it from coming again.
HandleAccept(c) ==
    LET waiting == {m \in Communities \ denied : Has(m, "pending") /\ follows[m].follow = c}
    IN  /\ c \in accepts
        /\ accepts' = accepts \ {c}
        /\ IF waiting = {} THEN UNCHANGED <<follows, subs>>
           ELSE \E m \in waiting : Activate(m)
        /\ UNCHANGED <<calls, outbox, remote, denied, undone, faults, crashes>>

\* _maybe_implicit_accept: content of the community while its follow waits.
ImplicitAccept(m) ==
    /\ m \in remote \ denied
    /\ Has(m, "pending")
    /\ Activate(m)
    /\ UNCHANGED <<calls, outbox, accepts, remote, denied, undone, faults, crashes>>

\* The operator denies an instance.
Deny(m) ==
    /\ denied' = denied \cup {m}
    /\ UNCHANGED <<follows, subs, calls, outbox, accepts, remote, undone, faults,
                   crashes>>

-----------------------------------------------------------------------------
Crash == crashes < MaxCrashes /\ crashes' = crashes + 1

AllEnd == calls' = [c \in Commands |->
              IF calls[c].at = "ready" THEN calls[c] ELSE [at |-> "done"]]

\* Every start migrates: the follow rows are deleted, and the channels keep
\* rows that wait for a Follow nobody remembers.
Restart ==
    /\ follows' = [m \in Communities |-> NoRow]
    /\ subs' = [ch \in Channels |->
           IF subs[ch] = NoRow THEN NoRow
           ELSE [subs[ch] EXCEPT !.status = "pending", !.follow = NoFollow]]

BridgeCrash ==
    /\ Crash
    /\ AllEnd
    /\ Restart
    /\ UNCHANGED <<outbox, accepts, remote, denied, undone, faults>>

-----------------------------------------------------------------------------
Gateway(c) == GatewayFollows(c) \/ GatewayUndoes(c)
Resume(c) == FollowAnswered(c) \/ UndoAnswered(c)

Next ==
    \/ \E c \in Commands :
          \/ \E ch \in Channels, m \in Communities :
                SubscribeShared(c, ch, m) \/ SubscribeFresh(c, ch, m)
          \/ \E ch \in Channels :
                \/ UnsubscribeLocally(c, ch)
                \/ UnsubscribeLast(c, ch)
                \/ UnsubscribeRefused(c, ch)
          \/ Gateway(c)
          \/ Resume(c)
          \/ FollowFails(c)
          \/ UndoFails(c)
          \/ \E m \in Communities : RemoteFollowed(c, m)
          \/ HandleAccept(c)
    \/ \E m \in Communities : ImplicitAccept(m) \/ Deny(m)
    \/ BridgeCrash

\* Awaited calls return, queued Follows arrive, Accepts are handled, and a
\* community the bridge follows has content now and then.
Fairness ==
    /\ \A c \in Commands :
          /\ WF_vars(Gateway(c) \/ Resume(c))
          /\ \A m \in Communities : WF_vars(RemoteFollowed(c, m))
          /\ WF_vars(HandleAccept(c))
    /\ \A m \in Communities : WF_vars(ImplicitAccept(m))

Spec == Init /\ [][Next]_vars
FairSpec == Spec /\ Fairness

-----------------------------------------------------------------------------
(* Properties *)

\* A channel row that waits or routes is backed by the follow row of its
\* community, in the same state and with the same Follow, whatever other
\* commands, Accepts and crashes came between its reads and its writes
\* (subscribe.py:233-305), unless an Undo or a restart took that Follow away.
RoutedIsFollowed ==
    \A ch \in Channels :
        \/ subs[ch] = NoRow
        \/ subs[ch].follow = NoFollow
        \/ subs[ch].follow \in undone
        \/ follows[subs[ch].community] = [status |-> subs[ch].status,
                                          follow |-> subs[ch].follow]

\* A channel does not wait for ever: its Accept may overtake the row it is for
\* and be skipped, and yet the community's content activates it, unless the
\* instance is denied, an Undo of the shared Follow was called for or a restart
\* forgot it.
Waits(ch) == subs[ch] # NoRow /\ subs[ch].status = "pending"
PendingEnds ==
    \A ch \in Channels :
        Waits(ch) ~> \/ ~Waits(ch)
                     \/ subs[ch].community \in denied
                     \/ subs[ch].follow \in undone \cup {NoFollow}
=============================================================================
