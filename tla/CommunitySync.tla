--------------------------- MODULE CommunitySync ---------------------------
(***************************************************************************)
(* One remote community shared by several channels: a post and comments    *)
(* to it come from the remote side or from a member's message in one of    *)
(* the channels, and are copied to the others (community_sync/).           *)
(*                                                                         *)
(* The tables: a thread group per post and a message group per comment,    *)
(* with one delivery row per channel.  Nothing makes the group of a remote *)
(* object unique, so an object has a sequence of groups, of which lookups  *)
(* find the first.  A handler is a coroutine of the one event loop; what   *)
(* it read before an await may be old after it: the group, the channels    *)
(* that have their thread, the accepted subscriptions.  The gateway's      *)
(* queue waits for the answer to one remote event before it sends the      *)
(* next, unless the request breaks; it repeats none, whatever the answer,  *)
(* but the remote side may.  Discord's events wait for nobody.             *)
(*                                                                         *)
(* A delivery is <<op, object, n>>: Create and its Announce by the         *)
(* community are two deliveries of one remote object.                      *)
(***************************************************************************)
EXTENDS Naturals, Sequences, FiniteSets

CONSTANTS
    Channels,       \* Discord forum channels
    Post,           \* the post
    Comments,       \* comments to it
    Remote,         \* the source of remote objects
    Sources,        \* where objects may come from: Remote, channels
    Deliveries,     \* the events that may happen, as <<op, object, n>>
    Nothing,        \* the gateway's queue waits for no answer
    MaxTroubles     \* bound: changed subscriptions, failed calls, broken
                    \*        requests, redeliveries and crashes

Objects == Comments \cup {Post}
Ops == {"create", "update", "delete"}

CommunitySyncAssumption ==
    /\ Post \notin Comments
    /\ Remote \notin Channels
    /\ Sources \subseteq Channels \cup {Remote}
    /\ Deliveries \subseteq Ops \X Objects \X Nat
    /\ IsFiniteSet(Deliveries)
    /\ Nothing \notin Deliveries
    /\ MaxTroubles \in Nat

VARIABLES
    source,     \* object -> where it comes from
    subs,       \* channel -> status of its subscription row, "stale" when it is
                \*            pending without a follow row
    groups,     \* object -> its groups, oldest first: thread is the thread group
                \*           of a comment's, shown what each recorded copy shows
    made,       \* history: object -> channel -> copies that Discord has
    jobs,       \* delivery -> where its handler is
    status,     \* delivery -> receipt or outcome
    open,       \* the remote delivery whose answer the gateway's queue waits for
    churn, faults, broken, crashes

vars == <<source, subs, groups, made, jobs, status, open, churn, faults, broken, crashes>>

Idle == [at |-> "idle", group |-> 0, todo |-> {}, sent |-> {}]
At(stage, g, todo) == [Idle EXCEPT !.at = stage, !.group = g, !.todo = todo]
Blank == [ch \in Channels |-> "none"]

TypeOK ==
    /\ source \in [Objects -> Sources]
    /\ subs \in [Channels -> {"none", "pending", "stale", "accepted"}]
    /\ \A o \in Objects : \A i \in DOMAIN groups[o] :
          /\ groups[o][i].thread \in 0 .. Len(groups[Post])
          /\ groups[o][i].shown \in [Channels -> Ops \cup {"none"}]
    /\ made \in [Objects -> [Channels -> Nat]]
    /\ \A d \in Deliveries :
          /\ jobs[d].at \in {"idle", "waiting", "fetching", "filling", "copying",
                             "publishing", "mirroring", "changing"}
          /\ jobs[d].group \in 0 .. Len(groups[Post]) + Len(groups[d[2]])
          /\ {jobs[d].todo, jobs[d].sent} \subseteq SUBSET Channels
    /\ status \in [Deliveries -> {"none", "in_progress", "processed", "skipped",
                                  "deferred", "failed"}]
    /\ open \in Deliveries \cup {Nothing}
    /\ {churn, faults, broken, crashes} \subseteq Nat
    /\ churn + faults + broken + crashes <= MaxTroubles

Init ==
    /\ source \in [Objects -> Sources]
    /\ subs = [ch \in Channels |-> "accepted"]
    /\ groups = [o \in Objects |-> <<>>]
    /\ made = [o \in Objects |-> [ch \in Channels |-> 0]]
    /\ jobs = [d \in Deliveries |-> Idle]
    /\ status = [d \in Deliveries |-> "none"]
    /\ open = Nothing
    /\ churn = 0 /\ faults = 0 /\ broken = 0 /\ crashes = 0

Trouble == churn + faults + broken + crashes < MaxTroubles
Fault == Trouble /\ faults' = faults + 1

FromRemote(d) == source[d[2]] = Remote
Accepted == {ch \in Channels : subs[ch] = "accepted"}
Known(o) == groups[o] # <<>>
Shown(o, i) == {ch \in Channels : groups[o][i].shown[ch] # "none"}
Group(thread, shown) == [thread |-> thread, shown |-> shown]

-----------------------------------------------------------------------------
(* Subscriptions change: RemoteSubscription says how *)

\* One Accept, or content of the community, ends the waiting of all channels.
Activated == [ch \in Channels |-> IF subs[ch] = "none" THEN "none" ELSE "accepted"]

Resubscribe(ch) ==
    /\ Trouble /\ churn' = churn + 1
    /\ \/ subs[ch] = "none" /\ subs' = [subs EXCEPT ![ch] = "pending"]
       \/ subs[ch] = "none" /\ Accepted # {} /\ subs' = [subs EXCEPT ![ch] = "accepted"]
       \/ subs[ch] = "pending" /\ subs' = Activated
       \/ subs[ch] = "accepted" /\ subs' = [subs EXCEPT ![ch] = "none"]
    /\ UNCHANGED <<source, groups, made, jobs, status, open, faults, broken, crashes>>

-----------------------------------------------------------------------------
(* Receipts and the gateway's queue *)

\* A delivery may be handled: Discord tells once; the queue has one request at
\* a time, and a remote delivery that failed is handled anew when it is sent again.
Begins(d) ==
    /\ jobs[d] = Idle
    /\ IF FromRemote(d) THEN status[d] \in {"none", "failed"} /\ open = Nothing
                        ELSE status[d] = "none" /\ d[3] = 1

Start(d, job) ==
    /\ jobs' = [jobs EXCEPT ![d] = job]
    /\ status' = [status EXCEPT ![d] = "in_progress"]
    /\ open' = IF FromRemote(d) THEN d ELSE open

Moves(d, job) == jobs' = [jobs EXCEPT ![d] = job] /\ UNCHANGED <<status, open>>

Finish(d, outcome) ==
    /\ jobs' = [jobs EXCEPT ![d] = Idle]
    /\ status' = [status EXCEPT ![d] = outcome]
    /\ open' = IF open = d THEN Nothing ELSE open

\* The request breaks while the handler runs on.
Break(d) ==
    /\ open = d
    /\ Trouble /\ broken' = broken + 1
    /\ open' = Nothing
    /\ UNCHANGED <<source, subs, groups, made, jobs, status, churn, faults, crashes>>

\* A deferred delivery, too, is handled anew when the remote server sends it again.
Redeliver(d) ==
    /\ status[d] = "deferred"
    /\ status' = [status EXCEPT ![d] = "failed"]
    /\ UNCHANGED <<source, subs, groups, made, jobs, open, churn, faults, broken, crashes>>

-----------------------------------------------------------------------------
(* Remote creates *)

\* _maybe_implicit_accept: a follow row that is pending is accepted.
Promoted == IF \E ch \in Channels : subs[ch] = "pending" THEN Activated ELSE subs
Promote == subs' = Promoted
Subscribed == {ch \in Channels : Promoted[ch] = "accepted"}

InboundCreate(d) == Begins(d) /\ d[1] = "create" /\ FromRemote(d) /\ Promote

\* The object has its group, or nobody subscribes and no thread is there for it.
SkipCreate(d) ==
    /\ InboundCreate(d)
    /\ \/ Known(d[2])
       \/ Subscribed = {} /\ (d[2] = Post \/ ~Known(Post))
    /\ Finish(d, "skipped")
    /\ UNCHANGED <<source, groups, made, churn, faults, broken, crashes>>

\* handle_inbound_post: the accepted channels are read, then the bot is awaited.
InboundPost(d) ==
    /\ InboundCreate(d)
    /\ d[2] = Post /\ ~Known(Post) /\ Subscribed # {}
    /\ Start(d, At("waiting", 0, Subscribed))
    /\ UNCHANGED <<source, groups, made, churn, faults, broken, crashes>>

\* Variant: a post that has its group needs none.
NeedsGroup == Subscribed # {} /\ ~Known(Post)

\* needs_backfill: an accepted channel, and no thread in it.
NeedsBackfill == Subscribed \ (IF Known(Post) THEN Shown(Post, 1) ELSE {}) # {}

\* The remote side can comment on its own post and on one that was published.
Public ==
    LET d == <<"create", Post, 1>>
    IN  \/ source[Post] = Remote
        \/ d \in Deliveries /\ status[d] \notin {"none", "skipped"} /\ jobs[d].at # "publishing"

\* Variant: whether the comment has a group is not looked at.
InboundCommentAnew(d) ==
    /\ InboundCreate(d)
    /\ d[2] \in Comments /\ Public
    /\ Known(Post) \/ Subscribed # {}
    /\ Start(d, IF NeedsBackfill THEN At("fetching", 0, {}) ELSE At("waiting", 1, {}))
    /\ UNCHANGED <<source, groups, made, churn, faults, broken, crashes>>

\* handle_inbound_comment: fetch the post first where its thread is missing.
InboundComment(d) ==
    /\ InboundCreate(d)
    /\ d[2] \in Comments /\ Public /\ ~Known(d[2])
    /\ Known(Post) \/ Subscribed # {}
    /\ Start(d, IF NeedsBackfill THEN At("fetching", 0, {}) ELSE At("waiting", 1, {}))
    /\ UNCHANGED <<source, groups, made, churn, faults, broken, crashes>>

\* The post was fetched: get or create its group; which channels have a thread
\* and which are accepted is read before the bot is awaited.
Fetched(d) ==
    /\ jobs[d].at = "fetching"
    /\ groups' = IF Known(Post) THEN groups
                 ELSE [groups EXCEPT ![Post] = <<Group(0, Blank)>>]
    /\ Moves(d, At("filling", 1, IF Known(Post) THEN Accepted \ Shown(Post, 1)
                                                ELSE Accepted))
    /\ UNCHANGED <<source, subs, made, churn, faults, broken, crashes>>

FetchFails(d) ==
    /\ jobs[d].at = "fetching"
    /\ Fault
    /\ Finish(d, "deferred")
    /\ UNCHANGED <<source, subs, groups, made, churn, broken, crashes>>

\* The bot is ready: the object's group is created, and the copies begin.  A
\* comment goes to the threads that its thread group has now.
Ready(d) ==
    LET o == d[2]
        g == jobs[d].group
    IN  /\ jobs[d].at = "waiting" \/ (jobs[d].at = "filling" /\ jobs[d].todo = {})
        /\ groups' = [groups EXCEPT ![o] = Append(@, Group(g, Blank))]
        /\ Moves(d, At("copying", Len(groups[o]) + 1,
                       IF o = Post THEN jobs[d].todo ELSE Shown(Post, g)))
        /\ UNCHANGED <<source, subs, made, churn, faults, broken, crashes>>

\* The object a handler makes copies of, and the group they are recorded in.
Target(d) == IF jobs[d].at = "filling" THEN Post ELSE d[2]
Calls(d, ch) == jobs[d].at \in {"filling", "copying"} /\ ch \in jobs[d].todo
Done(d, ch) == [jobs[d] EXCEPT !.todo = @ \ {ch}]
Make(o, ch) == made' = [made EXCEPT ![o][ch] = @ + 1]

\* A backfill logs what goes wrong with one channel; the other handlers raise.
Raises(d, ch) ==
    IF jobs[d].at = "filling" THEN Moves(d, Done(d, ch)) ELSE Finish(d, "failed")

\* The call for one channel answers; the unique column of the delivery rows
\* refuses a second row of the group for the channel.
Copied(d, ch) ==
    LET o == Target(d)
        g == jobs[d].group
    IN  /\ Calls(d, ch)
        /\ Make(o, ch)
        /\ IF ch \in Shown(o, g)
           THEN Raises(d, ch) /\ UNCHANGED groups
           ELSE /\ groups' = [groups EXCEPT ![o][g].shown[ch] = "create"]
                /\ Moves(d, Done(d, ch))
        /\ UNCHANGED <<source, subs, churn, faults, broken, crashes>>

\* It raises, perhaps after Discord acted.
CopyFails(d, ch) ==
    /\ Calls(d, ch)
    /\ Fault
    /\ Make(Target(d), ch) \/ UNCHANGED made
    /\ Raises(d, ch)
    /\ UNCHANGED <<source, subs, groups, churn, broken, crashes>>

CopiesDone(d) ==
    /\ jobs[d].at = "copying" /\ jobs[d].todo = {}
    /\ Finish(d, "processed")
    /\ UNCHANGED <<source, subs, groups, made, churn, faults, broken, crashes>>

-----------------------------------------------------------------------------
(* A member's thread or message *)

\* Published first: needs an accepted channel and, for a message, a thread of
\* the post in it; anything else is ignored.
MemberPosts(d) ==
    LET ch == source[d[2]]
    IN  /\ Begins(d)
        /\ d[1] = "create" /\ ~FromRemote(d)
        /\ made' = [made EXCEPT ![d[2]][ch] = 1]
        /\ IF subs[ch] = "accepted"
              /\ (d[2] = Post \/ \E g \in DOMAIN groups[Post] : ch \in Shown(Post, g))
           THEN Start(d, At("publishing", 0, {}))
           ELSE Finish(d, "skipped")
        /\ UNCHANGED <<source, subs, groups, churn, faults, broken, crashes>>

\* Published: the group with the source's row, and the other channels of any
\* status, or the other threads of the message's own thread group.
Published(d) ==
    LET o == d[2]
        ch == source[o]
        mine == [Blank EXCEPT ![ch] = "create"]
    IN  /\ jobs[d].at = "publishing"
        /\ IF o = Post /\ subs[ch] = "none"
           THEN Finish(d, "failed") /\ UNCHANGED groups
           ELSE \E g \in IF o = Post THEN {0}
                         ELSE {i \in DOMAIN groups[Post] : ch \in Shown(Post, i)} :
                   /\ groups' = [groups EXCEPT ![o] = Append(@, Group(g, mine))]
                   /\ Moves(d, At("mirroring", Len(groups[o]) + 1,
                          (IF o = Post THEN {c \in Channels : subs[c] # "none"}
                                       ELSE Shown(Post, g)) \ {ch}))
        /\ UNCHANGED <<source, subs, made, churn, faults, broken, crashes>>

PublishFails(d) ==
    /\ jobs[d].at = "publishing"
    /\ Fault
    /\ Finish(d, "failed")
    /\ UNCHANGED <<source, subs, groups, made, churn, broken, crashes>>

\* One mirror is sent, unless its channel has left; its row has to wait.
Mirrored(d, ch) ==
    /\ jobs[d].at = "mirroring" /\ ch \in jobs[d].todo
    /\ IF subs[ch] = "none" THEN Moves(d, Done(d, ch)) /\ UNCHANGED made
       ELSE /\ Make(d[2], ch)
            /\ Moves(d, [Done(d, ch) EXCEPT !.sent = @ \cup {ch}])
    /\ UNCHANGED <<source, subs, groups, churn, faults, broken, crashes>>

MirrorFails(d, ch) ==
    /\ jobs[d].at = "mirroring" /\ ch \in jobs[d].todo /\ subs[ch] # "none"
    /\ Fault
    /\ Make(d[2], ch) \/ UNCHANGED made
    /\ Moves(d, Done(d, ch))
    /\ UNCHANGED <<source, subs, groups, churn, broken, crashes>>

\* All mirrors are sent: their rows, one by one, until one is refused because
\* a backfill gave its channel a thread meanwhile.
RecordMirrors(d) ==
    LET o == d[2]
        g == jobs[d].group
        record(set) == groups' = [groups EXCEPT ![o][g].shown =
                           [ch \in Channels |-> IF ch \in set THEN "create" ELSE @[ch]]]
    IN  /\ jobs[d].at = "mirroring" /\ jobs[d].todo = {}
        /\ IF jobs[d].sent \cap Shown(o, g) = {}
           THEN record(jobs[d].sent) /\ Finish(d, "processed")
           ELSE /\ \E set \in SUBSET (jobs[d].sent \ Shown(o, g)) : record(set)
                /\ Finish(d, "failed")
        /\ UNCHANGED <<source, subs, made, churn, faults, broken, crashes>>

-----------------------------------------------------------------------------
(* Edits and deletions *)

\* A remote change of what has a group, a member's of a comment that has one.
Change(d) ==
    LET o == d[2]
    IN  /\ Begins(d)
        /\ d[1] \in {"update", "delete"}
        /\ FromRemote(d) \/ (o \in Comments /\ status[<<"create", o, 1>>] # "none")
        /\ IF Known(o) /\ (Shown(o, 1) # {} \/ d[1] = "delete")
           THEN Start(d, At("changing", 1, Shown(o, 1) \ {source[o]}))
           ELSE Finish(d, "skipped")
        /\ UNCHANGED <<source, subs, groups, made, churn, faults, broken, crashes>>

\* One copy is changed, unless a member's change meets a channel that has left.
Changed(d, ch) ==
    /\ jobs[d].at = "changing" /\ ch \in jobs[d].todo
    /\ IF ~FromRemote(d) /\ subs[ch] = "none" THEN UNCHANGED groups
       ELSE groups' = [groups EXCEPT ![d[2]][1].shown[ch] = d[1]]
    /\ Moves(d, Done(d, ch))
    /\ UNCHANGED <<source, subs, made, churn, faults, broken, crashes>>

ChangeFails(d, ch) ==
    /\ jobs[d].at = "changing" /\ ch \in jobs[d].todo
    /\ Fault
    /\ Moves(d, Done(d, ch))
    /\ UNCHANGED <<source, subs, groups, made, churn, broken, crashes>>

ChangesDone(d) ==
    /\ jobs[d].at = "changing" /\ jobs[d].todo = {}
    /\ Finish(d, "processed")
    /\ UNCHANGED <<source, subs, groups, made, churn, faults, broken, crashes>>

-----------------------------------------------------------------------------
\* Every handler dies; receipts in progress stay that way, and a mirror that
\* was sent keeps no row.  The start that follows migrates, which deletes the
\* follow row and makes the channels wait.
Crash ==
    /\ Trouble /\ crashes' = crashes + 1
    /\ jobs' = [d \in Deliveries |-> Idle]
    /\ open' = Nothing
    /\ subs' = [ch \in Channels |-> IF subs[ch] = "none" THEN "none" ELSE "stale"]
    /\ UNCHANGED <<source, groups, made, status, churn, faults, broken>>

-----------------------------------------------------------------------------
Receive(d) == SkipCreate(d) \/ InboundPost(d) \/ InboundComment(d) \/ MemberPosts(d) \/ Change(d)

Proceed(d) ==
    \/ Fetched(d) \/ Ready(d) \/ CopiesDone(d)
    \/ Published(d) \/ RecordMirrors(d) \/ ChangesDone(d)
    \/ \E ch \in Channels : Copied(d, ch) \/ Mirrored(d, ch) \/ Changed(d, ch)

Fails(d) ==
    \/ Break(d) \/ Redeliver(d) \/ FetchFails(d) \/ PublishFails(d)
    \/ \E ch \in Channels : CopyFails(d, ch) \/ MirrorFails(d, ch) \/ ChangeFails(d, ch)

Next ==
    \/ \E d \in Deliveries : Receive(d) \/ Proceed(d) \/ Fails(d)
    \/ \E ch \in Channels : Resubscribe(ch)
    \/ Crash

Spec == Init /\ [][Next]_vars

-----------------------------------------------------------------------------
(* Properties *)

\* A remote comment that was handled is in every accepted channel, but as many
\* as calls failed: whatever half-delivered post, other comment's backfill or
\* member's mirrors it met, the backfill before it closes the gaps and the
\* comment goes to the threads there are then (runtime.py:435-450, 505-532).
CommentsReachAll ==
    \A d \in Deliveries :
        /\ d[1] = "create" /\ d[2] \in Comments
        /\ FromRemote(d) /\ status[d] = "processed" /\ churn = 0
        => Cardinality({ch \in Accepted : made[d[2]][ch] = 0}) <= faults

\* No failed attempt, redelivery, Announce or crash posts a comment once more, not
\* even after half of its copies or mirrors that were never recorded: a channel's
\* second copy takes a request that broke and let a handler begin before an
\* earlier one of the same comment had made its group (runtime.py:408-429, 505).
RetriesAddNoCopy == \A o \in Comments, ch \in Channels : made[o][ch] <= 1 + broken
=============================================================================
