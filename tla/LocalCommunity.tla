--------------------------- MODULE LocalCommunity ---------------------------
(***************************************************************************)
(* One locally hosted community: a post and a chain of nested replies are  *)
(* created, edited and deleted by remote followers, in the host forum or   *)
(* in a local subscriber forum, copied to the other Discord forums and     *)
(* relayed to the other accepted remote followers (local_communities/).    *)
(*                                                                         *)
(* A handler is a coroutine of the one event loop: it reads the target     *)
(* list of a pass once, awaits one Discord call per target, stores the     *)
(* surface row of a copy when the call has answered, and ends, for remote  *)
(* content, with one awaited gateway call for the whole relay.  Other      *)
(* handlers run at every await, those of the same object too: a Create     *)
(* that also comes inside an Announce, or under a new id because it has    *)
(* none, is another delivery, and only its own receipt stops a delivery.   *)
(*                                                                         *)
(* An event is a delivery <<op, object, n>>.  Objects are numbered: 0 is   *)
(* the post and n + 1 replies to n.  The author's own Discord message is   *)
(* not a copy: its surface is recorded, what it shows is the author's      *)
(* business.                                                               *)
(***************************************************************************)
EXTENDS Naturals, Sequences, SequencesExt, FiniteSets

CONSTANTS
    Host,           \* the forum that hosts the community
    Subs,           \* forums that may be local subscribers
    Remotes,        \* remote actors that may follow the community
    Sources,        \* the forum or remote actor that each object comes from,
                    \*        in the cases looked at
    Depth,          \* the last reply of the chain
    Events,         \* the events that may happen, as <<op, object, n>>
    MaxEvents,      \* bound: how many of them do happen
    MaxTroubles     \* bound: subscriptions and follows that come or go, failed
                    \*        calls, and crashes

Objects == 0 .. Depth
Ops == {"create", "update", "delete"}
Forums == {Host} \cup Subs

LocalCommunityAssumption ==
    /\ Host \notin Subs
    /\ IsFiniteSet(Subs)
    /\ Forums \cap Remotes = {}
    /\ Sources \subseteq [Objects -> Forums \cup Remotes]
    /\ Depth \in Nat
    /\ Events \subseteq Ops \X Objects \X Nat
    /\ IsFiniteSet(Events)
    /\ MaxEvents \in Nat
    /\ MaxTroubles \in Nat

VARIABLES
    source,         \* object -> the forum or the remote actor it comes from
    subscribers,    \* forums with an active local_subscribers row, oldest first
    followers,      \* remote actors with an accepted remote_subscribers row
    rows,           \* objects with a canonical thread or message row
    surfaces,       \* object -> its surface rows, oldest first: the forum, and
                    \*           the op whose text the recorded message shows
    detached,       \* surfaces whose local_subscriber_id is a deleted row's
    relay,          \* op, object and follower -> status of the relay delivery
    received,       \* op, object and follower that a relay call reached
    jobs,           \* event -> where its handler is
    status,         \* event -> its receipt or outcome
    orphans,        \* history: Discord messages that no surface row records
    lost,           \* history: creating Discord calls whose answer was lost
    overlaps,       \* history: creating calls begun while another handler's call
                    \*          for the same copy was under way
    churn, faults, crashes

vars == <<source, subscribers, followers, rows, surfaces, detached, relay,
          received, jobs, status, orphans, lost, overlaps, churn, faults, crashes>>

Relays == Ops \X Objects \X Remotes
Idle == [stage |-> "idle", todo |-> <<>>, batch |-> {}, ends |-> "processed"]
At(stage) == [Idle EXCEPT !.stage = stage]
Pass(todo, ends) == [Idle EXCEPT !.stage = "fanout", !.todo = todo, !.ends = ends]

Surface == [forum : Forums, shows : Ops]
Job == [stage : {"idle", "publishing", "hosting", "fanout", "calling", "relaying"},
        todo  : Seq(Forums),
        batch : SUBSET Remotes,
        ends  : {"processed", "skipped"}]

TypeOK ==
    /\ source \in Sources
    /\ subscribers \in Seq(Subs)
    /\ followers \subseteq Remotes
    /\ rows \subseteq Objects
    /\ surfaces \in [Objects -> Seq(Surface)]
    /\ detached \subseteq Objects \X Subs
    /\ relay \in [Relays -> {"none", "pending", "delivered", "failed"}]
    /\ received \subseteq Relays
    /\ jobs \in [Events -> Job]
    /\ status \in [Events -> {"none", "in_progress", "processed", "skipped", "failed"}]
    /\ {orphans, lost, overlaps} \subseteq Nat
    /\ {churn, faults, crashes} \subseteq Nat
    /\ churn + faults + crashes <= MaxTroubles

Init ==
    /\ source \in Sources
    /\ \E S \in SUBSET Subs : /\ {source[o] : o \in Objects} \cap Subs \subseteq S
                            /\ subscribers \in SetToSeqs(S)
    /\ followers = Remotes
    /\ rows = {}
    /\ surfaces = [o \in Objects |-> <<>>]
    /\ detached = {}
    /\ relay = [x \in Relays |-> "none"]
    /\ received = {}
    /\ jobs = [j \in Events |-> Idle]
    /\ status = [j \in Events |-> "none"]
    /\ orphans = 0 /\ lost = 0 /\ overlaps = 0
    /\ churn = 0 /\ faults = 0 /\ crashes = 0

Trouble == churn + faults + crashes < MaxTroubles
Fault == Trouble /\ faults' = faults + 1
Churn == Trouble /\ churn' = churn + 1
Inbound(o) == source[o] \in Remotes
Listed(o) == [i \in DOMAIN surfaces[o] |-> surfaces[o][i].forum]
Has(o, f) == Contains(Listed(o), f)
Active(f) == f = Host \/ Contains(subscribers, f)

Creates(o) == {j \in Events : j[1] = "create" /\ j[2] = o}

\* on_thread_create: one handler of a thread at a time, and none any more once
\* this session has published it.
ThreadIsFree(j) ==
    \A k \in Creates(j[2]) \ {j} :
        jobs[k] = Idle /\ (status[k] = "processed" => crashes > 0)

\* Deliveries of an event are numbered in the order in which they come.
IsNext(j) ==
    /\ \A k \in Events : k[1] = j[1] /\ k[2] = j[2] /\ k[3] < j[3] => status[k] # "none"
    /\ Cardinality({k \in Events : status[k] # "none"}) < MaxEvents

\* Delivery j may be handled.  Its receipt refuses it while it is in progress
\* and when it has ended, unless it failed; it looks at no other delivery.
Begins(j) ==
    /\ jobs[j] = Idle
    /\ \/ status[j] = "none" /\ IsNext(j)
       \/ status[j] = "failed" /\ Inbound(j[2])
    /\ j[1] = "create" /\ j[2] = 0 /\ ~Inbound(0) => ThreadIsFree(j)

Start(j, job) ==
    /\ jobs' = [jobs EXCEPT ![j] = job]
    /\ status' = [status EXCEPT ![j] = "in_progress"]

Finish(j, outcome) ==
    /\ jobs' = [jobs EXCEPT ![j] = Idle]
    /\ status' = [status EXCEPT ![j] = outcome]

Moves(j, job) == jobs' = [jobs EXCEPT ![j] = job] /\ UNCHANGED status

\* A list that holds f once at most, without it.
Without(list, f) ==
    IF Contains(list, f) THEN RemoveAt(list, CHOOSE i \in DOMAIN list : list[i] = f)
                         ELSE list

\* _select_targets, with the host when a subscriber forum is the source.
SelectTargets(o) ==
    (IF source[o] \in Subs THEN <<Host>> ELSE <<>>) \o Without(subscribers, source[o])

\* A surface row of forum f, and what a known surface shows from now on.
Record(o, f) == surfaces' = [surfaces EXCEPT ![o] = Append(@, [forum |-> f, shows |-> "create"])]
Show(o, f, op) ==
    surfaces' = [surfaces EXCEPT ![o] =
        [i \in DOMAIN @ |-> IF @[i].forum = f THEN [@[i] EXCEPT !.shows = op] ELSE @[i]]]

Calling(j) == jobs[j].stage = "calling"

\* Handler j awaits the call that makes its object's copy in forum f.
Makes(j, f) ==
    /\ j[1] = "create"
    /\ \/ jobs[j].stage = "hosting" /\ f = Host
       \/ Calling(j) /\ f = Head(jobs[j].todo)

\* Handler j begins to await such a call.
CountOverlap(j, f) ==
    overlaps' = IF \E k \in Events : k[2] = j[2] /\ Makes(k, f) THEN overlaps + 1
                                                             ELSE overlaps

Membership == <<source, subscribers, followers, detached, churn>>
Relaying == <<relay, received>>
Duplicates == <<orphans, lost, overlaps>>

-----------------------------------------------------------------------------
(* Members come and go *)

Join(f) ==
    /\ ~Contains(subscribers, f)
    /\ Churn
    /\ subscribers' = Append(subscribers, f)
    /\ UNCHANGED <<source, followers, rows, surfaces, detached, relay, received, jobs,
                   status, Duplicates, faults, crashes>>

\* The row goes; the surfaces it selected, also those still to come, keep its id.
Leave(f) ==
    /\ Contains(subscribers, f)
    /\ Churn
    /\ subscribers' = Without(subscribers, f)
    /\ detached' = detached \cup
           {<<o, f>> : o \in {n \in Objects : \/ Has(n, f)
                                              \/ source[n] = f
                                              \/ \E j \in Creates(n) : Contains(jobs[j].todo, f)}}
    /\ UNCHANGED <<source, followers, rows, surfaces, relay, received, jobs, status,
                   Duplicates, faults, crashes>>

\* A Follow or an Undo(Follow) of a remote actor was handled.
Refollow(r) ==
    /\ Churn
    /\ followers' = IF r \in followers THEN followers \ {r} ELSE followers \cup {r}
    /\ UNCHANGED <<source, subscribers, rows, surfaces, detached, relay, received, jobs,
                   status, Duplicates, faults, crashes>>

-----------------------------------------------------------------------------
(* Creates *)

\* The object is known: missing copies and relays are made up for, no more.
Repair(j) ==
    /\ Begins(j)
    /\ j[1] = "create"
    /\ IF Inbound(j[2]) THEN j[2] \in rows ELSE Has(j[2], source[j[2]])
    /\ Start(j, Pass(SelectTargets(j[2]), "skipped"))
    /\ UNCHANGED <<Membership, rows, surfaces, Relaying, Duplicates, faults, crashes>>

\* A remote object that is not known yet.
Arrives(j) == Begins(j) /\ j[1] = "create" /\ Inbound(j[2]) /\ j[2] \notin rows

\* It is refused for good: its author does not follow, or the post is not mapped
\* to the host forum.
RefuseInbound(j) ==
    /\ Arrives(j)
    /\ source[j[2]] \notin followers \/ (j[2] > 0 /\ ~(0 \in rows /\ Has(0, Host)))
    /\ Finish(j, "skipped")
    /\ UNCHANGED <<Membership, rows, surfaces, Relaying, Duplicates, faults, crashes>>

\* It goes to the host forum first.
CreateInbound(j) ==
    /\ Arrives(j)
    /\ source[j[2]] \in followers
    /\ j[2] > 0 => 0 \in rows /\ Has(0, Host)
    /\ Start(j, At("hosting"))
    /\ CountOverlap(j, Host)
    /\ UNCHANGED <<Membership, rows, surfaces, Relaying, orphans, lost, faults, crashes>>

\* A member posts: below the copy of the parent that its forum shows.
CreateDiscord(j) ==
    LET o == j[2]
        f == source[o]
    IN  /\ Begins(j)
        /\ j[1] = "create" /\ ~Inbound(o) /\ ~Has(o, f)
        /\ Active(f)
        /\ o > 0 => Has(0, f) /\ Has(o - 1, f)
        /\ Start(j, At("publishing"))
        /\ UNCHANGED <<Membership, rows, surfaces, Relaying, Duplicates, faults, crashes>>

\* The awaited call has answered: published, or posted in the host forum.
Ready(j) == jobs[j].stage \in {"publishing", "hosting"}

\* Variant: the first surface is recorded at the author, wherever that is.
StoredAtAuthor(j) ==
    /\ Ready(j)
    /\ j[2] \notin rows
    /\ rows' = rows \cup {j[2]}
    /\ Record(j[2], source[j[2]])
    /\ Moves(j, Pass(SelectTargets(j[2]), "processed"))
    /\ UNCHANGED <<Membership, Relaying, Duplicates, faults, crashes>>

\* The canonical row and the first surface are stored, and the target list of
\* the pass is read.
Stored(j) ==
    /\ Ready(j)
    /\ j[2] \notin rows
    /\ rows' = rows \cup {j[2]}
    /\ Record(j[2], IF Inbound(j[2]) THEN Host ELSE source[j[2]])
    /\ Moves(j, Pass(SelectTargets(j[2]), "processed"))
    /\ UNCHANGED <<Membership, Relaying, Duplicates, faults, crashes>>

\* Another handler has stored the object meanwhile: the unique column refuses
\* the row, and the second message in the host forum stays behind.
Conflicts(j) ==
    /\ Ready(j)
    /\ j[2] \in rows
    /\ orphans' = IF Inbound(j[2]) THEN orphans + 1 ELSE orphans
    /\ Finish(j, "failed")
    /\ UNCHANGED <<Membership, rows, surfaces, Relaying, lost, overlaps, faults, crashes>>

\* The gateway refuses to publish: the message stays where it is.
PublishFails(j) ==
    /\ jobs[j].stage = "publishing"
    /\ Fault
    /\ Finish(j, "skipped")
    /\ UNCHANGED <<Membership, rows, surfaces, Relaying, Duplicates, crashes>>

\* The host forum's call raises, perhaps after Discord acted: the event failed.
HostFails(j) ==
    /\ jobs[j].stage = "hosting"
    /\ Fault
    /\ \E n \in {0, 1} : orphans' = orphans + n /\ lost' = lost + n
    /\ Finish(j, "failed")
    /\ UNCHANGED <<Membership, rows, surfaces, Relaying, overlaps, crashes>>

-----------------------------------------------------------------------------
(* Edits and deletions *)

\* _surface_can_mutate: the host, or the very subscription that was the source.
SurfaceCanMutate(o, f) == Active(f) /\ <<o, f>> \notin detached

MayMutate(o) ==
    IF Inbound(o) THEN o \in rows ELSE Has(o, source[o]) /\ SurfaceCanMutate(o, source[o])

\* A mutation of the remote side may overtake its create; nobody edits a
\* Discord message that was not posted.
Changes(j) ==
    /\ Begins(j)
    /\ j[1] \in {"update", "delete"}
    /\ Inbound(j[2]) \/ \E k \in Creates(j[2]) : status[k] # "none"

\* The recorded surfaces of the moment are the targets; the author's is not.
Mutate(j) ==
    /\ Changes(j)
    /\ MayMutate(j[2])
    /\ Start(j, Pass(Without(Listed(j[2]), source[j[2]]), "processed"))
    /\ UNCHANGED <<Membership, rows, surfaces, Relaying, Duplicates, faults, crashes>>

\* Unknown yet, or not the author's to change: forgotten.
IgnoreMutation(j) ==
    /\ Changes(j)
    /\ ~MayMutate(j[2])
    /\ Finish(j, "skipped")
    /\ UNCHANGED <<Membership, rows, surfaces, Relaying, Duplicates, faults, crashes>>

-----------------------------------------------------------------------------
(* One pass over the Discord forums *)

\* Variants: a copy that exists is made again; thread and parent are not asked for.
WantedAgain(j, f) ==
    IF j[1] = "create" THEN j[2] > 0 => Has(0, f) /\ Has(j[2] - 1, f) ELSE Active(f)
WantedAnywhere(j, f) == IF j[1] = "create" THEN ~Has(j[2], f) ELSE Active(f)

\* A create needs its thread and its parent in the forum and no copy yet; a
\* mutation needs a forum that still takes part.
Wanted(j, f) ==
    IF j[1] = "create"
    THEN ~Has(j[2], f) /\ (j[2] > 0 => Has(0, f) /\ Has(j[2] - 1, f))
    ELSE Active(f)

\* The next target: its call is awaited, or it is left out for good.
Target(j) ==
    /\ jobs[j].stage = "fanout"
    /\ jobs[j].todo # <<>>
    /\ Moves(j, IF Wanted(j, Head(jobs[j].todo))
                THEN [jobs[j] EXCEPT !.stage = "calling"]
                ELSE [jobs[j] EXCEPT !.todo = Tail(@)])
    /\ IF j[1] = "create" /\ Wanted(j, Head(jobs[j].todo))
       THEN CountOverlap(j, Head(jobs[j].todo))
       ELSE UNCHANGED overlaps
    /\ UNCHANGED <<Membership, rows, surfaces, Relaying, orphans, lost, faults, crashes>>

Continue(j) == Moves(j, [jobs[j] EXCEPT !.stage = "fanout", !.todo = Tail(@)])

\* The call answers: the copy's surface row, whose unique constraint refuses a
\* second one, or the new text.
Answered(j) ==
    LET o == j[2]
        f == Head(jobs[j].todo)
    IN  /\ Calling(j)
        /\ IF j[1] # "create" THEN Show(o, f, j[1]) /\ UNCHANGED orphans
           ELSE IF Has(o, f) THEN orphans' = orphans + 1 /\ UNCHANGED surfaces
           ELSE Record(o, f) /\ UNCHANGED orphans
        /\ Continue(j)
        /\ UNCHANGED <<Membership, rows, Relaying, lost, overlaps, faults, crashes>>

\* Discord did what the call asked for, and the bridge never learns it.
ActedUnseen(j) ==
    IF j[1] = "create"
    THEN orphans' = orphans + 1 /\ lost' = lost + 1 /\ UNCHANGED surfaces
    ELSE Show(j[2], Head(jobs[j].todo), j[1]) /\ UNCHANGED <<orphans, lost>>

\* Variant: the pass ends with the first call that raises.
CallFailsForAll(j) ==
    /\ Calling(j)
    /\ Fault
    /\ ActedUnseen(j) \/ UNCHANGED <<surfaces, orphans, lost>>
    /\ Moves(j, [jobs[j] EXCEPT !.stage = "fanout", !.todo = <<>>])
    /\ UNCHANGED <<Membership, rows, Relaying, overlaps, crashes>>

\* The call raises: logged, and the pass goes on to the next forum.
CallFails(j) ==
    /\ Calling(j)
    /\ Fault
    /\ ActedUnseen(j) \/ UNCHANGED <<surfaces, orphans, lost>>
    /\ Continue(j)
    /\ UNCHANGED <<Membership, rows, Relaying, overlaps, crashes>>

-----------------------------------------------------------------------------
(* The relay *)

PassDone(j) == jobs[j].stage = "fanout" /\ jobs[j].todo = <<>>

\* Variant: mutations go to every follower.
RelayToAll(j) == followers \ {source[j[2]]}

\* Whom the activity goes to: a create to the other followers, a mutation to
\* those followers of today that a relay of the create is recorded for.
RelayTargets(j) ==
    IF j[1] = "create" THEN followers \ {source[j[2]]}
    ELSE {r \in followers : relay[<<"create", j[2], r>>] = "delivered"}

Delivery(j, r) == <<j[1], j[2], r>>
\* Variant: only relays that have no row yet are open.
OpenNew(j) == {r \in RelayTargets(j) : relay[Delivery(j, r)] = "none"}

Open(j) == {r \in RelayTargets(j) : relay[Delivery(j, r)] # "delivered"}

\* Missing delivery rows are created, and all open ones go out in one call.
RelayStarts(j) ==
    /\ PassDone(j)
    /\ IF Inbound(j[2]) /\ Open(j) # {}
       THEN /\ relay' = [x \in Relays |->
                   IF x \in {Delivery(j, r) : r \in Open(j)} /\ relay[x] = "none"
                   THEN "pending" ELSE relay[x]]
            /\ Moves(j, [jobs[j] EXCEPT !.stage = "relaying", !.batch = Open(j)])
       ELSE Finish(j, jobs[j].ends) /\ UNCHANGED relay
    /\ UNCHANGED <<Membership, rows, surfaces, received, Duplicates, faults, crashes>>

Reached(j, R) == received' = received \cup {Delivery(j, r) : r \in R}

RelayAnswered(j) ==
    /\ jobs[j].stage = "relaying"
    /\ \E R \in SUBSET jobs[j].batch :
          /\ IF R = jobs[j].batch THEN UNCHANGED faults ELSE Fault
          /\ relay' = [x \in Relays |->
                 IF x \in {Delivery(j, r) : r \in R} THEN "delivered"
                 ELSE IF x \in {Delivery(j, r) : r \in jobs[j].batch} THEN "failed"
                 ELSE relay[x]]
          /\ Reached(j, R)
    /\ Finish(j, jobs[j].ends)
    /\ UNCHANGED <<Membership, rows, surfaces, Duplicates, crashes>>

\* The call raises with some of the activities sent: the event failed.
RelayRaises(j) ==
    /\ jobs[j].stage = "relaying"
    /\ Fault
    /\ \E R \in SUBSET jobs[j].batch : Reached(j, R)
    /\ Finish(j, "failed")
    /\ UNCHANGED <<Membership, rows, surfaces, relay, Duplicates, crashes>>

-----------------------------------------------------------------------------
(* Crashes: every handler dies, and the receipts in progress stay that way. *)
(* The start that follows migrates, which deletes the remote followers.     *)

Crash ==
    /\ Trouble
    /\ crashes' = crashes + 1
    /\ jobs' = [j \in Events |-> Idle]
    /\ followers' = {}
    /\ UNCHANGED <<source, subscribers, detached, churn>>

\* A call in flight was acted on, or none was.
CrashAll ==
    /\ Crash
    /\ \/ UNCHANGED <<surfaces, received, orphans, lost>>
       \/ \E j \in Events : Calling(j) /\ ActedUnseen(j) /\ UNCHANGED received
       \/ \E j \in Events : /\ jobs[j].stage = "hosting"
                            /\ orphans' = orphans + 1 /\ lost' = lost + 1
                            /\ UNCHANGED <<surfaces, received>>
       \/ \E j \in Events : /\ jobs[j].stage = "relaying"
                            /\ Reached(j, jobs[j].batch)
                            /\ UNCHANGED <<surfaces, orphans, lost>>
    /\ UNCHANGED <<rows, relay, status, overlaps, faults>>

\* Between the canonical row of a subscriber forum's message and its surface.
CrashBetweenRows(j) ==
    /\ jobs[j].stage = "publishing"
    /\ source[j[2]] \in Subs
    /\ Crash
    /\ rows' = rows \cup {j[2]}
    /\ UNCHANGED <<surfaces, Relaying, status, Duplicates, faults>>

-----------------------------------------------------------------------------
Receive(j) ==
    \/ Repair(j)
    \/ RefuseInbound(j)
    \/ CreateInbound(j)
    \/ CreateDiscord(j)
    \/ Mutate(j)
    \/ IgnoreMutation(j)

\* What a handler does when nothing but the gateway's relay call is awaited.
Resume(j) == Target(j) \/ RelayStarts(j) \/ RelayAnswered(j)

Proceed(j) == Stored(j) \/ Conflicts(j) \/ Answered(j) \/ Resume(j)

Fails(j) ==
    \/ PublishFails(j) \/ HostFails(j) \/ CallFails(j) \/ RelayRaises(j)
    \/ CrashBetweenRows(j)

Next ==
    \/ \E f \in Subs : Join(f) \/ Leave(f)
    \/ \E r \in Remotes : Refollow(r)
    \/ \E j \in Events : Receive(j) \/ Proceed(j) \/ Fails(j)
    \/ CrashAll

\* The gateway's relay call has a timeout.  A Discord call may never end, and
\* what failed need not come again: the gateway logs it and answers for it.
Fairness == \A j \in Events : WF_vars(Resume(j))

Spec == Init /\ [][Next]_vars
FairSpec == Spec /\ Fairness

-----------------------------------------------------------------------------
(* Properties *)

\* A copy hangs where it belongs: in a thread of its post that the same forum
\* shows, and in a subscriber forum below a copy of its parent, whatever
\* joined, left or was created while other passes ran (discord_fanout.py:299-321).
CopiesHaveContext ==
    \A o \in Objects \ {0}, f \in Forums :
        Has(o, f) => Has(0, f) /\ (f \in Subs => Has(o - 1, f))

\* Retries and repairs add no copy of their own, and deliveries that overlap no
\* more than they must: each message the bridge has lost track of is a creating
\* call whose answer was lost, or one begun while another handler's call for
\* the same copy was under way (inbound_create.py:66-113, discord_fanout.py:208-235).
MessagesAccountedFor == orphans <= lost + overlaps

\* No follower hears of an edit or a deletion of something it was never sent,
\* and nobody is sent his own activity, through all follows and unfollows
\* (federation_fanout.py:57-97, 120).
MutationFollowsCreate ==
    \A x \in received :
        /\ <<"create", x[2], x[3]>> \in received
        /\ x[3] # source[x[2]]

\* A forum that fails costs its own copy only: with the members unchanged, a
\* post that was handled is in every forum but as many as calls failed
\* (discord_fanout.py:207-244).
FailuresAreIsolated ==
    churn = 0 /\ (\E j \in Creates(0) : status[j] = "processed") =>
        Cardinality({f \in Forums : Active(f) /\ ~Has(0, f)}) <= faults

Delayed(j) == \E r \in Remotes : relay[Delivery(j, r)] = "pending"

SameEvent(j) == {k \in Events : k[1] = j[1] /\ k[2] = j[2]}

\* A handler of j's event waits for ever for one of its Discord calls.
Hangs(j) == <>[](\E k \in SameEvent(j) : Calling(k) \/ Ready(k))

\* A relay that is due is sent or marked as failed, by this pass or by one that
\* overlaps or repeats it, unless its follower left, a crash left the receipt in
\* progress, the last attempt of some delivery failed, or a handler of the event
\* hangs in a Discord call (federation_fanout.py:153-233).
RelaySettles ==
    \A j \in Events :
        \/ Hangs(j)
        \/ Delayed(j) ~> \/ \A r \in followers : relay[Delivery(j, r)] # "pending"
                         \/ crashes > 0
                         \/ \E k \in SameEvent(j) : status[k] = "failed"
=============================================================================
