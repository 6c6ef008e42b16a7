--------------------------- MODULE InboundFollow ---------------------------
(***************************************************************************)
(* Follow and Undo(Follow) of one remote actor for one bridge-owned actor, *)
(* from the gateway's inbox queue to the bridge's follower row:            *)
(*                                                                         *)
(*   - the gateway turns an activity into an event whose delivery id is    *)
(*     the activity's id, posts it to the bridge, and leaves it in         *)
(*     Fedify's in-memory queue when the bridge answers anything but 2xx   *)
(*     (federation.ts, python-bridge-client.ts);                           *)
(*   - the bridge gates every delivery by its receipt row (http_api.py,    *)
(*     event_receipts.py) and dispatches it (activitypub_handlers.py);     *)
(*   - a Follow stores or refreshes the follower row, awaits the signed    *)
(*     Accept and, for a User Actor, claims the one notification of that   *)
(*     row and sends its owner a direct message; an Undo deletes the row   *)
(*     (user_actor_followers.py, local_communities/followers.py).          *)
(*                                                                         *)
(* The bridge is one event loop: what a handler does between two awaits is *)
(* one action.  A crash of the process may hit between two commits, and    *)
(* the start that follows it deletes every follower row (migrations.py).   *)
(***************************************************************************)
EXTENDS Naturals, Sequences, SequencesExt

CONSTANTS
    Follows,        \* Follow activities of the remote actor, by id
    Undos,          \* its Undo(Follow) activities, by id
    MaxAttempts,    \* how often Fedify hands one queued activity to its listener
    MaxFaults,      \* bound: failed calls, abandoned requests, redeliveries
    MaxCrashes,     \* bound: crashes of the bridge or of the gateway
    NoRow           \* the relationship has no row

InboundFollowAssumption ==
    /\ Follows \cap Undos = {}
    /\ MaxAttempts \in Nat \ {0}
    /\ MaxFaults \in Nat
    /\ MaxCrashes \in Nat
    /\ NoRow \notin [id : Nat, follow : Follows, notice : {"pending", "attempted"}]

VARIABLES
    kind,       \* "user" or "community": the local actor that is followed
    queue,      \* delivery -> its place in the gateway's queue
    attempts,   \* delivery -> attempts of the queue that failed
    receipts,   \* delivery -> status of its receipt row, "none" without one
    handlers,   \* delivery -> the await its handler in the bridge is at
    row,        \* the follower row
    lastId,     \* highest follower id handed out (sqlite_autoincrement)
    accepted,   \* history: Follows whose Accept the gateway took
    told,       \* history: ids of the rows announced to the owner, in order
    faults, crashes

vars == <<kind, queue, attempts, receipts, handlers, row, lastId, accepted,
          told, faults, crashes>>

Deliveries == Follows \cup Undos
Idle == [stage |-> "idle", id |-> 0]
Rows == [id : Nat, follow : Follows, notice : {"pending", "attempted"}]

TypeOK ==
    /\ kind \in {"user", "community"}
    /\ queue \in [Deliveries -> {"unsent", "queued", "calling", "done", "dropped"}]
    /\ attempts \in [Deliveries -> 0 .. MaxAttempts]
    /\ receipts \in [Deliveries -> {"none", "in_progress", "processed", "skipped", "failed"}]
    /\ handlers \in [Deliveries -> [stage : {"idle", "accepting", "notifying"}, id : Nat]]
    /\ row \in Rows \cup {NoRow}
    /\ lastId \in Nat
    /\ accepted \subseteq Follows
    /\ told \in Seq(Nat)
    /\ faults \in 0 .. MaxFaults
    /\ crashes \in 0 .. MaxCrashes

Init ==
    /\ kind \in {"user", "community"}
    /\ queue = [d \in Deliveries |-> "unsent"]
    /\ attempts = [d \in Deliveries |-> 0]
    /\ receipts = [d \in Deliveries |-> "none"]
    /\ handlers = [d \in Deliveries |-> Idle]
    /\ row = NoRow
    /\ lastId = 0
    /\ accepted = {}
    /\ told = <<>>
    /\ faults = 0
    /\ crashes = 0

-----------------------------------------------------------------------------
(* The gateway's inbox queue *)

Fault == faults < MaxFaults /\ faults' = faults + 1

\* Variant: the queue gives up one attempt later.
FailedOnceMore(D) ==
    /\ attempts' = [d \in Deliveries |->
           IF d \in D THEN attempts[d] + 1 ELSE attempts[d]]
    /\ queue' = [d \in Deliveries |->
           IF d \notin D THEN queue[d]
           ELSE IF attempts[d] = MaxAttempts THEN "dropped" ELSE "queued"]

\* Places and attempts after the deliveries D got no 2xx: back in the queue
\* for a later attempt, or dropped after the last.
Failed(D) ==
    /\ attempts' = [d \in Deliveries |->
           IF d \in D THEN attempts[d] + 1 ELSE attempts[d]]
    /\ queue' = [d \in Deliveries |->
           IF d \notin D THEN queue[d]
           ELSE IF attempts[d] + 1 = MaxAttempts THEN "dropped" ELSE "queued"]

Answered(d) == queue' = [queue EXCEPT ![d] = "done"] /\ UNCHANGED attempts

\* Variant: a handler that raised is answered with 200 as well.
RespondTaken(d, ok) == IF queue[d] = "calling" THEN Answered(d) ELSE UNCHANGED <<queue, attempts>>

\* What a request that is still open learns; an abandoned one learns nothing.
Respond(d, ok) ==
    IF queue[d] # "calling" THEN UNCHANGED <<queue, attempts>>
    ELSE IF ok THEN Answered(d) ELSE Failed({d})

\* The remote server posts an activity; 202 means it is in the queue.
Send(d) ==
    /\ queue[d] = "unsent"
    /\ queue' = [queue EXCEPT ![d] = "queued"]
    /\ UNCHANGED <<kind, attempts, receipts, handlers, row, lastId, accepted,
                   told, faults, crashes>>

\* The remote server posts it once more: the memory of seen activities is per
\* inbox and does not survive a restart of the gateway.
Redeliver(d) ==
    /\ queue[d] \in {"done", "dropped"}
    /\ Fault
    /\ queue' = [queue EXCEPT ![d] = "queued"]
    /\ attempts' = [attempts EXCEPT ![d] = 0]
    /\ UNCHANGED <<kind, receipts, handlers, row, lastId, accepted, told, crashes>>

\* The request to the bridge breaks while the handler runs on.
Abandon(d) ==
    /\ queue[d] = "calling"
    /\ Fault
    /\ Failed({d})
    /\ UNCHANGED <<kind, receipts, handlers, row, lastId, accepted, told, crashes>>

-----------------------------------------------------------------------------
(* The receipt gate *)

\* InProcessMessageQueue: its one listener awaits a message before the next.
Listened(d) == queue[d] = "queued" /\ \A e \in Deliveries : queue[e] # "calling"

\* _begin_event_processing: the delivery owns a new attempt.
Begins(d) == Listened(d) /\ receipts[d] \in {"none", "failed"}

Settle(d, status) == receipts' = [receipts EXCEPT ![d] = status]

\* A delivery in progress is refused with 409, which the queue counts as failed.
Conflict(d) ==
    /\ Listened(d)
    /\ receipts[d] = "in_progress"
    /\ Failed({d})
    /\ UNCHANGED <<kind, receipts, handlers, row, lastId, accepted, told, faults,
                   crashes>>

\* A delivery that ended before gets its stored outcome.
Duplicate(d) ==
    /\ Listened(d)
    /\ receipts[d] \in {"processed", "skipped"}
    /\ Answered(d)
    /\ UNCHANGED <<kind, receipts, handlers, row, lastId, accepted, told, faults,
                   crashes>>

\* Policy, a ban, an unknown local actor or an inadmissible inbox: skipped.
Refuse(d) ==
    /\ Begins(d)
    /\ Settle(d, "skipped")
    /\ Answered(d)
    /\ UNCHANGED <<kind, handlers, row, lastId, accepted, told, faults, crashes>>

\* The handler raises before it stored anything: failed, and 500.
Raise(d) ==
    /\ Begins(d)
    /\ Fault
    /\ Settle(d, "failed")
    /\ Failed({d})
    /\ UNCHANGED <<kind, handlers, row, lastId, accepted, told, crashes>>

-----------------------------------------------------------------------------
(* The handlers *)

\* create_or_refresh, create_or_refresh_accepted: one immediate transaction.
\* A refresh keeps the row's id and whether its owner was notified.
CreateOrRefresh(f) ==
    IF row = NoRow
    THEN /\ lastId' = lastId + 1
         /\ row' = [id |-> lastId + 1, follow |-> f, notice |-> "pending"]
    ELSE /\ row' = [row EXCEPT !.follow = f]
         /\ UNCHANGED lastId

\* The Follow is stored; its Accept is on its way to the gateway.
Follow(f) ==
    /\ Begins(f)
    /\ CreateOrRefresh(f)
    /\ Settle(f, "in_progress")
    /\ handlers' = [handlers EXCEPT ![f] = [stage |-> "accepting", id |-> row'.id]]
    /\ queue' = [queue EXCEPT ![f] = "calling"]
    /\ UNCHANGED <<kind, attempts, accepted, told, faults, crashes>>

\* Undo(Follow): the row goes, whichever Follow it carries.
Undo(u) ==
    /\ Begins(u)
    /\ Settle(u, IF row = NoRow THEN "skipped" ELSE "processed")
    /\ row' = NoRow
    /\ Answered(u)
    /\ UNCHANGED <<kind, handlers, lastId, accepted, told, faults, crashes>>

End(f, status) ==
    /\ Settle(f, status)
    /\ handlers' = [handlers EXCEPT ![f] = Idle]
    /\ Respond(f, status = "processed")

\* Variant: whether the notification was attempted before is not looked at.
ClaimsRow(id) == row # NoRow /\ row.id = id

\* claim_notification_attempt: the row of this very id, still pending.
Claims(id) == row # NoRow /\ row.id = id /\ row.notice = "pending"

\* The gateway took the Accept, and the row's notification is claimed.
AcceptClaimed(f) ==
    /\ handlers[f].stage = "accepting"
    /\ kind = "user"
    /\ Claims(handlers[f].id)
    /\ accepted' = accepted \cup {f}
    /\ row' = [row EXCEPT !.notice = "attempted"]
    /\ handlers' = [handlers EXCEPT ![f].stage = "notifying"]
    /\ UNCHANGED <<kind, queue, attempts, receipts, lastId, told, faults, crashes>>

\* The gateway took the Accept, and there is nothing to notify.
AcceptDone(f) ==
    /\ handlers[f].stage = "accepting"
    /\ ~(kind = "user" /\ Claims(handlers[f].id))
    /\ accepted' = accepted \cup {f}
    /\ End(f, "processed")
    /\ UNCHANGED <<kind, row, lastId, told, faults, crashes>>

\* The call of the gateway raises, whether or not the Accept went out.
AcceptFails(f) ==
    /\ handlers[f].stage = "accepting"
    /\ Fault
    /\ \E sent \in BOOLEAN : accepted' = IF sent THEN accepted \cup {f} ELSE accepted
    /\ End(f, "failed")
    /\ UNCHANGED <<kind, row, lastId, told, crashes>>

\* _notify_owner returns, the message sent or the failure logged.
Notified(f) ==
    /\ handlers[f].stage = "notifying"
    /\ told' = Append(told, handlers[f].id)
    /\ End(f, "processed")
    /\ UNCHANGED <<kind, row, lastId, accepted, faults, crashes>>

-----------------------------------------------------------------------------
(* Crashes *)

Crash == crashes < MaxCrashes /\ crashes' = crashes + 1

\* Every start migrates, and every migration purges the relationships.
Restart == row' = NoRow

\* Every handler dies with the bridge; the receipts stay as they are, and
\* nothing looks at the ones in progress when it starts again.
BridgeCrash ==
    /\ Crash
    /\ handlers' = [d \in Deliveries |-> Idle]
    /\ Failed({d \in Deliveries : queue[d] = "calling"})
    /\ Restart
    /\ UNCHANGED <<kind, receipts, lastId, accepted, told, faults>>

\* The same between the commit of the receipt and the handler's own.
CrashAfterBegin(d) ==
    /\ Begins(d)
    /\ Crash
    /\ Settle(d, "in_progress")
    /\ handlers' = [e \in Deliveries |-> Idle]
    /\ Failed({d} \cup {e \in Deliveries : queue[e] = "calling"})
    /\ Restart
    /\ UNCHANGED <<kind, lastId, accepted, told, faults>>

\* MemoryKvStore and InProcessMessageQueue: what was queued is gone.
GatewayCrash ==
    /\ Crash
    /\ queue' = [d \in Deliveries |->
           IF queue[d] \in {"queued", "calling"} THEN "dropped" ELSE queue[d]]
    /\ UNCHANGED <<kind, attempts, receipts, handlers, row, lastId, accepted,
                   told, faults>>

-----------------------------------------------------------------------------
Bridge(d) ==
    \/ Conflict(d)
    \/ Duplicate(d)
    \/ Refuse(d)
    \/ d \in Follows /\ Follow(d)
    \/ d \in Undos /\ Undo(d)

Progress(f) == AcceptClaimed(f) \/ AcceptDone(f) \/ Notified(f)

Next ==
    \/ \E d \in Deliveries :
          \/ Send(d)
          \/ Redeliver(d)
          \/ Abandon(d)
          \/ Bridge(d)
          \/ Raise(d)
          \/ CrashAfterBegin(d)
    \/ \E f \in Follows : Progress(f) \/ AcceptFails(f)
    \/ BridgeCrash
    \/ GatewayCrash

\* The queue's timer hands over what is queued, and an awaited call returns.
Fairness ==
    /\ \A d \in Deliveries : WF_vars(Bridge(d))
    /\ \A f \in Follows : WF_vars(Progress(f) \/ AcceptFails(f))

Spec == Init /\ [][Next]_vars
FairSpec == Spec /\ Fairness

-----------------------------------------------------------------------------
(* Properties *)

\* However often a Follow is delivered, retried or refreshed, the owner hears
\* of one relationship at most once, and never of one that an Undo had removed
\* before its notification was claimed (user_actor_followers.py:100-107).
ToldOnce == IsInjective(told)

\* A relationship that was stored is answered: the remote actor gets the
\* Accept of the Follow the row carries, by this attempt or by a later one of
\* the queue, unless that is refused, the attempts ran out or a process crashed
\* (user_actor_followers.py:90-100, http_api.py:288-300).
StoredIsAnswered ==
    \A f \in Follows :
        (row # NoRow /\ row.follow = f) ~>
            \/ f \in accepted
            \/ receipts[f] = "skipped"
            \/ queue[f] = "dropped"
            \/ crashes > 0
=============================================================================
