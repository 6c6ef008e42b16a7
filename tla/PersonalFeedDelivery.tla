------------------------ MODULE PersonalFeedDelivery ------------------------
(***************************************************************************)
(* Remote comments below one personal-feed post: admitted with their       *)
(* Updates and Deletes, kept canonically, and rendered into the post's     *)
(* Discord thread by a single process-local worker.                        *)
(*                                                                         *)
(* The inbound handler of a personal-feed event awaits nothing, so it is   *)
(* one step unless the process dies in it.  The worker claims a batch in   *)
(* one transaction and then, claim by claim, awaits Discord: between its   *)
(* calls, and while one is under way, events are admitted.                 *)
(***************************************************************************)
EXTENDS Integers, Sequences, SequencesExt

CONSTANTS
    Comments,     \* objects of remote actors, all below the same post
    Root,         \* the post
    MaxRevision,  \* bound: Updates of a comment, numbered by their timestamp
    ClaimLimit,   \* limit of claim_due
    MaxAttempts,  \* the ceiling of record_discord_attempt
    MaxFaults,    \* bound: stops and crashes of the bridge, and Discord calls that
                  \* act but report a failure
    Gone

PersonalFeedAssumption ==
    /\ Root \notin Comments
    /\ MaxRevision \in Nat
    /\ MaxFaults \in Nat
    /\ ClaimLimit \in Nat \ {0}
    /\ MaxAttempts \in Nat \ {0}
    /\ Gone \notin 0..MaxRevision

Revisions == 0..MaxRevision

VARIABLES
    rows,      \* the comments admitted, in order of their delivery's id
    parent,    \* parent_object_id
    content,   \* the revision content_markdown holds
    removed,   \* comments whose deleted_at is set
    state,     \* inbound_discord_deliveries.state, "none" without a row
    attempts,  \* attempt_count
    message,   \* discord_message_id: which of the comment's messages, or 0
    shown,     \* the messages Discord has of each comment
    bound,     \* the post's channel is the user's personal-feed binding
    batch,     \* the claims the worker has still to deliver
    phase,     \* of the first of them
    unwoken,   \* comments whose handler died before wake_children
    faults     \* lost answers, stops and crashes

objectVars   == <<rows, parent, content, removed>>
deliveryVars == <<state, attempts, message>>
workerVars   == <<batch, phase>>
vars == <<rows, parent, content, removed, state, attempts, message, shown, bound,
          batch, phase, unwoken, faults>>

Ended  == {"suppressed", "failed", "delivered"}
States == Ended \cup {"none", "pending_parent", "ready", "dispatching"}
Phases == {"idle", "opening", "calling", "acted"}

Init ==
    /\ rows = <<>>
    /\ parent = [c \in Comments |-> Root]
    /\ content = [c \in Comments |-> 0]
    /\ removed = {}
    /\ state = [c \in Comments |-> "none"]
    /\ attempts = [c \in Comments |-> 0]
    /\ message = [c \in Comments |-> 0]
    /\ shown = [c \in Comments |-> <<>>]
    /\ bound = TRUE
    /\ batch = <<>>
    /\ phase = "idle"
    /\ unwoken = {}
    /\ faults = 0
-----------------------------------------------------------------------------
(* Inbound events.                                                         *)

Known(x) == x = Root \/ \E i \in 1..Len(rows) : rows[i] = x

\* Variant: whether the parent is known is not looked at.
AdmittedReady(c, p) == [state EXCEPT ![c] = "ready"]

\* admit_create waits for a parent it does not know.
Admitted(c, p) == [state EXCEPT ![c] = IF Known(p) THEN "ready" ELSE "pending_parent"]

\* wake_children
Woken(states, p) ==
    [c \in Comments |->
        IF states[c] = "pending_parent" /\ parent[c] = p THEN "ready" ELSE states[c]]

AdmitCreate(c, p) ==
    IF Known(c)
    THEN UNCHANGED <<rows, parent>>
    ELSE /\ rows' = Append(rows, c)
         /\ parent' = [parent EXCEPT ![c] = p]

\* A repeated Create is a duplicate, but wakes the children again.
HandleCreate(c, p) ==
    /\ AdmitCreate(c, p)
    /\ state' = Woken(IF Known(c) THEN state ELSE Admitted(c, p), c)
    /\ unwoken' = unwoken \ {c}
    /\ <<rows', state', unwoken'>> # <<rows, state, unwoken>>
    /\ UNCHANGED <<content, removed, attempts, message, shown, bound, workerVars, faults>>

\* Variant: a revision is newer if it is another one.
NewerIfOther(c, v) == v # content[c]
Newer(c, v) == v > content[c]

Reopen(c) ==
    /\ state' = [state EXCEPT ![c] = "ready"]
    /\ attempts' = [attempts EXCEPT ![c] = 0]

\* admit_update: a comment that has no message yet is rendered with its new
\* content anyway, unless it had failed for good.
HandleUpdate(c, v) ==
    /\ Known(c)
    /\ c \notin removed
    /\ Newer(c, v)
    /\ content' = [content EXCEPT ![c] = v]
    /\ IF message[c] # 0 \/ state[c] = "failed"
       THEN Reopen(c)
       ELSE UNCHANGED <<state, attempts>>
    /\ UNCHANGED <<rows, parent, removed, message, shown, bound, workerVars, unwoken,
                   faults>>

\* admit_delete: nothing to remove is remembered as nothing to render.
HandleDelete(c) ==
    /\ Known(c)
    /\ c \notin removed
    /\ removed' = removed \cup {c}
    /\ IF message[c] = 0
       THEN /\ state' = [state EXCEPT ![c] = "suppressed"]
            /\ UNCHANGED attempts
       ELSE Reopen(c)
    /\ UNCHANGED <<rows, parent, content, message, shown, bound, workerVars, unwoken,
                   faults>>

\* The owner binds, moves or unbinds the personal feed.
ChangeBinding ==
    /\ bound' = ~bound
    /\ UNCHANGED <<objectVars, deliveryVars, shown, workerVars, unwoken, faults>>
-----------------------------------------------------------------------------
(* The worker.                                                             *)

Ready == {c \in Comments : state[c] = "ready"}

\* Variant: the claim does not say which message there is.
ClaimAnew(c) == [comment |-> c, body |-> content[c], deleted |-> c \in removed,
                 message |-> 0]

Claim(c) == [comment |-> c, body |-> content[c], deleted |-> c \in removed,
             message |-> message[c]]

Position(c) == CHOOSE i \in DOMAIN rows : rows[i] = c

\* What is due in the order of its rows, ClaimLimit of them at most.
FirstOf(due, taken) ==
    /\ \A i, j \in DOMAIN taken : i < j => Position(taken[i]) < Position(taken[j])
    /\ \A c \in due :
          \/ Contains(taken, c)
          \/ Len(taken) = ClaimLimit /\ Position(taken[ClaimLimit]) < Position(c)

\* due: the ready rows whose next_attempt_at has passed.
ClaimDue(due) ==
    /\ batch = <<>>
    /\ \E n \in 1..ClaimLimit : \E taken \in [1..n -> due] :
          /\ FirstOf(due, taken)
          /\ batch' = [i \in 1..n |-> Claim(taken[i])]
          /\ state' = [c \in Comments |-> IF Contains(taken, c) THEN "dispatching"
                                                                ELSE state[c]]
    /\ UNCHANGED <<objectVars, attempts, message, shown, bound, phase, unwoken, faults>>

Current  == Head(batch)
NextClaim == batch' = Tail(batch) /\ phase' = "idle"

SuppressDelivery ==
    /\ state' = [state EXCEPT ![Current.comment] = "suppressed"]
    /\ NextClaim

\* _deliver: nothing is done for an inactive binding, nor is anything rendered
\* that was deleted when it was claimed.
StartDelivery ==
    /\ batch # <<>>
    /\ phase = "idle"
    /\ IF ~bound \/ (Current.deleted /\ Current.message = 0)
       THEN SuppressDelivery
       ELSE phase' = "opening" /\ UNCHANGED <<state, batch>>
    /\ UNCHANGED <<objectVars, attempts, message, shown, bound, unwoken, faults>>

\* The thread is fetched, created or adopted; the binding is read again.
OpenThread ==
    /\ phase = "opening"
    /\ IF bound
       THEN phase' = "calling" /\ UNCHANGED <<state, batch>>
       ELSE SuppressDelivery
    /\ UNCHANGED <<objectVars, attempts, message, shown, bound, unwoken, faults>>

\* What the call does to the comment's messages.
Effect(b) ==
    IF b.message = 0
    THEN [shown EXCEPT ![b.comment] = Append(@, b.body)]
    ELSE [shown EXCEPT ![b.comment][b.message] = IF b.deleted THEN Gone ELSE b.body]

CanAct(b) == b.message # 0 => shown[b.comment][b.message] # Gone

DiscordActs ==
    /\ phase = "calling"
    /\ CanAct(Current)
    /\ shown' = Effect(Current)
    /\ phase' = "acted"
    /\ UNCHANGED <<objectVars, deliveryVars, bound, batch, unwoken, faults>>

\* Variant: one failure more before it is given up.
GivesUpLate(n) == n > MaxAttempts
GivesUp(n) == n >= MaxAttempts

\* Variant: a suppressed delivery still takes its outcome.
IgnoredIfTried(s) == s \in {"failed", "delivered"}
Ignored(s) == s \in Ended

\* record_discord_attempt: a delivery that has ended meanwhile is left alone.
RecordAttempt(ok) ==
    LET c == Current.comment
        n == attempts[c] + 1
    IN  IF Ignored(state[c])
        THEN UNCHANGED deliveryVars
        ELSE /\ attempts' = [attempts EXCEPT ![c] = n]
             /\ state' = [state EXCEPT ![c] = IF ok THEN "delivered"
                                              ELSE IF GivesUp(n) THEN "failed"
                                              ELSE "ready"]
             /\ message' = IF ok /\ Current.message = 0
                           THEN [message EXCEPT ![c] = Len(shown[c])] ELSE message

Succeed ==
    /\ phase = "acted"
    /\ RecordAttempt(TRUE)
    /\ NextClaim
    /\ UNCHANGED <<objectVars, shown, bound, unwoken, faults>>

\* A call raises, the last one perhaps after Discord has acted.
Fail ==
    /\ phase \in {"opening", "calling", "acted"}
    /\ phase = "acted" => faults < MaxFaults
    /\ faults' = IF phase = "acted" THEN faults + 1 ELSE faults
    /\ RecordAttempt(FALSE)
    /\ NextClaim
    /\ UNCHANGED <<objectVars, shown, bound, unwoken>>
-----------------------------------------------------------------------------
(* stop() or a crash, and the start that follows it.                       *)

\* Variant: what was dispatching stays so.
NotRecovered(states) == states

Recovered(states) ==
    [c \in Comments |-> IF states[c] = "dispatching" THEN "ready" ELSE states[c]]

Restart ==
    /\ faults < MaxFaults
    /\ faults' = faults + 1
    /\ batch' = <<>>
    /\ phase' = "idle"

\* The call under way may still take effect.
Crash(acts) ==
    /\ Restart
    /\ batch # <<>>
    /\ acts => phase = "calling" /\ CanAct(Current)
    /\ shown' = IF acts THEN Effect(Current) ELSE shown
    /\ state' = Recovered(state)
    /\ UNCHANGED <<objectVars, attempts, message, bound, unwoken>>

\* Between admit_create and wake_children.
CrashInCreate(c, p) ==
    /\ Restart
    /\ AdmitCreate(c, p)
    /\ state' = Recovered(IF Known(c) THEN state ELSE Admitted(c, p))
    /\ unwoken' = unwoken \cup {c}
    /\ UNCHANGED <<content, removed, attempts, message, shown, bound>>
-----------------------------------------------------------------------------
Events ==
    \/ \E c \in Comments :
          \/ \E p \in (Comments \ {c}) \cup {Root} : HandleCreate(c, p)
          \/ \E v \in Revisions : HandleUpdate(c, v)
          \/ HandleDelete(c)
    \/ ChangeBinding

Worker ==
    \/ \E due \in SUBSET Ready : ClaimDue(due)
    \/ StartDelivery
    \/ OpenThread
    \/ DiscordActs
    \/ Succeed
    \/ Fail

Dies ==
    \/ \E acts \in BOOLEAN : Crash(acts)
    \/ \E c \in Comments, p \in Comments \cup {Root} : c # p /\ CrashInCreate(c, p)

Next == Events \/ Worker \/ Dies

Spec == Init /\ [][Next]_vars

\* What the worker does without awaiting Discord.
Scheduler ==
    \/ \E due \in SUBSET Ready : ClaimDue(due)
    \/ StartDelivery

\* The scheduler passes every five seconds.  Its awaits of Discord have no
\* timeout, and no fairness: one may hang until the bridge is stopped, or for ever.
FairSpec == Spec /\ WF_vars(Scheduler)
-----------------------------------------------------------------------------
TypeOK ==
    /\ rows \in Seq(Comments)
    /\ parent \in [Comments -> Comments \cup {Root}]
    /\ content \in [Comments -> Revisions]
    /\ removed \subseteq Comments
    /\ state \in [Comments -> States]
    /\ attempts \in [Comments -> 0..MaxAttempts]
    /\ message \in [Comments -> Nat]
    /\ shown \in [Comments -> Seq(Revisions \cup {Gone})]
    /\ bound \in BOOLEAN
    /\ batch \in Seq([comment : Comments, body : Revisions, deleted : BOOLEAN,
                      message : Nat])
    /\ phase \in Phases
    /\ unwoken \subseteq Comments
    /\ faults \in 0..MaxFaults

(* A comment deleted before it was rendered stays suppressed: no waking    *)
(* parent, late outcome, Update or restart makes it due again.             *)
DeletedUnseenStaysSuppressed ==
    \A c \in removed : message[c] = 0 => state[c] = "suppressed"

(* A comment gets a further message only after a restart or a call whose   *)
(* answer was lost; Updates edit the message there is.                     *)
OneMessage == \A c \in Comments : Len(shown[c]) <= 1 + faults

(* A reply is rendered only when the comment it replies to is known, and   *)
(* waits no longer than that, unless the handler died before waking it.    *)
WaitsForParent ==
    \A c \in Comments :
        /\ shown[c] # <<>> => Known(parent[c])
        /\ state[c] = "pending_parent" => ~Known(parent[c]) \/ parent[c] \in unwoken

(* What Discord shows of a comment only moves to later revisions: no       *)
(* stale claim or reordered Update puts an older text back.                *)
NeverOlder ==
    [][\A c \in Comments : \A i \in 1..Len(shown[c]) :
          \/ shown'[c][i] = Gone
          \/ shown[c][i] # Gone /\ shown'[c][i] >= shown[c][i]]_vars

Hung == <>[](phase # "idle")

(* Every due delivery comes to an end, whatever calls fail and whichever   *)
(* call a stop of the bridge interrupts, unless one of the worker's calls  *)
(* hangs for ever.                                                         *)
EveryDeliveryEnds ==
    \/ Hung
    \/ \A c \in Comments : state[c] \in {"ready", "dispatching"} ~> state[c] \in Ended

(* "Remote mutations reconcile the existing Discord message": a delivered  *)
(* comment shows its latest revision, or nothing once it is deleted.       *)
DeliveredIsCurrent ==
    \A c \in Comments :
        state[c] = "delivered" =>
            shown[c][message[c]] = IF c \in removed THEN Gone ELSE content[c]
=============================================================================
