--------------------------- MODULE ContentMutation ---------------------------
(***************************************************************************)
(* How edits and deletions of one published Discord message become Update  *)
(* and Delete activities: desired state admitted by Discord timestamp, one *)
(* reserved mutation at a time, dispatched to the gateway under a lease    *)
(* and a claim token, committed as the object's next revision together     *)
(* with an outbound source (the rows of UserActorDelivery).                *)
(*                                                                         *)
(* Each repository call is one transaction and one action; what happens    *)
(* between two of them is kept in the variables of the bridge process and  *)
(* lost in a crash.  Discord events may arrive in any order, repeatedly or *)
(* never; leases expire at any time.                                       *)
(***************************************************************************)
EXTENDS Integers, Sequences

CONSTANTS
    Texts,        \* message bodies; a fingerprint is told apart by its body
    FirstText,    \* the body of the Create
    MaxEdits,     \* bound: edits of the Discord message
    MaxMutations, \* bound: reservations
    Drains,       \* concurrent drain_mutations calls
    MaxCrashes,   \* bound: restarts of the bridge
    MaxUnreadable,\* bound: gateway answers that cannot be decoded
    NoDrain, NoText, Removed

ASSUME TextAssumption  == /\ FirstText \in Texts
                          /\ NoText \notin Texts
                          /\ Removed \notin Texts \cup {NoText}
ASSUME DrainAssumption == NoDrain \notin Drains
ASSUME BoundAssumption == /\ MaxEdits \in Nat
                          /\ MaxMutations \in Nat
                          /\ MaxCrashes \in Nat
                          /\ MaxUnreadable \in Nat

Stamps    == 0..MaxEdits
Mutations == 1..MaxMutations

VARIABLES
    edits,     \* the bodies the Discord message had, one per edited_timestamp
    gone,      \* the Discord message is deleted
    body,      \* published_activity_objects.body_markdown
    revision,  \* content_revision
    deleted,   \* deleted_at is set
    desired,   \* desired_kind: "none", "update" or "delete"
    wanted,    \* desired_fingerprint: a body, Removed or NoText
    stamp,     \* desired_edited_timestamp, 0 for none
    unsure,    \* discord_reconciliation_needed
    mutation,  \* rows of user_actor_content_mutations, in order of their id
    log,       \* the sources committed, one per revision after the Create
    owed,      \* an admitted change whose reserve_next is still to be called
    fetched,   \* what drain_reconciliations has read of the message
    task,      \* what each drain is doing with which mutation
    crashes, unreadable

discordVars == <<edits, gone>>
desiredVars == <<desired, wanted, stamp>>
objectVars  == <<body, revision, deleted>>
bounds      == <<crashes, unreadable>>
vars == <<edits, gone, body, revision, deleted, desired, wanted, stamp, unsure,
          mutation, log, owed, fetched, task, crashes, unreadable>>

Active == {"reserved", "dispatching", "ambiguous", "canonical_ready"}
States == Active \cup {"committed", "aborted_pre_send"}
Kinds  == {"content_update", "content_delete"}
Phases == {"idle", "claimed", "sending", "ready", "reserve"}
Idle   == [phase |-> "idle", id |-> 0]
Nothing == [step |-> "none", body |-> NoText, stamp |-> 0]

Init ==
    /\ edits = <<>>
    /\ gone = FALSE
    /\ body = FirstText
    /\ revision = 1
    /\ deleted = FALSE
    /\ desired = "none"
    /\ wanted = NoText
    /\ stamp = 0
    /\ unsure = FALSE
    /\ mutation = <<>>
    /\ log = <<>>
    /\ owed = FALSE
    /\ fetched = Nothing
    /\ task = [d \in Drains |-> Idle]
    /\ crashes = 0
    /\ unreadable = 0
-----------------------------------------------------------------------------
(* Discord, outside the bridge.                                            *)

EditMessage(t) ==
    /\ ~gone
    /\ Len(edits) < MaxEdits
    /\ t # IF edits = <<>> THEN FirstText ELSE edits[Len(edits)]
    /\ edits' = Append(edits, t)
    /\ UNCHANGED <<gone, objectVars, desiredVars, unsure, mutation, log, owed,
                   fetched, task, bounds>>

DeleteMessage ==
    /\ ~gone
    /\ gone' = TRUE
    /\ UNCHANGED <<edits, objectVars, desiredVars, unsure, mutation, log, owed,
                   fetched, task, bounds>>
-----------------------------------------------------------------------------
(* Admission of desired state.                                             *)

Terminal == deleted \/ desired = "delete"

Want(kind, t, s) ==
    /\ desired' = kind
    /\ wanted' = t
    /\ stamp' = s

\* Variants: a newer edit is admitted although a deletion is wanted; edits are
\* admitted as they arrive.
AdmitsAnyNewer(t, s) == s > stamp /\ t \in Texts
AdmitsInArrival(t, s) == ~Terminal /\ ~(body = t /\ desired = "none") /\ s # stamp

\* Neither deleted, stale, duplicate nor conflicting: an older or equal
\* timestamp is never admitted, nor an edit that changes nothing.
Admits(t, s) ==
    /\ ~Terminal
    /\ s > stamp
    /\ ~(body = t /\ desired = "none")

\* record_desired_update for the event of edit s; submit_update goes on to
\* reserve_next only when it was accepted.
RecordDesiredUpdate(s) ==
    /\ s \in 1..Len(edits)
    /\ Admits(edits[s], s)
    /\ Want("update", edits[s], s)
    /\ owed' = TRUE
    /\ UNCHANGED <<discordVars, objectVars, unsure, mutation, log, fetched, task,
                   bounds>>

RecordDesiredDelete ==
    /\ gone
    /\ ~Terminal
    /\ Want("delete", Removed, stamp)
    /\ owed' = TRUE
    /\ UNCHANGED <<discordVars, objectVars, unsure, mutation, log, fetched, task,
                   bounds>>

\* An edit event without a timestamp, whose message could not be fetched.
RequestReconciliation ==
    /\ edits # <<>>
    /\ ~Terminal
    /\ ~unsure
    /\ unsure' = TRUE
    /\ UNCHANGED <<discordVars, objectVars, desiredVars, mutation, log, owed,
                   fetched, task, bounds>>
-----------------------------------------------------------------------------
(* Reservation.                                                            *)

Ids       == 1..Len(mutation)
ActiveIds == {i \in Ids : mutation[i].state \in Active}

\* What the operation id is a digest of.  A Delete's does not cover a body.
SameOperation(m, n) ==
    m.kind = n.kind /\ m.expected = n.expected /\ m.body = n.body /\ m.stamp = n.stamp

\* Variant: the reservation keeps the desired kind as it is.
NextMutationVerbatim(kind, t, s) ==
    [kind |-> kind, body |-> t, stamp |-> s, expected |-> revision,
     state |-> "reserved", token |-> NoDrain, sent |-> FALSE]

NextMutation(kind, t, s) ==
    [kind |-> IF kind = "delete" THEN "content_delete" ELSE "content_update",
     body |-> t, stamp |-> s, expected |-> revision, state |-> "reserved",
     token |-> NoDrain, sent |-> FALSE]

\* Variant: the reservation does not look for one that is still active.
ReserveAnyway(kind, t, s) ==
    IF kind = "none" \/ Len(mutation) = MaxMutations
    THEN UNCHANGED mutation
    ELSE mutation' = Append(mutation, NextMutation(kind, t, s))

\* _reserve_next_in_session: nothing wanted, or a transition already active,
\* reserves nothing; an operation id used before violates its uniqueness and
\* rolls the reservation back.
ReserveNext(kind, t, s) ==
    LET m == NextMutation(kind, t, s)
    IN  IF \/ kind = "none"
           \/ ActiveIds # {}
           \/ \E i \in Ids : SameOperation(mutation[i], m)
           \/ Len(mutation) = MaxMutations
        THEN UNCHANGED mutation
        ELSE mutation' = Append(mutation, m)

ReserveAdmitted ==
    /\ owed
    /\ owed' = FALSE
    /\ ReserveNext(desired, wanted, stamp)
    /\ UNCHANGED <<discordVars, objectVars, desiredVars, unsure, log, fetched,
                   task, bounds>>
-----------------------------------------------------------------------------
(* drain_reconciliations: fetch the message, then converge to it.          *)

\* An unedited message has no edited_at: the attempt fails and is retried.
FetchMessage ==
    /\ unsure
    /\ fetched = Nothing
    /\ fetched' = IF gone
                  THEN [step |-> "missing", body |-> NoText, stamp |-> 0]
                  ELSE [step |-> "present", body |-> edits[Len(edits)],
                        stamp |-> Len(edits)]
    /\ UNCHANGED <<discordVars, objectVars, desiredVars, unsure, mutation, log,
                   owed, task, bounds>>

\* reconcile_authoritative_update_and_reserve: one transaction.  A state older
\* than the desired one is left for a later attempt.
ReconcileUpdate ==
    /\ fetched.step = "present"
    /\ fetched' = Nothing
    /\ LET stale == ~Terminal /\ fetched.stamp < stamp
           known == fetched.stamp = stamp /\ wanted = fetched.body
       IN  /\ IF ~unsure \/ Terminal \/ stale \/ known
              THEN UNCHANGED desiredVars
              ELSE Want("update", fetched.body, fetched.stamp)
           /\ IF ~unsure \/ Terminal \/ stale
              THEN UNCHANGED mutation
              ELSE ReserveNext(desired', wanted', stamp')
           /\ unsure' = (unsure /\ stale)
    /\ UNCHANGED <<discordVars, objectVars, log, owed, task, bounds>>

\* A missing message: three transactions, all repeated after a crash because
\* the request is cleared last.
ReconcileDelete ==
    /\ fetched.step = "missing"
    /\ IF Terminal THEN UNCHANGED desiredVars ELSE Want("delete", Removed, stamp)
    /\ fetched' = [fetched EXCEPT !.step = "reserve"]
    /\ UNCHANGED <<discordVars, objectVars, unsure, mutation, log, owed, task,
                   bounds>>

ReconcileReserve ==
    /\ fetched.step = "reserve"
    /\ ReserveNext(desired, wanted, stamp)
    /\ fetched' = [fetched EXCEPT !.step = "clear"]
    /\ UNCHANGED <<discordVars, objectVars, desiredVars, unsure, log, owed, task,
                   bounds>>

ClearReconciliation ==
    /\ fetched.step = "clear"
    /\ unsure' = FALSE
    /\ fetched' = Nothing
    /\ UNCHANGED <<discordVars, objectVars, desiredVars, mutation, log, owed, task,
                   bounds>>
-----------------------------------------------------------------------------
(* drain_mutations.  One object has at most one active mutation, so a      *)
(* drain's batch holds at most one of them.                                *)

Set(i, s, d) == mutation' = [mutation EXCEPT ![i].state = s, ![i].token = d]

Hold(d, p, i) == task' = [task EXCEPT ![d] = [phase |-> p, id |-> i]]
LetGo(d)      == task' = [task EXCEPT ![d] = Idle]

\* claim_due: reserved, ambiguous after its backoff, canonical_ready at any
\* time, dispatching once its lease is over.
ClaimMutation(d, i) ==
    /\ task[d] = Idle
    /\ i \in ActiveIds
    /\ IF mutation[i].state = "canonical_ready"
       THEN Set(i, "canonical_ready", d) /\ Hold(d, "ready", i)
       ELSE Set(i, "dispatching", d) /\ Hold(d, "claimed", i)
    /\ UNCHANGED <<discordVars, objectVars, desiredVars, unsure, log, owed,
                   fetched, bounds>>

Owns(d, s) == mutation[task[d].id].state = s /\ mutation[task[d].id].token = d

MarkSendPossible(d) ==
    /\ task[d].phase = "claimed"
    /\ IF Owns(d, "dispatching") THEN Hold(d, "sending", task[d].id) ELSE LetGo(d)
    /\ UNCHANGED <<discordVars, objectVars, desiredVars, unsure, mutation, log,
                   owed, fetched, bounds>>

\* The gateway renders, signs and delivers, and answers with the canonical
\* activity, which record_canonical_result keeps.
GatewayAnswers(d) ==
    LET i == task[d].id IN
    /\ task[d].phase = "sending"
    /\ IF Owns(d, "dispatching")
       THEN /\ mutation' = [mutation EXCEPT ![i].state = "canonical_ready",
                                            ![i].sent = TRUE]
            /\ Hold(d, "ready", i)
       ELSE /\ mutation' = [mutation EXCEPT ![i].sent = TRUE]
            /\ LetGo(d)
    /\ UNCHANGED <<discordVars, objectVars, desiredVars, unsure, log, owed,
                   fetched, bounds>>

\* A timeout, an error status or a cancelled task; the gateway may have acted.
GatewayFails(d, acted) ==
    LET i == task[d].id
        keep == mutation[i].sent \/ acted
    IN
    /\ task[d].phase = "sending"
    /\ mutation' = IF Owns(d, "dispatching")
                   THEN [mutation EXCEPT ![i].state = "ambiguous",
                                         ![i].token = NoDrain, ![i].sent = keep]
                   ELSE [mutation EXCEPT ![i].sent = keep]
    /\ LetGo(d)
    /\ UNCHANGED <<discordVars, objectVars, desiredVars, unsure, log, owed,
                   fetched, bounds>>

\* A successful answer whose body is not JSON raises a ValueError, which
\* drain_mutations takes for a failed local validation.
GatewayAnswersUnreadably(d) ==
    LET i == task[d].id IN
    /\ task[d].phase = "sending"
    /\ unreadable < MaxUnreadable
    /\ unreadable' = unreadable + 1
    /\ IF Owns(d, "dispatching")
       THEN /\ mutation' = [mutation EXCEPT ![i].state = "aborted_pre_send",
                                            ![i].token = NoDrain, ![i].sent = TRUE]
            /\ IF desired = "update" /\ wanted = mutation[i].body
               THEN Want("none", NoText, 0)
               ELSE UNCHANGED desiredVars
       ELSE /\ mutation' = [mutation EXCEPT ![i].sent = TRUE]
            /\ UNCHANGED desiredVars
    /\ Hold(d, "reserve", i)
    /\ UNCHANGED <<discordVars, objectVars, unsure, log, owed, fetched, crashes>>

\* Variant: whatever is wanted counts as satisfied by the commit.
SatisfiedByAny(m) == m.kind \in Kinds

\* The commit satisfies a deletion, or an update to the very same state.
Satisfies(m) ==
    \/ m.kind = "content_delete"
    \/ desired = "update" /\ wanted = m.body

\* commit_canonical: state, token and revision must still be the claimed ones.
CommitCanonical(d) ==
    LET i == task[d].id
        m == mutation[i]
    IN
    /\ task[d].phase = "ready"
    /\ IF Owns(d, "canonical_ready") /\ revision = m.expected
       THEN /\ deleted' = (deleted \/ m.kind = "content_delete")
            /\ body' = IF m.kind = "content_update" THEN m.body ELSE body
            /\ revision' = m.expected + 1
            /\ desired' = IF Satisfies(m) THEN "none" ELSE desired
            /\ log' = Append(log, [kind |-> m.kind, body |-> m.body, stamp |-> m.stamp])
            /\ Set(i, "committed", NoDrain)
            /\ Hold(d, "reserve", i)
       ELSE /\ UNCHANGED <<objectVars, desired, log, mutation>>
            /\ LetGo(d)
    /\ UNCHANGED <<discordVars, wanted, stamp, unsure, owed, fetched, bounds>>

ReserveFollowing(d) ==
    /\ task[d].phase = "reserve"
    /\ ReserveNext(desired, wanted, stamp)
    /\ LetGo(d)
    /\ UNCHANGED <<discordVars, objectVars, desiredVars, unsure, log, owed, fetched,
                   bounds>>

\* The bridge restarts: the database is all that is left.
Crash ==
    /\ crashes < MaxCrashes
    /\ crashes' = crashes + 1
    /\ owed' = FALSE
    /\ fetched' = Nothing
    /\ task' = [d \in Drains |-> Idle]
    /\ UNCHANGED <<discordVars, objectVars, desiredVars, unsure, mutation, log,
                   unreadable>>
-----------------------------------------------------------------------------
Discord == DeleteMessage \/ \E t \in Texts : EditMessage(t)

Events ==
    \/ \E s \in 1..MaxEdits : RecordDesiredUpdate(s)
    \/ RecordDesiredDelete
    \/ RequestReconciliation
    \/ ReserveAdmitted

Reconciler ==
    \/ FetchMessage
    \/ ReconcileUpdate
    \/ ReconcileDelete
    \/ ReconcileReserve
    \/ ClearReconciliation

Drain(d) ==
    \/ \E i \in Ids : ClaimMutation(d, i)
    \/ MarkSendPossible(d)
    \/ GatewayAnswers(d)
    \/ \E acted \in BOOLEAN : GatewayFails(d, acted)
    \/ GatewayAnswersUnreadably(d)
    \/ CommitCanonical(d)
    \/ ReserveFollowing(d)

Next == Discord \/ Events \/ Reconciler \/ (\E d \in Drains : Drain(d)) \/ Crash

Spec == Init /\ [][Next]_vars

\* The bridge learns of the last state of the message, and goes on with what
\* it has begun; the worker claims what is due every 15 seconds; a gateway
\* asked again and again answers.
Fairness ==
    /\ WF_vars(edits # <<>> /\ RecordDesiredUpdate(Len(edits)))
    /\ WF_vars(RecordDesiredDelete)
    /\ WF_vars(ReserveAdmitted)
    /\ WF_vars(Reconciler)
    /\ \A d \in Drains :
          /\ SF_vars(\E i \in Ids : ClaimMutation(d, i))
          /\ WF_vars(MarkSendPossible(d) \/ CommitCanonical(d) \/ ReserveFollowing(d))
          /\ SF_vars(GatewayAnswers(d))

FairSpec == Spec /\ Fairness
-----------------------------------------------------------------------------
Mutation == [kind : Kinds, body : Texts \cup {Removed}, stamp : Stamps,
             expected : 1..(MaxMutations + 1), state : States,
             token : Drains \cup {NoDrain}, sent : BOOLEAN]

TypeOK ==
    /\ edits \in Seq(Texts) /\ Len(edits) <= MaxEdits
    /\ gone \in BOOLEAN
    /\ body \in Texts
    /\ revision \in 1..(MaxMutations + 1)
    /\ deleted \in BOOLEAN
    /\ desired \in {"none", "update", "delete"}
    /\ wanted \in Texts \cup {Removed, NoText}
    /\ stamp \in Stamps
    /\ unsure \in BOOLEAN
    /\ mutation \in Seq(Mutation) /\ Len(mutation) <= MaxMutations
    /\ log \in Seq([kind : Kinds, body : Texts \cup {Removed}, stamp : Stamps])
    /\ owed \in BOOLEAN
    /\ fetched \in [step : {"none", "present", "missing", "reserve", "clear"},
                    body : Texts \cup {NoText}, stamp : Stamps]
    /\ task \in [Drains -> [phase : Phases, id : 0..MaxMutations]]
    /\ crashes \in 0..MaxCrashes
    /\ unreadable \in 0..MaxUnreadable

(* One transition of an object is under way at a time, it starts from the  *)
(* current revision, and none is left once the object is deleted: so       *)
(* commit_canonical never has to refuse a revision.                        *)
OneTransition ==
    \A i \in ActiveIds : /\ ActiveIds = {i}
                         /\ mutation[i].expected = revision
                         /\ ~deleted

(* The outbox relies on it: revision n+1 is the n-th source, each revision *)
(* has exactly one, and a Delete is the last.                              *)
DeleteIsLastSource ==
    /\ Len(log) = revision - 1
    /\ \A n \in 1..Len(log) : log[n].kind = "content_delete" <=> deleted /\ n = Len(log)

(* Edits are published in the order Discord gave them, whatever the order  *)
(* their events, fetches and gateway answers arrive in.                    *)
EditsInOrder ==
    \A m, n \in 1..Len(log) :
        m < n /\ log[n].kind = "content_update" => log[m].stamp < log[n].stamp

(* An admitted edit is not lost: when nothing is wanted any more, the      *)
(* object is deleted or carries the edit that was admitted last.           *)
NothingLost ==
    desired = "none" /\ stamp # 0 => deleted \/ body = wanted

(* The published object ends up as the Discord message is.                 *)
Converges ==
    <>[](IF gone THEN deleted
                 ELSE body = IF edits = <<>> THEN FirstText ELSE edits[Len(edits)])

(* "Durably admit one Discord edit and wake replayable orchestration": what *)
(* was admitted is reserved, so that recovery finds it.                    *)
AdmittedIsReserved == desired # "none" ~> (desired = "none" \/ ActiveIds # {})
=============================================================================
