------------------------- MODULE UserActorDelivery -------------------------
(***************************************************************************)
(* The durable outbox of one registered User Actor: immutable Create,      *)
(* Update, Delete and profile-Update sources, one delivery row per source  *)
(* and remote endpoint, claimed in batches by concurrent drains, handed to *)
(* the Fedify gateway and settled by compare-and-set on the claim token.   *)
(*                                                                         *)
(* A row is a source (an ordering key and a logical version) at one        *)
(* endpoint.  Every repository call is one transaction, hence one action;  *)
(* claim_due, whose loop decides row by row, is a transaction of several   *)
(* steps that nothing else interleaves with (Next).  Time is abstract:     *)
(* which failed rows have sat out their backoff, and which sending rows    *)
(* are older than STALE_CLAIM_SECONDS, is chosen when a claim begins.      *)
(***************************************************************************)
EXTENDS Integers, FiniteSets

CONSTANTS
    ProfileKeys,     \* ordering keys "profile:<user>" of the actor
    ContentKeys,     \* ordering keys "content:<object>" of its publications
    MaxVersion,      \* bound: logical versions per ordering key
    Endpoints,       \* remote inbox URLs, numbered in their sort order
    DirectTargets,   \* endpoints a content source may address directly
    Followers,       \* remote actors
    MaxIncarnation,  \* bound: relationships one remote actor may open
    Bannable,        \* endpoints and actors federation policy may deny
    Drains,          \* concurrent drain_deliveries calls, of any process
    ClaimLimit,      \* PER_USER_CLAIM_LIMIT
    MaxCrashes,      \* bound: drains that die holding a batch
    NoDrain, NoInbox

Keys         == ProfileKeys \cup ContentKeys
Versions     == 1..MaxVersion
Incarnations == 0..MaxIncarnation
Sources      == Keys \X Versions
Rows         == [key : Keys, ver : Versions, ep : Endpoints]

ASSUME KeysAssumption     == ProfileKeys \cap ContentKeys = {}
ASSUME EndpointAssumption == /\ Endpoints \subseteq Nat
                             /\ DirectTargets \subseteq Endpoints
                             /\ NoInbox \notin Endpoints
ASSUME BoundAssumption    == /\ MaxVersion \in Nat
                             /\ MaxIncarnation \in Nat
                             /\ MaxCrashes \in Nat
                             /\ ClaimLimit \in Nat \ {0}
ASSUME DrainAssumption    == NoDrain \notin Drains
ASSUME PolicyAssumption   == Bannable \subseteq Endpoints \cup Followers

VARIABLES
    version,      \* last logical version committed for each ordering key
    deleted,      \* content keys whose last version is a content_delete
    srcState,     \* user_actor_outbound_sources.state
    media,        \* whether the source still owns profile media
    audience,     \* exact follower incarnations snapshotted for a row
    status,       \* user_actor_outbound_deliveries.status
    token,        \* the drain whose claim token the row carries
    incarnation,  \* the latest relationship id of each remote actor, 0 if none
    inbox,        \* its delivery endpoint, NoInbox when it does not follow
    denied,       \* what federation policy currently denies
    writer,       \* the drain inside claim_due's writer reservation
    queue,        \* the candidates its loop has still to look at
    stage,        \* what each drain knows of each row of its batch
    actors,       \* represented_actor_ids read when the row was claimed
    late,         \* requests the gateway still sends after its caller left
    received,     \* rows a remote endpoint has accepted at least once
    remote,       \* the version that reached each endpoint last
    crashes

sourceVars   == <<version, deleted, srcState, media, audience>>
rowVars      == <<status, token>>
followerVars == <<incarnation, inbox>>
claimVars    == <<writer, queue>>
drainVars    == <<stage, actors>>
wireVars     == <<late, received, remote>>
vars == <<version, deleted, srcState, media, audience, status, token,
          incarnation, inbox, denied, writer, queue, stage, actors,
          late, received, remote, crashes>>

Unfinished == {"pending", "sending", "failed"}
Terminal   == {"delivered", "ineligible", "superseded"}
Settled    == Terminal \cup {"absent"}
Statuses   == Settled \cup Unfinished
Stages     == {"free", "claimed", "submitted", "accepted", "refused"}

Init ==
    /\ version = [k \in Keys |-> 0]
    /\ deleted = {}
    /\ srcState = [s \in Sources |-> "none"]
    /\ media = [s \in Sources |-> "none"]
    /\ audience = [r \in Rows |-> {}]
    /\ status = [r \in Rows |-> "absent"]
    /\ token = [r \in Rows |-> NoDrain]
    /\ incarnation = [f \in Followers |-> 0]
    /\ inbox = [f \in Followers |-> NoInbox]
    /\ denied = {}
    /\ writer = NoDrain
    /\ queue = {}
    /\ stage = [d \in Drains |-> [r \in Rows |-> "free"]]
    /\ actors = [d \in Drains |-> [r \in Rows |-> {}]]
    /\ late = {}
    /\ received = {}
    /\ remote = [l \in Keys \X Endpoints |-> 0]
    /\ crashes = 0
-----------------------------------------------------------------------------
(* Rows of one ordering key at one endpoint form a lane.                   *)

Older(r) == {s \in Rows : s.key = r.key /\ s.ep = r.ep /\ s.ver < r.ver}
Newer(r) == {s \in Rows : s.key = r.key /\ s.ep = r.ep /\ s.ver > r.ver}

\* A Delete closes its key (CommitMutation), so it is always the last version.
IsDelete(r) == r.key \in deleted /\ r.ver = version[r.key]

SourceOf(r) == <<r.key, r.ver>>

\* release_terminal_source_media: nothing is released before the source is
\* rendered and every one of its rows has reached a terminal status.
Transportable(src, states, st) ==
    \/ states[src] # "ready"
    \/ \E r \in Rows : SourceOf(r) = src /\ st[r] \in Unfinished

\* Variant: released as soon as the source is rendered.
MediaAfterRender(src, states, st) ==
    IF media[src] = "held" /\ states[src] = "ready"
    THEN [media EXCEPT ![src] = "released"]
    ELSE media

MediaAfter(src, states, st) ==
    IF media[src] = "held" /\ ~Transportable(src, states, st)
    THEN [media EXCEPT ![src] = "released"]
    ELSE media
-----------------------------------------------------------------------------
(* Sources and their audience snapshots.                                   *)

\* Variant: the relationship id of the snapshot is the next one, not the
\* follower's own.
AudienceAtNext(e) ==
    {<<f, incarnation[f] + 1>> : f \in {g \in Followers : inbox[g] = e}}

AudienceAt(e) == {<<f, incarnation[f]>> : f \in {g \in Followers : inbox[g] = e}}

\* One version, its audience and one pending row per endpoint, inserted in
\* the transaction of the mutation that caused it.
InsertSource(k, direct, state, mediaState) ==
    /\ version[k] < MaxVersion
    /\ LET v    == version[k] + 1
           New  == {r \in Rows : r.key = k /\ r.ver = v}
           Aimed == {r \in New : AudienceAt(r.ep) # {} \/ r.ep \in direct}
       IN  /\ version' = [version EXCEPT ![k] = v]
           /\ srcState' = [srcState EXCEPT ![<<k, v>>] = state]
           /\ media' = [media EXCEPT ![<<k, v>>] = mediaState]
           /\ audience' = [r \in Rows |-> IF r \in New THEN AudienceAt(r.ep)
                                                       ELSE audience[r]]
           /\ status' = [r \in Rows |-> IF r \in Aimed THEN "pending"
                                                       ELSE status[r]]
    /\ UNCHANGED <<token, followerVars, denied, claimVars, drainVars, wireVars,
                   crashes>>

\* A committed profile mutation: rendered later, owning the profile's media.
CommitProfile(k, mediaState) ==
    /\ InsertSource(k, {}, "render_pending", mediaState)
    /\ UNCHANGED deleted

\* persist_publish_artifacts: the Create, which may address endpoints directly.
CommitCreate(k, direct) ==
    /\ version[k] = 0
    /\ InsertSource(k, direct, "ready", "none")
    /\ UNCHANGED deleted

\* commit_canonical: the next revision of an object that is not deleted.
CommitMutation(k, deletes) ==
    /\ version[k] > 0
    /\ k \notin deleted
    /\ InsertSource(k, {}, "ready", "none")
    /\ deleted' = IF deletes THEN deleted \cup {k} ELSE deleted

\* The gateway renders the immutable snapshot; record_rendered is a
\* compare-and-set followed by an attempt to release the source's media.
RecordRendered(src) ==
    /\ srcState[src] \in {"render_pending", "render_failed"}
    /\ srcState' = [srcState EXCEPT ![src] = "ready"]
    /\ media' = MediaAfter(src, srcState', status)
    /\ UNCHANGED <<version, deleted, audience, rowVars, followerVars, denied,
                   claimVars, drainVars, wireVars, crashes>>

RecordRenderFailure(src) ==
    /\ srcState[src] \in {"render_pending", "render_failed"}
    /\ srcState' = [srcState EXCEPT ![src] = "render_failed"]
    /\ UNCHANGED <<version, deleted, media, audience, rowVars, followerVars,
                   denied, claimVars, drainVars, wireVars, crashes>>

\* The orphan cleanup releases every source that can no longer execute.
CleanupMedia ==
    /\ media' = [src \in Sources |->
                    IF media[src] = "held" /\ ~Transportable(src, srcState, status)
                    THEN "released" ELSE media[src]]
    /\ media' # media
    /\ UNCHANGED <<version, deleted, srcState, audience, rowVars, followerVars,
                   denied, claimVars, drainVars, wireVars, crashes>>
-----------------------------------------------------------------------------
(* Followers and policy.                                                   *)

\* A Follow opens a relationship with a fresh id, or refreshes the current
\* one in place, endpoint included.
Follow(f, e) ==
    /\ inbox[f] # e
    /\ inbox' = [inbox EXCEPT ![f] = e]
    /\ IF inbox[f] = NoInbox
       THEN /\ incarnation[f] < MaxIncarnation
            /\ incarnation' = [incarnation EXCEPT ![f] = @ + 1]
       ELSE UNCHANGED incarnation
    /\ UNCHANGED <<sourceVars, rowVars, denied, claimVars, drainVars, wireVars,
                   crashes>>

Unfollow(f) ==
    /\ inbox[f] # NoInbox
    /\ inbox' = [inbox EXCEPT ![f] = NoInbox]
    /\ UNCHANGED <<sourceVars, rowVars, incarnation, denied, claimVars,
                   drainVars, wireVars, crashes>>

ChangePolicy(x) ==
    /\ denied' = IF x \in denied THEN denied \ {x} ELSE denied \cup {x}
    /\ UNCHANGED <<sourceVars, rowVars, followerVars, claimVars, drainVars,
                   wireVars, crashes>>
-----------------------------------------------------------------------------
(* claim_due: one writer-reserved transaction, candidate by candidate.     *)

Batch(d) == {r \in Rows : stage[d][r] # "free"}
Idle(d)  == Batch(d) = {}

\* due: the failed rows whose backoff is over and the sending rows that are
\* stale.  A pending row has no next_attempt_at and is always due.
BeginClaim(d, due) ==
    /\ Idle(d)
    /\ queue' = {r \in Rows : /\ srcState[SourceOf(r)] = "ready"
                              /\ \/ status[r] = "pending"
                                 \/ status[r] \in {"failed", "sending"} /\ r \in due}
    /\ queue' # {}
    /\ writer' = d
    /\ UNCHANGED <<sourceVars, rowVars, followerVars, denied, drainVars,
                   wireVars, crashes>>

\* ORDER BY endpoint, Delete first, logical version.
Before(r, s) ==
    \/ r.ep < s.ep
    \/ r.ep = s.ep /\ IsDelete(r) /\ ~IsDelete(s)
    \/ r.ep = s.ep /\ (IsDelete(r) <=> IsDelete(s)) /\ r.ver < s.ver

NextCandidate(d, r) ==
    /\ writer = d
    /\ r \in queue
    /\ \A s \in queue : ~Before(s, r)

\* Variant: only the number of claims is limited.
WithinCountLimit(d, r) == Cardinality(Batch(d)) < ClaimLimit

WithinClaimLimits(d, r) ==
    /\ \A s \in Batch(d) : s.ep # r.ep
    /\ Cardinality(Batch(d)) < ClaimLimit

NewerDeleteIn(r, states) == \E s \in Newer(r) : IsDelete(s) /\ status[s] \in states

HasNewerDelivered(r) ==
    \E s \in Newer(r) : /\ status[s] = "delivered"
                        /\ r.key \in ProfileKeys \/ IsDelete(s)

\* Variants of the FIFO barrier: a Delete bypasses whatever is below it;
\* rows in backoff do not count; a Delete has to wait like any other.
HasLowerUnlessDelete(r) ==
    ~IsDelete(r) /\ \E s \in Older(r) : status[s] \in Unfinished
HasLowerActive(r) ==
    \E s \in Older(r) :
        status[s] \in IF IsDelete(r) THEN {"sending"} ELSE {"pending", "sending"}
HasLowerAtAll(r) == \E s \in Older(r) : status[s] \in Unfinished

HasLowerUnfinished(r) ==
    \E s \in Older(r) : status[s] \in IF IsDelete(r) THEN {"sending"} ELSE Unfinished

Obsolete(r) == NewerDeleteIn(r, {"delivered"}) \/ HasNewerDelivered(r)
Blocked(r)  == NewerDeleteIn(r, Unfinished) \/ HasLowerUnfinished(r)

\* Variant: the actor is matched, not its relationship.
EligibleByActor(r) ==
    {f \in Followers : /\ \E i \in Incarnations : <<f, i>> \in audience[r]
                       /\ inbox[f] = r.ep}

\* Snapshotted incarnations that still follow from the same endpoint.
EligibleActors(r) ==
    {f \in Followers : <<f, incarnation[f]>> \in audience[r] /\ inbox[f] = r.ep}

\* The loop moves on; after the last candidate the transaction commits.
Advance(r) ==
    /\ queue' = queue \ {r}
    /\ writer' = IF queue' = {} THEN NoDrain ELSE writer
    /\ UNCHANGED <<sourceVars, followerVars, denied, wireVars, crashes>>

MarkTerminalWithoutClaim(r, s) ==
    /\ status' = [status EXCEPT ![r] = s]
    /\ token' = [token EXCEPT ![r] = NoDrain]
    /\ UNCHANGED drainVars

Defer(d, r) ==
    /\ NextCandidate(d, r)
    /\ WithinClaimLimits(d, r) => ~Obsolete(r) /\ Blocked(r)
    /\ Advance(r)
    /\ UNCHANGED <<rowVars, drainVars>>

Supersede(d, r) ==
    /\ NextCandidate(d, r)
    /\ WithinClaimLimits(d, r)
    /\ Obsolete(r)
    /\ MarkTerminalWithoutClaim(r, "superseded")
    /\ Advance(r)

DropIneligible(d, r) ==
    /\ NextCandidate(d, r)
    /\ WithinClaimLimits(d, r)
    /\ ~Obsolete(r)
    /\ ~Blocked(r)
    /\ EligibleActors(r) = {}
    /\ MarkTerminalWithoutClaim(r, "ineligible")
    /\ Advance(r)

Claim(d, r) ==
    /\ NextCandidate(d, r)
    /\ WithinClaimLimits(d, r)
    /\ ~Obsolete(r)
    /\ ~Blocked(r)
    /\ EligibleActors(r) # {}
    /\ status' = [status EXCEPT ![r] = "sending"]
    /\ token' = [token EXCEPT ![r] = d]
    /\ stage' = [stage EXCEPT ![d][r] = "claimed"]
    /\ actors' = [actors EXCEPT ![d][r] = EligibleActors(r)]
    /\ Advance(r)
-----------------------------------------------------------------------------
(* drain_deliveries: policy, submission, the gateway call, the outcomes.   *)

\* Variants: no compare-and-set; the status without the token.
OwnsBatchRow(d, r) == stage[d][r] # "free"
OwnsAnyClaim(d, r) == status[r] = "sending" /\ d \in Drains

\* The compare-and-set every worker-side outcome is guarded by.
Owns(d, r) == status[r] = "sending" /\ token[r] = d

\* The drain handles its batch in claim order, that is by endpoint.
First(d, r, stages) ==
    /\ stage[d][r] \in stages
    /\ \A s \in Batch(d) : stage[d][s] \in stages => r.ep <= s.ep

Forget(d, r) ==
    /\ stage' = [stage EXCEPT ![d][r] = "free"]
    /\ actors' = [actors EXCEPT ![d][r] = {}]

Allowed(d, r) == r.ep \notin denied /\ actors[d][r] \ denied # {}

\* The policy store could not be read: release_unsubmitted_claim.
ReleaseUnsubmitted(d, r) ==
    /\ First(d, r, {"claimed"})
    /\ status' = IF Owns(d, r) THEN [status EXCEPT ![r] = "failed"] ELSE status
    /\ token' = IF Owns(d, r) THEN [token EXCEPT ![r] = NoDrain] ELSE token
    /\ Forget(d, r)
    /\ UNCHANGED <<sourceVars, followerVars, denied, claimVars, wireVars, crashes>>

MarkIneligible(d, r) ==
    /\ First(d, r, {"claimed"})
    /\ ~Allowed(d, r)
    /\ status' = IF Owns(d, r) THEN [status EXCEPT ![r] = "ineligible"] ELSE status
    /\ token' = IF Owns(d, r) THEN [token EXCEPT ![r] = NoDrain] ELSE token
    /\ media' = MediaAfter(SourceOf(r), srcState, status')
    /\ Forget(d, r)
    /\ UNCHANGED <<version, deleted, srcState, audience, followerVars, denied,
                   claimVars, wireVars, crashes>>

\* mark_submitted: a drain that lost its claim drops the row untransported.
MarkSubmitted(d, r) ==
    /\ First(d, r, {"claimed"})
    /\ Allowed(d, r)
    /\ IF Owns(d, r)
       THEN /\ stage' = [stage EXCEPT ![d][r] = "submitted"]
            /\ UNCHANGED actors
       ELSE Forget(d, r)
    /\ UNCHANGED <<sourceVars, rowVars, followerVars, denied, claimVars,
                   wireVars, crashes>>

InStage(d, x) == {r \in Rows : stage[d][r] = x}

Arrives(r) ==
    /\ received' = received \cup {r}
    /\ remote' = [remote EXCEPT ![<<r.key, r.ep>>] = r.ver]

\* Variant: an answer that never came counts as success.
TransmitOptimistic(d, r, arrives, ok) ==
    /\ InStage(d, "claimed") = {}
    /\ First(d, r, {"submitted"})
    /\ ok => arrives
    /\ stage' = [stage EXCEPT ![d][r] = "accepted"]
    /\ IF arrives THEN Arrives(r) ELSE UNCHANGED <<received, remote>>
    /\ UNCHANGED <<sourceVars, rowVars, followerVars, denied, claimVars, actors,
                   late, crashes>>

\* The gateway posts the batch in order.  A request the endpoint accepted is
\* reported ok; one that failed is reported failed, whether it arrived or not.
Transmit(d, r, arrives, ok) ==
    /\ InStage(d, "claimed") = {}
    /\ First(d, r, {"submitted"})
    /\ ok => arrives
    /\ stage' = [stage EXCEPT ![d][r] = IF ok THEN "accepted" ELSE "refused"]
    /\ IF arrives THEN Arrives(r) ELSE UNCHANGED <<received, remote>>
    /\ UNCHANGED <<sourceVars, rowVars, followerVars, denied, claimVars, actors,
                   late, crashes>>

\* The call to the gateway times out or fails: every row of the batch counts
\* as failed, while the gateway goes on with what it has not posted yet.
GatewayCallFails(d) ==
    /\ InStage(d, "claimed") = {}
    /\ InStage(d, "submitted") \cup InStage(d, "accepted") # {}
    /\ late' = late \cup InStage(d, "submitted")
    /\ stage' = [stage EXCEPT ![d] =
                    [r \in Rows |-> IF stage[d][r] = "free" THEN "free" ELSE "refused"]]
    /\ UNCHANGED <<sourceVars, rowVars, followerVars, denied, claimVars, actors,
                   received, remote, crashes>>

LateArrival(r) ==
    /\ r \in late
    /\ late' = late \ {r}
    /\ Arrives(r)
    /\ UNCHANGED <<sourceVars, rowVars, followerVars, denied, claimVars,
                   drainVars, crashes>>

\* A successful Delete also finalises the older unsent rows of its lane.
RecordOutcome(d, r) ==
    /\ InStage(d, "claimed") \cup InStage(d, "submitted") = {}
    /\ First(d, r, {"accepted", "refused"})
    /\ LET ok    == stage[d][r] = "accepted"
           Moot  == IF ok /\ IsDelete(r)
                    THEN {s \in Older(r) : status[s] \in {"pending", "failed"}}
                    ELSE {}
       IN  status' = IF ~Owns(d, r) THEN status
                     ELSE [s \in Rows |->
                             CASE s = r       -> IF ok THEN "delivered" ELSE "failed"
                               [] s \in Moot  -> "superseded"
                               [] OTHER       -> status[s]]
    /\ token' = IF Owns(d, r) THEN [token EXCEPT ![r] = NoDrain] ELSE token
    /\ media' = MediaAfter(SourceOf(r), srcState, status')
    /\ Forget(d, r)
    /\ UNCHANGED <<version, deleted, srcState, audience, followerVars, denied,
                   claimVars, wireVars, crashes>>

\* The process dies, or the worker's task is cancelled during shutdown.  The
\* rows stay "sending"; the gateway still posts what it was given.
Crash(d) ==
    /\ crashes < MaxCrashes
    /\ ~Idle(d)
    /\ crashes' = crashes + 1
    /\ late' = IF InStage(d, "claimed") = {}
               THEN late \cup InStage(d, "submitted") ELSE late
    /\ stage' = [stage EXCEPT ![d] = [r \in Rows |-> "free"]]
    /\ actors' = [actors EXCEPT ![d] = [r \in Rows |-> {}]]
    /\ UNCHANGED <<sourceVars, rowVars, followerVars, denied, claimVars,
                   received, remote>>

\* The administration CLI: one delivery, one source, or a bounded batch of
\* the actor's failed rows.
AdminRetry(S) ==
    /\ S # {}
    /\ \A r \in S : status[r] = "failed"
    /\ status' = [r \in Rows |-> IF r \in S THEN "pending" ELSE status[r]]
    /\ token' = [r \in Rows |-> IF r \in S THEN NoDrain ELSE token[r]]
    /\ UNCHANGED <<sourceVars, followerVars, denied, claimVars, drainVars,
                   wireVars, crashes>>
-----------------------------------------------------------------------------
ClaimStep ==
    \E d \in Drains, r \in Rows :
        Defer(d, r) \/ Supersede(d, r) \/ DropIneligible(d, r) \/ Claim(d, r)

Failed  == {r \in Rows : status[r] = "failed"}
Sending == {r \in Rows : status[r] = "sending"}

SourceStep ==
    \/ \E k \in ProfileKeys, m \in {"none", "held"} : CommitProfile(k, m)
    \/ \E k \in ContentKeys : \/ \E direct \in SUBSET DirectTargets : CommitCreate(k, direct)
                             \/ \E deletes \in BOOLEAN : CommitMutation(k, deletes)
    \/ \E src \in Sources : RecordRendered(src) \/ RecordRenderFailure(src)
    \/ CleanupMedia

SocialStep ==
    \/ \E f \in Followers : Unfollow(f) \/ \E e \in Endpoints : Follow(f, e)
    \/ \E x \in Bannable : ChangePolicy(x)

DrainStep ==
    \E d \in Drains :
        \/ \E due \in SUBSET (Failed \cup Sending) : BeginClaim(d, due)
        \/ \E r \in Rows : \/ ReleaseUnsubmitted(d, r)
                           \/ MarkIneligible(d, r)
                           \/ MarkSubmitted(d, r)
                           \/ \E arrives, ok \in BOOLEAN : Transmit(d, r, arrives, ok)
                           \/ RecordOutcome(d, r)
        \/ GatewayCallFails(d)
        \/ Crash(d)

\* While a claim transaction runs, no other step is taken: it holds the
\* database's only writer reservation and reads nothing the others change.
Next ==
    IF writer # NoDrain
    THEN ClaimStep
    ELSE \/ SourceStep
         \/ SocialStep
         \/ DrainStep
         \/ \E r \in Rows : LateArrival(r)
         \/ \E S \in SUBSET Failed : AdminRetry(S)

Spec == Init /\ [][Next]_vars
-----------------------------------------------------------------------------
(* Fairness.  The worker passes every 15 seconds and backoff is bounded by *)
(* 300, so a failed row comes due again and again, and so does a row whose *)
(* drain died; statements of a drain follow each other.  That an endpoint  *)
(* which is tried forever accepts once, and that the policy store, the     *)
(* gateway call and its answer work infinitely often, is the environment's *)
(* part.                                                                   *)

Orphans == {r \in Sending : stage[token[r]][r] = "free"}
FullClaim(d) == BeginClaim(d, Failed \cup Orphans)

Fairness ==
    /\ WF_vars(writer # NoDrain /\ ClaimStep)
    /\ \A src \in Sources : SF_vars(writer = NoDrain /\ RecordRendered(src))
    /\ \A d \in Drains :
          /\ SF_vars(writer = NoDrain /\ FullClaim(d))
          /\ \A r \in Rows :
                /\ SF_vars(writer = NoDrain /\ (MarkSubmitted(d, r) \/ MarkIneligible(d, r)))
                /\ SF_vars(writer = NoDrain /\ Transmit(d, r, TRUE, TRUE))
                /\ SF_vars(writer = NoDrain /\ stage[d][r] = "accepted" /\ RecordOutcome(d, r))
                /\ WF_vars(writer = NoDrain /\ RecordOutcome(d, r))

FairSpec == Spec /\ Fairness
-----------------------------------------------------------------------------
TypeOK ==
    /\ version \in [Keys -> 0..MaxVersion]
    /\ deleted \subseteq ContentKeys
    /\ srcState \in [Sources -> {"none", "render_pending", "render_failed", "ready"}]
    /\ media \in [Sources -> {"none", "held", "released"}]
    /\ audience \in [Rows -> SUBSET (Followers \X Incarnations)]
    /\ status \in [Rows -> Statuses]
    /\ token \in [Rows -> Drains \cup {NoDrain}]
    /\ incarnation \in [Followers -> Incarnations]
    /\ inbox \in [Followers -> Endpoints \cup {NoInbox}]
    /\ denied \subseteq Bannable
    /\ writer \in Drains \cup {NoDrain}
    /\ queue \subseteq Rows
    /\ stage \in [Drains -> [Rows -> Stages]]
    /\ actors \in [Drains -> [Rows -> SUBSET Followers]]
    /\ late \subseteq Rows
    /\ received \subseteq Rows
    /\ remote \in [Keys \X Endpoints -> 0..MaxVersion]
    /\ crashes \in 0..MaxCrashes

(* The per-endpoint version barrier of claim_due: at most one version of   *)
(* an object is in flight to an endpoint, whatever drains, stale claims,   *)
(* crashes and operator retries do.                                        *)
OneInFlight ==
    \A r \in Rows : \A s \in Older(r) : status[r] = "sending" => status[s] # "sending"

(* A version in flight or delivered means that no older version of the     *)
(* object will follow it to that endpoint: each is settled.  A Delete in   *)
(* flight may still have unsent older rows behind it; they are settled     *)
(* with it (record_outcome).                                               *)
VersionBarrier ==
    \A r \in Rows :
        \/ status[r] = "delivered"
        \/ status[r] = "sending" /\ ~IsDelete(r)
        => \A s \in Older(r) : status[s] \in Settled

(* The gateway refuses a batch with two versions for one endpoint          *)
(* (internal-delivery.ts); claim_due never builds one.                     *)
OneVersionPerEndpoint ==
    \A d \in Drains : \A r, s \in Batch(d) : r.ep = s.ep => r = s

(* A source owns its profile media as long as it may still be rendered or  *)
(* transported, so a retry never links to media the cleanup has removed.   *)
MediaRetained ==
    \A src \in Sources :
        media[src] = "released" => ~Transportable(src, srcState, status)

(* A row is recorded delivered only if the endpoint accepted it: no late   *)
(* or foreign outcome, and no failed gateway call, is mistaken for one.    *)
DeliveredWasAccepted ==
    \A r \in Rows : status[r] = "delivered" => r \in received

(* No retry, stale claim or late outcome reopens a row that is delivered,  *)
(* superseded or ineligible.                                               *)
TerminalIsFinal ==
    [][\A r \in Rows : status[r] \in Terminal => status'[r] = status[r]]_vars

(* A claimed row leaves "sending" only through the drain that owns its     *)
(* claim or through a later claim: the outcome of a drain whose claim was  *)
(* taken over is ignored.                                                  *)
OnlyOwnerSettles ==
    [][\A r \in Rows :
          status[r] = "sending" /\ status'[r] # "sending"
          => \/ r \in queue
             \/ stage[token[r]][r] # "free" /\ stage'[token[r]][r] = "free"]_vars

Departed(r) == \A fi \in audience[r] : incarnation[fi[1]] # fi[2] \/ inbox[fi[1]] = NoInbox

(* Once every follower a row was addressed to has left, the row is never   *)
(* claimed again, even if the same actors follow anew.                     *)
RefollowDoesNotRevive ==
    [][\A r \in Rows : Departed(r) /\ status[r] # "sending" => status'[r] # "sending"]_vars

(* The rows keep the promises of OrderedOutbox.                            *)
Progress == [r \in Rows |->
    CASE status[r] = "absent"              -> "absent"
      [] status[r] \in {"pending", "failed"} -> "waiting"
      [] status[r] = "sending"             -> "sending"
      [] status[r] = "delivered"           -> "sent"
      [] OTHER                             -> "dropped"]
Outbox == INSTANCE OrderedOutbox WITH closed <- deleted, state <- Progress
ImplementsOutbox == Outbox!Spec

\* A Delete waits for a claim whose drain is gone, and that row for the Delete.
Stuck(r) ==
    \E s, t \in Rows : /\ {s.key, t.key} = {r.key} /\ {s.ep, t.ep} = {r.ep}
                       /\ s \in Older(t) /\ s \in Orphans
                       /\ IsDelete(t) /\ status[t] \in Unfinished

(* Every queued delivery is eventually delivered, superseded or dropped,   *)
(* through refusals, lost answers, retries and crashes; the one exception  *)
(* is the lane in which a Delete meets a claim whose drain died.           *)
EveryRowSettles ==
    \A r \in Rows : status[r] \in Unfinished ~> (status[r] \in Settled \/ Stuck(r))

(* "Claims use durable sending ownership, stale-claim recovery": a row     *)
(* whose drain died leaves "sending" again.                                *)
StaleClaimsRecovered ==
    \A r \in Rows : status[r] = "sending" ~> status[r] # "sending"

(* "A delivered terminal Delete prevents later stale Create or Update      *)
(* delivery for the same object and endpoint": what the endpoint saw last  *)
(* is the Delete.                                                          *)
DeliveredDeleteIsLast ==
    \A r \in Rows :
        IsDelete(r) /\ status[r] = "delivered" => remote[<<r.key, r.ep>>] = r.ver
=============================================================================
