----------------------- MODULE UserActorDeliveryProofs -----------------------
(***************************************************************************)
(* Theorems about UserActorDelivery for every number of objects, versions, *)
(* endpoints, followers, drains and crashes: types, the version barrier    *)
(* and finality; then what the drains know of their batches, who settles a *)
(* claim, how long media and audiences matter, and that UserActorDelivery  *)
(* implements OrderedOutbox.                                               *)
(***************************************************************************)
EXTENDS UserActorDelivery, TLAPS

(* A row is a source at an endpoint.                                       *)
LEMMA RowParts ==
    \A r \in Rows : r.key \in Keys /\ r.ver \in Versions /\ r.ep \in Endpoints
  BY DEF Rows

(* Every variable keeps its type: the first conjunct of every invariant    *)
(* below.                                                                  *)
LEMMA TypeInit == Init => TypeOK
  BY BoundAssumption
  DEF Init, TypeOK, Statuses, Settled, Stages, Incarnations

LEMMA TypeSource == TypeOK /\ SourceStep => TypeOK'
  <1> SUFFICES ASSUME TypeOK, SourceStep PROVE TypeOK'
    OBVIOUS
  <1>1. ASSUME NEW k \in Keys, NEW direct,
               NEW st \in {"render_pending", "ready"}, NEW m \in {"none", "held"},
               InsertSource(k, direct, st, m), deleted' \subseteq ContentKeys
        PROVE  TypeOK'
    <2> DEFINE v == version[k] + 1
               New == {r \in Rows : r.key = k /\ r.ver = v}
               Aimed == {r \in New : AudienceAt(r.ep) # {} \/ r.ep \in direct}
    <2>1. /\ version' = [version EXCEPT ![k] = v]
          /\ srcState' = [srcState EXCEPT ![<<k, v>>] = st]
          /\ media' = [media EXCEPT ![<<k, v>>] = m]
          /\ audience' = [r \in Rows |-> IF r \in New THEN AudienceAt(r.ep)
                                                      ELSE audience[r]]
          /\ status' = [r \in Rows |-> IF r \in Aimed THEN "pending" ELSE status[r]]
          /\ version[k] < MaxVersion
          /\ UNCHANGED <<token, followerVars, denied, claimVars, drainVars, wireVars,
                         crashes>>
      BY <1>1 DEF InsertSource
    <2>3. version' \in [Keys -> 0..MaxVersion]
      BY <2>1, BoundAssumption DEF TypeOK
    <2>4. srcState' \in [Sources -> {"none", "render_pending", "render_failed", "ready"}]
      BY <2>1 DEF TypeOK
    <2>5. media' \in [Sources -> {"none", "held", "released"}]
      BY <2>1 DEF TypeOK
    <2>6. ASSUME NEW e
          PROVE  AudienceAt(e) \in SUBSET (Followers \X Incarnations)
      BY DEF TypeOK, AudienceAt
    <2>7. audience' \in [Rows -> SUBSET (Followers \X Incarnations)]
      BY <2>1, <2>6 DEF TypeOK
    <2>8. status' \in [Rows -> Statuses]
      BY <2>1 DEF TypeOK, Statuses, Unfinished
    <2> QED
      BY <1>1, <2>1, <2>3, <2>4, <2>5, <2>7, <2>8
      DEF TypeOK, followerVars, claimVars, drainVars, wireVars
  <1>2. ASSUME NEW k \in ProfileKeys, NEW m \in {"none", "held"}, CommitProfile(k, m)
        PROVE  TypeOK'
    BY <1>1, <1>2 DEF CommitProfile, Keys, TypeOK
  <1>3. ASSUME NEW k \in ContentKeys,
               \/ \E direct \in SUBSET DirectTargets : CommitCreate(k, direct)
               \/ \E deletes \in BOOLEAN : CommitMutation(k, deletes)
        PROVE  TypeOK'
    BY <1>1, <1>3 DEF CommitCreate, CommitMutation, Keys, TypeOK
  <1>4. ASSUME NEW src \in Sources, RecordRendered(src) \/ RecordRenderFailure(src)
        PROVE  TypeOK'
    BY <1>4 DEF RecordRendered, RecordRenderFailure, MediaAfter, TypeOK, rowVars,
                followerVars, claimVars, drainVars, wireVars
  <1>5. CASE CleanupMedia
    BY <1>5 DEF CleanupMedia, TypeOK, rowVars, followerVars, claimVars, drainVars, wireVars
  <1> QED
    BY <1>2, <1>3, <1>4, <1>5 DEF SourceStep

LEMMA TypeSocial == TypeOK /\ SocialStep => TypeOK'
  <1> SUFFICES ASSUME TypeOK, SocialStep PROVE TypeOK'
    OBVIOUS
  <1> USE DEF TypeOK, sourceVars, rowVars, claimVars, drainVars, wireVars
  <1>1. ASSUME NEW f \in Followers, Unfollow(f) PROVE TypeOK'
    BY <1>1 DEF Unfollow
  <1>2. ASSUME NEW f \in Followers, NEW e \in Endpoints, Follow(f, e) PROVE TypeOK'
    <2>1. incarnation' \in [Followers -> Incarnations]
      <3>1. incarnation[f] \in 0..MaxIncarnation
        BY DEF Incarnations
      <3>2. incarnation[f] < MaxIncarnation => incarnation[f] + 1 \in Incarnations
        BY <3>1, BoundAssumption DEF Incarnations
      <3> QED
        BY <1>2, <3>2 DEF Follow
    <2> QED
      BY <1>2, <2>1 DEF Follow
  <1>3. ASSUME NEW x \in Bannable, ChangePolicy(x) PROVE TypeOK'
    BY <1>3 DEF ChangePolicy, followerVars
  <1> QED
    BY <1>1, <1>2, <1>3 DEF SocialStep

LEMMA TypeClaim == TypeOK /\ ClaimStep => TypeOK'
  <1> SUFFICES ASSUME TypeOK, NEW d \in Drains, NEW r \in Rows,
                      \/ Defer(d, r) \/ Supersede(d, r)
                      \/ DropIneligible(d, r) \/ Claim(d, r)
               PROVE  TypeOK'
    BY DEF ClaimStep
  <1> USE DEF TypeOK, Advance, sourceVars, followerVars, drainVars, rowVars, wireVars,
              Statuses, Settled, Unfinished, Terminal
  <1>1. CASE Defer(d, r)
    BY <1>1 DEF Defer
  <1>2. CASE Supersede(d, r)
    BY <1>2 DEF Supersede, MarkTerminalWithoutClaim
  <1>3. CASE DropIneligible(d, r)
    BY <1>3 DEF DropIneligible, MarkTerminalWithoutClaim
  <1>4. CASE Claim(d, r)
    <2>1. EligibleActors(r) \in SUBSET Followers
      BY DEF EligibleActors
    <2>2. stage' \in [Drains -> [Rows -> Stages]]
      BY <1>4 DEF Claim, Stages
    <2>3. actors' \in [Drains -> [Rows -> SUBSET Followers]]
      BY <1>4, <2>1 DEF Claim
    <2> QED
      BY <1>4, <2>2, <2>3 DEF Claim
  <1> QED
    BY <1>1, <1>2, <1>3, <1>4

LEMMA TypeDrain == TypeOK /\ DrainStep => TypeOK'
  <1> SUFFICES ASSUME TypeOK, NEW d \in Drains,
                      \/ \E due \in SUBSET (Failed \cup Sending) : BeginClaim(d, due)
                      \/ \E r \in Rows : \/ ReleaseUnsubmitted(d, r)
                                         \/ MarkIneligible(d, r)
                                         \/ MarkSubmitted(d, r)
                                         \/ \E arrives, ok \in BOOLEAN :
                                                Transmit(d, r, arrives, ok)
                                         \/ RecordOutcome(d, r)
                      \/ GatewayCallFails(d)
                      \/ Crash(d)
               PROVE  TypeOK'
    BY DEF DrainStep
  <1> USE DEF TypeOK, sourceVars, followerVars, drainVars, rowVars, wireVars, claimVars
  <1>f. ASSUME NEW r \in Rows, Forget(d, r)
        PROVE  /\ stage' \in [Drains -> [Rows -> Stages]]
               /\ actors' \in [Drains -> [Rows -> SUBSET Followers]]
    BY <1>f DEF Forget, Stages
  <1>m. ASSUME NEW src, NEW st
        PROVE  MediaAfter(src, srcState, st) \in [Sources -> {"none", "held", "released"}]
    BY DEF MediaAfter
  <1>1. ASSUME NEW due, BeginClaim(d, due) PROVE TypeOK'
    BY <1>1 DEF BeginClaim
  <1>2. ASSUME NEW r \in Rows, ReleaseUnsubmitted(d, r) PROVE TypeOK'
    BY <1>2, <1>f DEF ReleaseUnsubmitted, Statuses, Unfinished
  <1>3. ASSUME NEW r \in Rows, MarkIneligible(d, r) PROVE TypeOK'
    BY <1>3, <1>f, <1>m DEF MarkIneligible, Statuses, Settled, Terminal
  <1>4. ASSUME NEW r \in Rows, MarkSubmitted(d, r) PROVE TypeOK'
    <2>1. CASE Owns(d, r)
      <3>1. /\ stage' = [stage EXCEPT ![d][r] = "submitted"]
            /\ UNCHANGED actors
        BY <1>4, <2>1 DEF MarkSubmitted
      <3>2. stage' \in [Drains -> [Rows -> Stages]]
        BY <3>1 DEF Stages
      <3> QED
        BY <1>4, <3>1, <3>2 DEF MarkSubmitted
    <2>2. CASE ~Owns(d, r)
      BY <1>4, <2>2, <1>f DEF MarkSubmitted
    <2> QED
      BY <2>1, <2>2
  <1>5. ASSUME NEW r \in Rows, NEW arrives \in BOOLEAN, NEW ok \in BOOLEAN,
               Transmit(d, r, arrives, ok)
        PROVE  TypeOK'
    <2>1. stage' \in [Drains -> [Rows -> Stages]]
      BY <1>5 DEF Transmit, Stages
    <2>2. received' \subseteq Rows /\ remote' \in [Keys \X Endpoints -> 0..MaxVersion]
      <3>1. CASE arrives
        <4>1. Arrives(r)
          BY <1>5, <3>1 DEF Transmit
        <4> QED
          BY <4>1, RowParts DEF Arrives, Versions
      <3>2. CASE ~arrives
        BY <1>5, <3>2 DEF Transmit
      <3> QED
        BY <3>1, <3>2
    <2> QED
      BY <1>5, <2>1, <2>2 DEF Transmit
  <1>6. ASSUME NEW r \in Rows, RecordOutcome(d, r) PROVE TypeOK'
    <2>1. status' \in [Rows -> Statuses]
      <3>1. CASE ~Owns(d, r)
        BY <1>6, <3>1 DEF RecordOutcome
      <3>2. CASE Owns(d, r)
        BY <1>6, <3>2 DEF RecordOutcome, Statuses, Settled, Terminal, Unfinished
      <3> QED
        BY <3>1, <3>2
    <2> QED
      BY <1>6, <1>f, <1>m, <2>1 DEF RecordOutcome
  <1>7. ASSUME GatewayCallFails(d) PROVE TypeOK'
    <2>1. late' \subseteq Rows
      BY <1>7 DEF GatewayCallFails, InStage
    <2>2. stage' \in [Drains -> [Rows -> Stages]]
      BY <1>7 DEF GatewayCallFails, Stages
    <2> QED
      BY <1>7, <2>1, <2>2 DEF GatewayCallFails
  <1>8. ASSUME Crash(d) PROVE TypeOK'
    <2>1. late' \subseteq Rows
      BY <1>8 DEF Crash, InStage
    <2>2. /\ stage' \in [Drains -> [Rows -> Stages]]
          /\ actors' \in [Drains -> [Rows -> SUBSET Followers]]
      BY <1>8 DEF Crash, Stages
    <2>3. crashes' \in 0..MaxCrashes
      BY <1>8, BoundAssumption DEF Crash
    <2> QED
      BY <1>8, <2>1, <2>2, <2>3 DEF Crash
  <1> QED
    BY <1>1, <1>2, <1>3, <1>4, <1>5, <1>6, <1>7, <1>8

LEMMA TypeLate == \A r \in Rows : TypeOK /\ LateArrival(r) => TypeOK'
  BY RowParts DEF TypeOK, LateArrival, Arrives, Versions, sourceVars, followerVars,
         drainVars, rowVars, claimVars

LEMMA TypeRetry == \A S \in SUBSET Failed : TypeOK /\ AdminRetry(S) => TypeOK'
  BY DEF TypeOK, AdminRetry, Statuses, Unfinished, sourceVars, followerVars,
         drainVars, wireVars, claimVars

LEMMA TypeStep == TypeOK /\ [Next]_vars => TypeOK'
  <1> SUFFICES ASSUME TypeOK, [Next]_vars PROVE TypeOK'
    OBVIOUS
  <1>1. CASE Next
    BY <1>1, TypeClaim, TypeSource, TypeSocial, TypeDrain, TypeLate, TypeRetry DEF Next
  <1>2. CASE UNCHANGED vars
    BY <1>2 DEF vars, TypeOK
  <1> QED
    BY <1>1, <1>2

(* The state stays well typed whatever the drains, the remote servers, the *)
(* operator and the crashes do.                                            *)
THEOREM TypeCorrect == Spec => []TypeOK
  BY TypeInit, TypeStep, PTL DEF Spec
-----------------------------------------------------------------------------
(* The version barrier.  Neither VersionBarrier nor OneInFlight is         *)
(* inductive alone: a claim transaction decides on rows it queued earlier, *)
(* and a new version must find no newer row of its lane.                   *)

(* Nothing but the running claim transaction has a queue, and none of its  *)
(* candidates is finished.                                                 *)
QueueInv ==
    /\ writer = NoDrain => queue = {}
    /\ \A r \in queue : status[r] \in Unfinished

(* Rows exist only for committed versions.                                 *)
SourceInv == \A r \in Rows : status[r] # "absent" => r.ver <= version[r.key]

(* Only a published object is deleted.                                      *)
DeletedInv == \A k \in deleted : version[k] > 0

Inv == TypeOK /\ QueueInv /\ SourceInv /\ DeletedInv /\ VersionBarrier /\ OneInFlight

(* The four ways in which a step may change statuses.                      *)
Inserts(k) ==
    /\ k \in Keys \ deleted
    /\ version' = [version EXCEPT ![k] = version[k] + 1]
    /\ deleted' \in {deleted, deleted \cup {k}}
    /\ \A r \in Rows : \/ status'[r] = status[r]
                       \/ /\ r.key = k /\ r.ver = version[k] + 1
                          /\ status'[r] = "pending"

Shrinks ==
    /\ UNCHANGED <<version, deleted>>
    /\ \A r \in Rows :
          \/ status'[r] = status[r]
          \/ /\ status[r] \in Unfinished
             /\ status'[r] \in {"pending", "failed", "ineligible", "superseded"}

Starts(d, r) == Claim(d, r) /\ UNCHANGED <<version, deleted>>

Delivers(d, r) ==
    /\ UNCHANGED <<version, deleted>>
    /\ Owns(d, r)
    /\ status' = [s \in Rows |->
          CASE s = r -> "delivered"
            [] s # r /\ IsDelete(r) /\ s \in Older(r) /\ status[s] \in {"pending", "failed"}
                  -> "superseded"
            [] OTHER -> status[s]]

LEMMA InsertShape ==
    ASSUME TypeOK, NEW k \in Keys \ deleted, NEW direct, NEW st, NEW m,
           InsertSource(k, direct, st, m),
           deleted' \in {deleted, deleted \cup {k}}
    PROVE  Inserts(k)
  BY DEF InsertSource, Inserts, TypeOK

LEMMA StepShape ==
    ASSUME Inv, Next
    PROVE  \/ \E k \in Keys : Inserts(k)
           \/ Shrinks
           \/ \E d \in Drains, r \in Rows : Starts(d, r) \/ Delivers(d, r)
  <1> USE DEF Inv
  <1>1. CASE SourceStep
    <2>1. ASSUME NEW k \in ProfileKeys, NEW m \in {"none", "held"}, CommitProfile(k, m)
          PROVE  Inserts(k) /\ k \in Keys
      BY <2>1, InsertShape, KeysAssumption DEF CommitProfile, Keys, TypeOK
    <2>2. ASSUME NEW k \in ContentKeys, NEW direct \in SUBSET DirectTargets,
                 CommitCreate(k, direct)
          PROVE  Inserts(k) /\ k \in Keys
      <3>1. k \notin deleted
        BY <2>2 DEF CommitCreate, DeletedInv
      <3> QED
        BY <2>2, <3>1, InsertShape DEF CommitCreate, Keys
    <2>5. ASSUME NEW k \in ContentKeys, NEW deletes \in BOOLEAN,
                 CommitMutation(k, deletes)
          PROVE  Inserts(k) /\ k \in Keys
      BY <2>5, InsertShape DEF CommitMutation, Keys
    <2>3. ASSUME NEW src \in Sources, RecordRendered(src) \/ RecordRenderFailure(src)
          PROVE  Shrinks
      BY <2>3 DEF RecordRendered, RecordRenderFailure, rowVars, Shrinks
    <2>4. CASE CleanupMedia
      BY <2>4 DEF CleanupMedia, rowVars, Shrinks
    <2> QED
      BY <1>1, <2>1, <2>2, <2>3, <2>4, <2>5 DEF SourceStep
  <1>2. CASE SocialStep
    BY <1>2 DEF SocialStep, Unfollow, Follow, ChangePolicy, Shrinks, sourceVars, rowVars
  <1>3. CASE ClaimStep
    <2> SUFFICES ASSUME NEW d \in Drains, NEW r \in Rows,
                        \/ Defer(d, r) \/ Supersede(d, r)
                        \/ DropIneligible(d, r) \/ Claim(d, r)
                 PROVE  Shrinks \/ Starts(d, r)
      BY <1>3 DEF ClaimStep
    <2>1. CASE Defer(d, r)
      BY <2>1 DEF Defer, Advance, Shrinks, sourceVars, rowVars
    <2>2. CASE Supersede(d, r) \/ DropIneligible(d, r)
      <3>1. r \in queue /\ status[r] \in Unfinished
        BY <2>2 DEF Supersede, DropIneligible, NextCandidate, QueueInv
      <3> QED
        BY <2>2, <3>1 DEF Supersede, DropIneligible, MarkTerminalWithoutClaim, Advance,
                          Shrinks, sourceVars, TypeOK
    <2>3. CASE Claim(d, r)
      BY <2>3 DEF Claim, Advance, Starts, sourceVars
    <2> QED
      BY <2>1, <2>2, <2>3
  <1>4. CASE DrainStep
    <2>1. ASSUME NEW d \in Drains, NEW due, BeginClaim(d, due) PROVE Shrinks
      BY <2>1 DEF BeginClaim, Shrinks, sourceVars, rowVars
    <2>2. ASSUME NEW d \in Drains, NEW r \in Rows,
                 ReleaseUnsubmitted(d, r) \/ MarkIneligible(d, r)
          PROVE  Shrinks
      BY <2>2 DEF ReleaseUnsubmitted, MarkIneligible, Owns, Shrinks, sourceVars,
                  Unfinished, TypeOK
    <2>3. ASSUME NEW d \in Drains, NEW r \in Rows, NEW arrives, NEW ok,
                 MarkSubmitted(d, r) \/ Transmit(d, r, arrives, ok)
          PROVE  Shrinks
      BY <2>3 DEF MarkSubmitted, Transmit, Shrinks, sourceVars, rowVars
    <2>4. ASSUME NEW d \in Drains, GatewayCallFails(d) \/ Crash(d) PROVE Shrinks
      BY <2>4 DEF GatewayCallFails, Crash, Shrinks, sourceVars, rowVars
    <2>5. ASSUME NEW d \in Drains, NEW r \in Rows, RecordOutcome(d, r)
          PROVE  Shrinks \/ Delivers(d, r)
      <3>1. CASE ~Owns(d, r)
        BY <2>5, <3>1 DEF RecordOutcome, Shrinks
      <3>2. CASE Owns(d, r) /\ stage[d][r] = "accepted"
        <4> DEFINE Moot == IF IsDelete(r)
                           THEN {s \in Older(r) : status[s] \in {"pending", "failed"}}
                           ELSE {}
        <4>1. status' = [s \in Rows |->
                            CASE s = r       -> "delivered"
                              [] s \in Moot  -> "superseded"
                              [] OTHER       -> status[s]]
          BY <2>5, <3>2 DEF RecordOutcome
        <4>2. r \notin Moot
          BY RowParts, EndpointAssumption DEF Older, Versions
        <4> QED
          BY <2>5, <3>2, <4>1, <4>2 DEF RecordOutcome, Delivers
      <3>3. CASE Owns(d, r) /\ stage[d][r] # "accepted"
        <4>1. status' = [s \in Rows |-> IF s = r THEN "failed" ELSE status[s]]
          BY <2>5, <3>3 DEF RecordOutcome
        <4> QED
          BY <2>5, <3>3, <4>1 DEF RecordOutcome, Owns, Shrinks, Unfinished
      <3> QED
        BY <3>1, <3>2, <3>3
    <2> QED
      BY <1>4, <2>1, <2>2, <2>3, <2>4, <2>5 DEF DrainStep
  <1>5. ASSUME NEW r \in Rows, LateArrival(r) PROVE Shrinks
    BY <1>5 DEF LateArrival, Shrinks, sourceVars, rowVars
  <1>6. ASSUME NEW S \in SUBSET Failed, AdminRetry(S) PROVE Shrinks
    BY <1>6 DEF AdminRetry, Failed, Shrinks, Unfinished, sourceVars
  <1> QED
    BY <1>1, <1>2, <1>3, <1>4, <1>5, <1>6 DEF Next

LEMMA LaneOrder ==
    ASSUME NEW r \in Rows, NEW s \in Rows
    PROVE  /\ r \in Older(s) <=> s \in Newer(r)
           /\ r \in Older(s) => r # s /\ r.key = s.key /\ r.ep = s.ep /\ s.ver > r.ver
           /\ r.ver \in Nat
  BY RowParts, BoundAssumption DEF Older, Newer, Versions

(* Each kind of step keeps the version barrier.                            *)
Barrier == VersionBarrier /\ OneInFlight

LEMMA ShrinkKeepsBarrier == Inv /\ Shrinks => Barrier'
  <1> SUFFICES ASSUME Inv, Shrinks PROVE Barrier'
    OBVIOUS
  <1> USE DEF Inv
  <1>1. \A r \in Rows : IsDelete(r)' <=> IsDelete(r)
    BY DEF Shrinks, IsDelete
  <1>2. ASSUME NEW r \in Rows, NEW s \in Older(r),
               \/ status'[r] = "delivered"
               \/ status'[r] = "sending" /\ ~IsDelete(r)'
        PROVE  status'[s] \in Settled
    <2>1. s \in Rows /\ status'[r] = status[r]
      BY <1>2 DEF Shrinks, Older
    <2>2. status[s] \in Settled
      BY <1>1, <1>2, <2>1 DEF VersionBarrier
    <2> QED
      BY <2>1, <2>2 DEF Shrinks, Settled, Terminal, Unfinished
  <1>3. ASSUME NEW r \in Rows, NEW s \in Older(r), status'[r] = "sending"
        PROVE  status'[s] # "sending"
    <2>1. s \in Rows /\ status[r] = "sending"
      BY <1>3 DEF Shrinks, Older
    <2> QED
      BY <2>1 DEF OneInFlight, Shrinks
  <1> QED
    BY <1>2, <1>3 DEF Barrier, VersionBarrier, OneInFlight, Older

LEMMA InsertKeepsBarrier == \A k \in Keys : Inv /\ Inserts(k) => Barrier'
  <1> SUFFICES ASSUME NEW k \in Keys, Inv, Inserts(k) PROVE Barrier'
    OBVIOUS
  <1> USE DEF Inv
  <1>1. version[k] \in 0..MaxVersion
    BY DEF TypeOK
  <1>2. \A r \in Rows : status'[r] \in {"sending", "delivered"} => status'[r] = status[r]
    BY DEF Inserts
  <1>3. ASSUME NEW r \in Rows, status[r] # "absent" PROVE IsDelete(r)' <=> IsDelete(r)
    <2>1. r.key \in Keys /\ r.ver \in Nat /\ r.ver <= version[r.key]
      BY <1>3, LaneOrder, RowParts DEF SourceInv
    <2>2. CASE r.key # k
      BY <2>1, <2>2 DEF Inserts, IsDelete, TypeOK
    <2>3. CASE r.key = k
      <3>1. version'[r.key] = version[k] + 1
        BY <2>1, <2>3 DEF Inserts, TypeOK
      <3>2. r.ver # version'[r.key]
        BY <1>1, <2>1, <2>3, <3>1
      <3> QED
        BY <2>3, <3>2 DEF Inserts, IsDelete
    <2> QED
      BY <2>2, <2>3
  <1>4. ASSUME NEW r \in Rows, NEW s \in Older(r), status[r] # "absent"
        PROVE  status'[s] = status[s]
    <2>1. s \in Rows /\ s.key = r.key /\ s.ver < r.ver /\ s.ver \in Nat /\ r.ver \in Nat
      BY LaneOrder DEF Older
    <2>2. r.ver <= version[r.key]
      BY <1>4 DEF SourceInv
    <2>3. ~(s.key = k /\ s.ver = version[k] + 1)
      BY <1>1, <2>1, <2>2
    <2> QED
      BY <2>1, <2>3 DEF Inserts
  <1>5. ASSUME NEW r \in Rows, NEW s \in Older(r),
               \/ status'[r] = "delivered"
               \/ status'[r] = "sending" /\ ~IsDelete(r)'
        PROVE  status'[s] \in Settled
    BY <1>2, <1>3, <1>4, <1>5 DEF VersionBarrier
  <1>6. ASSUME NEW r \in Rows, NEW s \in Older(r), status'[r] = "sending"
        PROVE  status'[s] # "sending"
    BY <1>2, <1>4, <1>6 DEF OneInFlight
  <1> QED
    BY <1>5, <1>6 DEF Barrier, VersionBarrier, OneInFlight, Older

LEMMA StartKeepsBarrier ==
    \A d \in Drains, r \in Rows : Inv /\ Starts(d, r) => Barrier'
  <1> SUFFICES ASSUME NEW d \in Drains, NEW r \in Rows, Inv, Starts(d, r) PROVE Barrier'
    OBVIOUS
  <1> USE DEF Inv
  <1>1. /\ status' = [status EXCEPT ![r] = "sending"]
        /\ r \in queue /\ ~Blocked(r)
        /\ UNCHANGED <<version, deleted>>
    BY DEF Starts, Claim, NextCandidate
  <1>2. status[r] \in Unfinished
    BY <1>1 DEF QueueInv
  <1>3. \A s \in Rows : IsDelete(s)' <=> IsDelete(s)
    BY <1>1 DEF IsDelete
  <1>4. \A s \in Older(r) : /\ status[s] # "sending"
                            /\ ~IsDelete(r) => status[s] \in Settled
    <2> SUFFICES ASSUME NEW s \in Older(r)
                 PROVE  /\ status[s] # "sending"
                        /\ ~IsDelete(r) => status[s] \in Settled
      OBVIOUS
    <2>1. s \in Rows /\ status[s] \in Statuses
      BY DEF Older, TypeOK
    <2>2. status[s] \notin IF IsDelete(r) THEN {"sending"} ELSE Unfinished
      BY <1>1 DEF Blocked, HasLowerUnfinished
    <2> QED
      BY <2>1, <2>2 DEF Statuses, Unfinished
  <1>5. \A s \in Rows : r \in Older(s) => status[s] \notin {"sending", "delivered"}
    <2> SUFFICES ASSUME NEW s \in Rows, r \in Older(s), status[s] \in {"sending", "delivered"}
                 PROVE  FALSE
      OBVIOUS
    <2>1. status[r] \notin Settled
      BY <1>2 DEF Unfinished, Settled, Terminal
    <2>2. status[s] = "sending" /\ IsDelete(s)
      BY <2>1 DEF VersionBarrier
    <2>3. s \in Newer(r)
      BY LaneOrder
    <2> QED
      BY <1>1, <2>2, <2>3 DEF Blocked, NewerDeleteIn, Unfinished
  <1>6. \A s \in Rows : s # r => status'[s] = status[s]
    BY <1>1 DEF TypeOK
  <1>7. \A s \in Older(r) : s # r
    BY LaneOrder DEF Older
  <1>8. ASSUME NEW t \in Rows, NEW s \in Older(t),
               \/ status'[t] = "delivered"
               \/ status'[t] = "sending" /\ ~IsDelete(t)'
        PROVE  status'[s] \in Settled
    <2>1. CASE t = r
      <3>1. ~IsDelete(r)
        BY <1>1, <1>3, <1>8, <2>1 DEF TypeOK
      <3> QED
        BY <1>4, <1>6, <1>7, <2>1, <3>1 DEF Older
    <2>2. CASE t # r
      <3>1. status[t] = status'[t]
        BY <1>6, <2>2
      <3>2. s # r
        BY <1>5, <1>8, <3>1
      <3> QED
        BY <1>3, <1>6, <1>8, <3>1, <3>2 DEF VersionBarrier, Older
    <2> QED
      BY <2>1, <2>2
  <1>9. ASSUME NEW t \in Rows, NEW s \in Older(t), status'[t] = "sending"
        PROVE  status'[s] # "sending"
    <2>1. CASE t = r
      BY <1>4, <1>6, <1>7, <2>1 DEF Older
    <2>2. CASE t # r
      <3>1. status[t] = "sending"
        BY <1>6, <1>9, <2>2
      <3>2. s # r
        BY <1>5, <3>1
      <3> QED
        BY <1>6, <3>1, <3>2 DEF OneInFlight, Older
    <2> QED
      BY <2>1, <2>2
  <1> QED
    BY <1>8, <1>9 DEF Barrier, VersionBarrier, OneInFlight, Older

LEMMA DeliverKeepsBarrier ==
    \A d \in Drains, r \in Rows : Inv /\ Delivers(d, r) => Barrier'
  <1> SUFFICES ASSUME NEW d \in Drains, NEW r \in Rows, Inv, Delivers(d, r) PROVE Barrier'
    OBVIOUS
  <1> USE DEF Inv
  <1>1. status[r] = "sending" /\ status'[r] = "delivered"
    BY DEF Delivers, Owns
  <1>2. \A s \in Rows : IsDelete(s)' <=> IsDelete(s)
    BY DEF Delivers, IsDelete
  <1>3. \A s \in Rows : s # r => \/ status'[s] = status[s]
                                 \/ status'[s] = "superseded"
    BY DEF Delivers
  <1>4. ASSUME NEW s \in Older(r) PROVE status'[s] \in Settled
    <2>1. s \in Rows /\ s # r /\ status[s] \in Statuses
      BY LaneOrder DEF Older, TypeOK
    <2>2. CASE IsDelete(r)
      <3>1. status[s] # "sending"
        BY <1>1 DEF OneInFlight
      <3>2. CASE status[s] \in {"pending", "failed"}
        BY <2>1, <2>2, <3>2 DEF Delivers, Settled, Terminal
      <3>3. CASE status[s] \in Settled
        BY <1>3, <2>1, <3>3 DEF Settled, Terminal
      <3> QED
        BY <2>1, <3>1, <3>2, <3>3 DEF Statuses, Unfinished
    <2>3. CASE ~IsDelete(r)
      <3>1. status[s] \in Settled
        BY <1>1, <2>3 DEF VersionBarrier
      <3> QED
        BY <1>3, <2>1, <3>1 DEF Settled, Terminal
    <2> QED
      BY <2>2, <2>3
  <1>5. ASSUME NEW t \in Rows, NEW s \in Older(t),
               \/ status'[t] = "delivered"
               \/ status'[t] = "sending" /\ ~IsDelete(t)'
        PROVE  status'[s] \in Settled
    <2>1. CASE t = r
      BY <1>4, <2>1
    <2>2. CASE t # r
      <3>1. status[t] = status'[t]
        BY <1>3, <1>5, <2>2
      <3>2. s \in Rows /\ status[s] \in Settled
        BY <1>2, <1>5, <3>1 DEF VersionBarrier, Older
      <3> QED
        BY <1>1, <1>3, <3>2 DEF Settled, Terminal
    <2> QED
      BY <2>1, <2>2
  <1>6. ASSUME NEW t \in Rows, NEW s \in Older(t), status'[t] = "sending"
        PROVE  status'[s] # "sending"
    <2>1. t # r /\ status[t] = "sending"
      BY <1>1, <1>3, <1>6
    <2>2. s \in Rows /\ status[s] # "sending"
      BY <2>1 DEF OneInFlight, Older
    <2> QED
      BY <1>1, <1>3, <2>2
  <1> QED
    BY <1>5, <1>6 DEF Barrier, VersionBarrier, OneInFlight, Older

LEMMA QueueStep == Inv /\ Next => QueueInv'
  <1> SUFFICES ASSUME Inv, Next PROVE QueueInv'
    OBVIOUS
  <1> USE DEF Inv
  <1>1. CASE ClaimStep
    <2> SUFFICES ASSUME NEW d \in Drains, NEW r \in Rows,
                        \/ Defer(d, r) \/ Supersede(d, r)
                        \/ DropIneligible(d, r) \/ Claim(d, r)
                 PROVE  QueueInv'
      BY <1>1 DEF ClaimStep
    <2>1. /\ writer = d
          /\ queue' = queue \ {r}
          /\ writer' = IF queue' = {} THEN NoDrain ELSE writer
      BY DEF Defer, Supersede, DropIneligible, Claim, NextCandidate, Advance
    <2>2. \A s \in Rows : s # r => status'[s] = status[s]
      BY DEF Defer, Supersede, DropIneligible, Claim, MarkTerminalWithoutClaim, rowVars,
             TypeOK
    <2> QED
      BY <2>1, <2>2, DrainAssumption DEF QueueInv, TypeOK
  <1>2. CASE writer = NoDrain /\ UNCHANGED claimVars
    BY <1>2 DEF QueueInv, claimVars
  <1>3. ASSUME NEW d \in Drains, NEW due, BeginClaim(d, due) PROVE QueueInv'
    <2>1. \A s \in queue' : status[s] \in Unfinished
      BY <1>3 DEF BeginClaim, Unfinished
    <2> QED
      BY <1>3, <2>1, DrainAssumption DEF BeginClaim, QueueInv, rowVars
  <1>4. CASE writer = NoDrain
    <2>1. CASE DrainStep
      <3>1. ASSUME NEW d \in Drains, NEW r \in Rows, NEW arrives, NEW ok,
                   \/ ReleaseUnsubmitted(d, r) \/ MarkIneligible(d, r)
                   \/ MarkSubmitted(d, r) \/ Transmit(d, r, arrives, ok)
                   \/ RecordOutcome(d, r) \/ GatewayCallFails(d) \/ Crash(d)
            PROVE  UNCHANGED claimVars
        BY <3>1 DEF ReleaseUnsubmitted, MarkIneligible, MarkSubmitted, Transmit,
                    RecordOutcome, GatewayCallFails, Crash
      <3>2. \/ \E d \in Drains, due \in SUBSET (Failed \cup Sending) : BeginClaim(d, due)
            \/ UNCHANGED claimVars
        <4>1. ASSUME NEW d \in Drains, GatewayCallFails(d) \/ Crash(d)
              PROVE  UNCHANGED claimVars
          BY <4>1 DEF GatewayCallFails, Crash
        <4> QED
          BY <2>1, <3>1, <4>1 DEF DrainStep
      <3> QED
        BY <1>2, <1>3, <1>4, <3>2
    <2>2. CASE SourceStep
      <3>1. UNCHANGED claimVars
        BY <2>2 DEF SourceStep, CommitProfile, CommitCreate, CommitMutation, InsertSource,
                    RecordRendered, RecordRenderFailure, CleanupMedia
      <3> QED
        BY <1>2, <1>4, <3>1
    <2>3. CASE SocialStep
      BY <1>2, <1>4, <2>3 DEF SocialStep, Unfollow, Follow, ChangePolicy
    <2>4. ASSUME NEW r \in Rows, LateArrival(r) PROVE QueueInv'
      BY <1>2, <1>4, <2>4 DEF LateArrival
    <2>5. ASSUME NEW S \in SUBSET Failed, AdminRetry(S) PROVE QueueInv'
      BY <1>2, <1>4, <2>5 DEF AdminRetry
    <2> QED
      BY <1>4, <2>1, <2>2, <2>3, <2>4, <2>5 DEF Next
  <1> QED
    BY <1>1, <1>4 DEF Next

LEMMA SourceInvStep == Inv /\ Next => SourceInv'
  <1> SUFFICES ASSUME Inv, Next, NEW r \in Rows, status'[r] # "absent"
               PROVE  r.ver <= version'[r.key]
    BY DEF SourceInv
  <1> USE DEF Inv
  <1>1. r.key \in Keys /\ r.ver \in Nat /\ version[r.key] \in Nat
    BY RowParts, LaneOrder DEF TypeOK
  <1>2. status[r] # "absent" => r.ver <= version[r.key]
    BY DEF SourceInv
  <1>3. ASSUME NEW k \in Keys, Inserts(k) PROVE r.ver <= version'[r.key]
    <2>1. version' \in [Keys -> Nat] /\ version'[r.key] \in {version[r.key], version[r.key] + 1}
      BY <1>1, <1>3 DEF Inserts, TypeOK
    <2>2. CASE status'[r] = status[r]
      BY <1>1, <1>2, <2>1, <2>2
    <2>3. CASE r.key = k /\ r.ver = version[k] + 1
      BY <1>1, <1>3, <2>3 DEF Inserts, TypeOK
    <2> QED
      BY <1>3, <2>2, <2>3 DEF Inserts
  <1>4. CASE Shrinks
    BY <1>2, <1>4 DEF Shrinks, Unfinished
  <1>5. ASSUME NEW d \in Drains, NEW s \in Rows, Starts(d, s) PROVE r.ver <= version'[r.key]
    <2>1. status[s] \in Unfinished
      BY <1>5 DEF Starts, Claim, NextCandidate, QueueInv
    <2>2. status[r] # "absent" /\ version' = version
      BY <1>5, <2>1 DEF Starts, Claim, TypeOK, Unfinished
    <2> QED
      BY <1>2, <2>2
  <1>6. ASSUME NEW d \in Drains, NEW s \in Rows, Delivers(d, s) PROVE r.ver <= version'[r.key]
    BY <1>2, <1>6 DEF Delivers, Owns
  <1> QED
    BY <1>3, <1>4, <1>5, <1>6, StepShape

LEMMA DeletedInvStep == Inv /\ Next => DeletedInv'
  <1> SUFFICES ASSUME Inv, Next PROVE DeletedInv'
    OBVIOUS
  <1> USE DEF Inv
  <1>1. deleted \subseteq Keys /\ version \in [Keys -> Nat]
    BY DEF TypeOK, Keys
  <1>2. ASSUME NEW k \in Keys, Inserts(k) PROVE DeletedInv'
    BY <1>1, <1>2 DEF Inserts, DeletedInv
  <1>3. CASE UNCHANGED <<version, deleted>>
    BY <1>3 DEF DeletedInv
  <1> QED
    BY <1>2, <1>3, StepShape DEF Shrinks, Starts, Delivers

(* The initial state satisfies the inductive invariant of the delivery     *)
(* protocol: types, the claim loop's queue, rows only for committed        *)
(* versions, the version barrier and one version in flight.                *)
THEOREM InvInit == Init => Inv
  <1> SUFFICES ASSUME Init PROVE Inv
    OBVIOUS
  <1>1. \A r \in Rows : status[r] = "absent"
    BY DEF Init
  <1>2. queue = {} /\ \A r \in Rows : Older(r) \subseteq Rows
    BY DEF Init, Older
  <1>3. DeletedInv
    BY DEF Init, DeletedInv
  <1> QED
    BY <1>1, <1>2, <1>3, TypeInit
    DEF Inv, QueueInv, SourceInv, VersionBarrier, OneInFlight, Settled

(* Every step preserves it: whatever a claim, an outcome, a new version, a *)
(* stale claim or an operator retry does to the rows of a lane.            *)
THEOREM InvStep == Inv /\ [Next]_vars => Inv'
  <1> SUFFICES ASSUME Inv, [Next]_vars PROVE Inv'
    OBVIOUS
  <1>1. CASE Next
    <2>1. Barrier'
      BY <1>1, StepShape, ShrinkKeepsBarrier, InsertKeepsBarrier, StartKeepsBarrier,
         DeliverKeepsBarrier
    <2> QED
      BY <1>1, <2>1, TypeStep, QueueStep, SourceInvStep, DeletedInvStep DEF Inv, Barrier
  <1>2. CASE UNCHANGED vars
    BY <1>2 DEF Inv, TypeOK, QueueInv, SourceInv, DeletedInv, VersionBarrier, OneInFlight, vars,
                IsDelete, Older
  <1> QED
    BY <1>1, <1>2

(* claim_due, record_outcome, the retries of the operator and the recovery *)
(* of stale claims keep the versions of an object in order at every        *)
(* endpoint, for any number of drains, and never have two in flight.       *)
THEOREM BarrierHolds == Spec => [](VersionBarrier /\ OneInFlight)
  <1>1. Inv => VersionBarrier /\ OneInFlight
    BY DEF Inv
  <1> QED
    BY InvInit, InvStep, <1>1, PTL DEF Spec

(* No delivered, superseded or ineligible row ever changes again.          *)
THEOREM TerminalStays == Spec => TerminalIsFinal
  <1>1. Inv /\ [Next]_vars =>
            [\A r \in Rows : status[r] \in Terminal => status'[r] = status[r]]_vars
    <2> SUFFICES ASSUME Inv, Next, NEW r \in Rows, status[r] \in Terminal
                 PROVE  status'[r] = status[r]
      OBVIOUS
    <2> USE DEF Inv
    <2>1. status[r] \notin Unfinished \cup {"absent"}
      BY DEF Terminal, Unfinished
    <2>2. ASSUME NEW k \in Keys, Inserts(k) PROVE status'[r] = status[r]
      <3>1. r.ver <= version[r.key]
        BY <2>1 DEF SourceInv
      <3>2. r.ver \in Nat /\ version[k] \in Nat
        BY RowParts, LaneOrder DEF TypeOK
      <3>3. ~(r.key = k /\ r.ver = version[k] + 1)
        BY <3>1, <3>2
      <3> QED
        BY <2>2, <3>3 DEF Inserts
    <2>3. CASE Shrinks
      BY <2>1, <2>3 DEF Shrinks
    <2>4. ASSUME NEW d \in Drains, NEW s \in Rows, Starts(d, s)
          PROVE  status'[r] = status[r]
      <3>1. status[s] \in Unfinished
        BY <2>4 DEF Starts, Claim, NextCandidate, QueueInv
      <3> QED
        BY <2>1, <2>4, <3>1 DEF Starts, Claim, TypeOK
    <2>5. ASSUME NEW d \in Drains, NEW s \in Rows, Delivers(d, s)
          PROVE  status'[r] = status[r]
      BY <2>1, <2>5 DEF Delivers, Owns, Unfinished
    <2> QED
      BY <2>2, <2>3, <2>4, <2>5, StepShape
  <1> QED
    BY InvInit, InvStep, <1>1, PTL DEF Spec, TerminalIsFinal

-----------------------------------------------------------------------------
(* What the drains know, and what the remote endpoints have accepted.      *)

(* A drain counts a row as accepted only when its endpoint accepted it.    *)
AcceptedInv == \A d \in Drains, r \in Rows : stage[d][r] = "accepted" => r \in received

WorkInv == Inv /\ AcceptedInv /\ DeliveredWasAccepted /\ OneVersionPerEndpoint

(* The ways in which a step may change what a drain knows of its batch.    *)
Learns(d, r) ==
    /\ stage[d][r] # "free"
    /\ \E x \in Stages : /\ stage' = [stage EXCEPT ![d][r] = x]
                         /\ x = "accepted" => r \in received'
    /\ received \subseteq received'

Loses(d) ==
    /\ \E x \in {"free", "refused"} :
          stage' = [stage EXCEPT ![d] =
                       [r \in Rows |-> IF stage[d][r] = "free" THEN "free" ELSE x]]
    /\ UNCHANGED received

(* A step either leaves the batches as they are, adds a claimed row to one *)
(* that has none for its endpoint, or moves one batch on.                  *)
LEMMA BatchShape ==
    ASSUME WorkInv, Next
    PROVE  \/ UNCHANGED stage /\ received \subseteq received'
           \/ \E d \in Drains, r \in Rows : Claim(d, r) \/ Learns(d, r)
           \/ \E d \in Drains : Loses(d)
  <1> USE DEF WorkInv, Inv, drainVars, wireVars
  <1>1. CASE SourceStep
    BY <1>1 DEF SourceStep, CommitProfile, CommitCreate, CommitMutation, InsertSource,
                RecordRendered, RecordRenderFailure, CleanupMedia
  <1>2. CASE SocialStep
    BY <1>2 DEF SocialStep, Unfollow, Follow, ChangePolicy
  <1>3. CASE ClaimStep
    BY <1>3 DEF ClaimStep, Defer, Supersede, DropIneligible, MarkTerminalWithoutClaim, Advance
  <1>4. ASSUME NEW r \in Rows, LateArrival(r)
        PROVE  UNCHANGED stage /\ received \subseteq received'
    BY <1>4 DEF LateArrival, Arrives
  <1>5. ASSUME NEW S, AdminRetry(S) PROVE UNCHANGED <<stage, received>>
    BY <1>5 DEF AdminRetry
  <1>6. CASE DrainStep
    <2>1. ASSUME NEW d \in Drains, NEW due, BeginClaim(d, due)
          PROVE  UNCHANGED <<stage, received>>
      BY <2>1 DEF BeginClaim
    <2>2. ASSUME NEW d \in Drains, NEW r \in Rows, Forget(d, r), stage[d][r] # "free",
                 UNCHANGED received
          PROVE  Learns(d, r)
      BY <2>2 DEF Forget, Learns, Stages
    <2>3. ASSUME NEW d \in Drains, NEW r \in Rows,
                 \/ ReleaseUnsubmitted(d, r) \/ MarkIneligible(d, r) \/ RecordOutcome(d, r)
                 \/ MarkSubmitted(d, r) /\ ~Owns(d, r)
          PROVE  Learns(d, r)
      BY <2>2, <2>3 DEF ReleaseUnsubmitted, MarkIneligible, RecordOutcome, MarkSubmitted, First
    <2>4. ASSUME NEW d \in Drains, NEW r \in Rows, MarkSubmitted(d, r), Owns(d, r)
          PROVE  Learns(d, r)
      BY <2>4 DEF MarkSubmitted, First, Learns, Stages
    <2>5. ASSUME NEW d \in Drains, NEW r \in Rows, NEW arrives \in BOOLEAN,
                 NEW ok \in BOOLEAN, Transmit(d, r, arrives, ok)
          PROVE  Learns(d, r)
      <3>1. /\ stage[d][r] # "free"
            /\ stage' = [stage EXCEPT ![d][r] = IF ok THEN "accepted" ELSE "refused"]
            /\ ok => r \in received'
            /\ received \subseteq received'
        BY <2>5 DEF Transmit, First, Arrives
      <3> QED
        BY <3>1 DEF Learns, Stages
    <2>6. ASSUME NEW d \in Drains, GatewayCallFails(d) PROVE Loses(d)
      BY <2>6 DEF GatewayCallFails, Loses
    <2>7. ASSUME NEW d \in Drains, Crash(d) PROVE Loses(d)
      BY <2>7 DEF Crash, Loses
    <2> QED
      BY <1>6, <2>1, <2>3, <2>4, <2>5, <2>6, <2>7 DEF DrainStep
  <1> QED
    BY <1>1, <1>2, <1>3, <1>4, <1>5, <1>6 DEF Next

(* Only the outcome of an accepted row makes it delivered.                 *)
LEMMA OnlyOutcomesDeliver ==
    ASSUME Inv, Next, NEW r \in Rows, status[r] # "delivered", status'[r] = "delivered"
    PROVE  \E d \in Drains : RecordOutcome(d, r) /\ stage[d][r] = "accepted"
  <1> USE DEF Inv
  <1>1. SourceStep => FALSE
    BY DEF SourceStep, CommitProfile, CommitCreate, CommitMutation, InsertSource,
           RecordRendered, RecordRenderFailure, CleanupMedia, rowVars
  <1>2. SocialStep => FALSE
    BY DEF SocialStep, Unfollow, Follow, ChangePolicy, rowVars
  <1>3. ClaimStep => FALSE
    BY DEF ClaimStep, Defer, Supersede, DropIneligible, Claim, MarkTerminalWithoutClaim,
           rowVars, TypeOK
  <1>4. (\E s \in Rows : LateArrival(s)) => FALSE
    BY DEF LateArrival, rowVars
  <1>5. (\E S \in SUBSET Failed : AdminRetry(S)) => FALSE
    BY DEF AdminRetry
  <1>6. CASE DrainStep
    <2> SUFFICES ASSUME NEW d \in Drains, NEW s \in Rows,
                        \/ ReleaseUnsubmitted(d, s) \/ MarkIneligible(d, s)
                        \/ RecordOutcome(d, s)
                 PROVE  RecordOutcome(d, r) /\ stage[d][r] = "accepted"
      BY <1>6 DEF DrainStep, BeginClaim, MarkSubmitted, Transmit, GatewayCallFails, Crash,
                  rowVars
    <2>1. CASE ReleaseUnsubmitted(d, s) \/ MarkIneligible(d, s)
      BY <2>1 DEF ReleaseUnsubmitted, MarkIneligible, TypeOK
    <2>2. CASE RecordOutcome(d, s)
      <3>1. Owns(d, s)
        BY <2>2 DEF RecordOutcome
      <3>2. r = s /\ stage[d][s] = "accepted"
        BY <2>2, <3>1 DEF RecordOutcome
      <3> QED
        BY <2>2, <3>2
    <2> QED
      BY <2>1, <2>2
  <1> QED
    BY <1>1, <1>2, <1>3, <1>4, <1>5, <1>6 DEF Next

LEMMA WorkInit == Init => WorkInv
  BY InvInit DEF Init, WorkInv, AcceptedInv, DeliveredWasAccepted, OneVersionPerEndpoint, Batch

LEMMA WorkStep == WorkInv /\ [Next]_vars => WorkInv'
  <1> SUFFICES ASSUME WorkInv, [Next]_vars PROVE WorkInv'
    OBVIOUS
  <1> USE DEF WorkInv
  <1>1. Inv'
    BY InvStep
  <1>2. CASE Next
    <2>1. AcceptedInv' /\ OneVersionPerEndpoint'
      <3>1. CASE UNCHANGED stage /\ received \subseteq received'
        BY <3>1 DEF AcceptedInv, OneVersionPerEndpoint, Batch
      <3>2. ASSUME NEW d \in Drains, NEW r \in Rows, Claim(d, r)
            PROVE  AcceptedInv' /\ OneVersionPerEndpoint'
        <4>1. /\ stage' = [stage EXCEPT ![d][r] = "claimed"]
              /\ \A s \in Batch(d) : s.ep # r.ep
              /\ UNCHANGED received
          BY <3>2 DEF Claim, WithinClaimLimits, Advance, wireVars
        <4>2. /\ \A e \in Drains, s \in Rows :
                    stage'[e][s] = IF e = d /\ s = r THEN "claimed" ELSE stage[e][s]
          BY <4>1 DEF Inv, TypeOK
        <4>3. AcceptedInv'
          BY <4>1, <4>2 DEF AcceptedInv
        <4>4. ASSUME NEW e \in Drains, NEW s \in Batch(e)', NEW t \in Batch(e)', s.ep = t.ep
              PROVE  s = t
          <5>1. s \in Rows /\ t \in Rows
            BY DEF Batch
          <5>2. CASE e # d
            BY <4>2, <4>4, <5>1, <5>2 DEF OneVersionPerEndpoint, Batch
          <5>3. CASE e = d
            BY <4>1, <4>2, <4>4, <5>1, <5>3 DEF OneVersionPerEndpoint, Batch
          <5> QED
            BY <5>2, <5>3
        <4> QED
          BY <4>3, <4>4 DEF OneVersionPerEndpoint
      <3>3. ASSUME NEW d \in Drains, NEW r \in Rows, Learns(d, r)
            PROVE  AcceptedInv' /\ OneVersionPerEndpoint'
        <4>1. /\ \A e \in Drains, s \in Rows :
                    stage'[e][s] # "free" => stage[e][s] # "free"
              /\ \A e \in Drains, s \in Rows :
                    stage'[e][s] = "accepted" => stage[e][s] = "accepted" \/ s \in received'
              /\ received \subseteq received'
          <5>1. PICK x \in Stages : /\ stage' = [stage EXCEPT ![d][r] = x]
                                    /\ x = "accepted" => r \in received'
            BY <3>3 DEF Learns
          <5>2. \A e \in Drains, s \in Rows :
                   stage'[e][s] = IF e = d /\ s = r THEN x ELSE stage[e][s]
            BY <5>1 DEF Inv, TypeOK
          <5> QED
            BY <3>3, <5>1, <5>2 DEF Learns
        <4>2. \A e \in Drains : Batch(e)' \subseteq Batch(e)
          BY <4>1 DEF Batch
        <4> QED
          BY <4>1, <4>2 DEF AcceptedInv, OneVersionPerEndpoint
      <3>4. ASSUME NEW d \in Drains, Loses(d) PROVE AcceptedInv' /\ OneVersionPerEndpoint'
        <4>1. /\ \A e \in Drains, s \in Rows :
                    stage'[e][s] # "free" => stage[e][s] # "free"
              /\ \A e \in Drains, s \in Rows :
                    stage'[e][s] = "accepted" => stage[e][s] = "accepted"
              /\ UNCHANGED received
          BY <3>4 DEF Loses, Inv, TypeOK
        <4>2. \A e \in Drains : Batch(e)' \subseteq Batch(e)
          BY <4>1 DEF Batch
        <4> QED
          BY <4>1, <4>2 DEF AcceptedInv, OneVersionPerEndpoint
      <3> QED
        BY <1>2, <3>1, <3>2, <3>3, <3>4, BatchShape
    <2>2. received \subseteq received'
      BY <1>2, BatchShape DEF Claim, Advance, wireVars, Learns, Loses
    <2>3. ASSUME NEW r \in Rows, status'[r] = "delivered" PROVE r \in received'
      <3>1. CASE status[r] = "delivered"
        BY <2>2, <3>1 DEF DeliveredWasAccepted
      <3>2. CASE status[r] # "delivered"
        <4>1. \E d \in Drains : RecordOutcome(d, r) /\ stage[d][r] = "accepted"
          BY <1>2, <2>3, <3>2, OnlyOutcomesDeliver
        <4> QED
          BY <2>2, <4>1 DEF AcceptedInv
      <3> QED
        BY <3>1, <3>2
    <2> QED
      BY <1>1, <2>1, <2>3 DEF DeliveredWasAccepted
  <1>3. CASE UNCHANGED vars
    BY <1>1, <1>3 DEF vars, AcceptedInv, DeliveredWasAccepted, OneVersionPerEndpoint, Batch
  <1> QED
    BY <1>2, <1>3

(* A row is recorded delivered only after its endpoint accepted it, for    *)
(* any number of drains, lost answers, failed gateway calls, stale claims  *)
(* and crashes; and no drain ever holds two rows for one endpoint, which   *)
(* the gateway would refuse.                                               *)
THEOREM DeliveriesAreAccepted == Spec => [](DeliveredWasAccepted /\ OneVersionPerEndpoint)
  <1>1. WorkInv => DeliveredWasAccepted /\ OneVersionPerEndpoint
    BY DEF WorkInv
  <1> QED
    BY WorkInit, WorkStep, <1>1, PTL DEF Spec
-----------------------------------------------------------------------------
(* A source step commits a version or leaves rows and followers as they    *)
(* are.                                                                    *)
LEMMA SourceShape ==
    ASSUME Inv, SourceStep
    PROVE  \/ UNCHANGED <<version, deleted, audience, status>>
           \/ \E k \in Keys : Inserts(k)
  <1> USE DEF Inv
  <1>1. ASSUME NEW k \in ProfileKeys, NEW m \in {"none", "held"}, CommitProfile(k, m)
        PROVE  k \in Keys /\ Inserts(k)
    BY <1>1, InsertShape, KeysAssumption DEF CommitProfile, Keys, TypeOK
  <1>2. ASSUME NEW k \in ContentKeys, NEW direct, CommitCreate(k, direct)
        PROVE  k \in Keys /\ Inserts(k)
    <2>1. k \notin deleted
      BY <1>2 DEF CommitCreate, DeletedInv
    <2> QED
      BY <1>2, <2>1, InsertShape DEF CommitCreate, Keys
  <1>3. ASSUME NEW k \in ContentKeys, NEW deletes, CommitMutation(k, deletes)
        PROVE  k \in Keys /\ Inserts(k)
    BY <1>3, InsertShape DEF CommitMutation, Keys
  <1> QED
    BY <1>1, <1>2, <1>3 DEF SourceStep, RecordRendered, RecordRenderFailure, CleanupMedia,
                            rowVars

(* A claimed row leaves "sending" only through the drain that owns its     *)
(* claim or through a later claim, for any number of drains and however    *)
(* often claims go stale: the outcome of a drain that lost its claim is    *)
(* ignored (the compare-and-set on the claim token).                       *)
THEOREM OwnersSettle == Spec => OnlyOwnerSettles
  <1>1. Inv /\ [Next]_vars =>
            [\A r \in Rows :
                status[r] = "sending" /\ status'[r] # "sending"
                => \/ r \in queue
                   \/ stage[token[r]][r] # "free" /\ stage'[token[r]][r] = "free"]_vars
    <2> SUFFICES ASSUME Inv, Next, NEW r \in Rows, status[r] = "sending",
                        status'[r] # "sending"
                 PROVE  \/ r \in queue
                        \/ stage[token[r]][r] # "free" /\ stage'[token[r]][r] = "free"
      OBVIOUS
    <2> USE DEF Inv
    <2>1. SourceStep => FALSE
      <3>1. \A k \in Keys : ~Inserts(k)
        <4> SUFFICES ASSUME NEW k \in Keys, Inserts(k) PROVE FALSE
          OBVIOUS
        <4>1. r.ver <= version[r.key] /\ version[k] \in Nat
          BY DEF SourceInv, TypeOK
        <4>2. r.ver \in Nat
          BY LaneOrder
        <4> QED
          BY <4>1, <4>2 DEF Inserts
      <3> QED
        BY <3>1, SourceShape DEF rowVars
    <2>2. SocialStep => FALSE
      BY DEF SocialStep, Unfollow, Follow, ChangePolicy, rowVars
    <2>3. CASE ClaimStep
      BY <2>3 DEF ClaimStep, Defer, Supersede, DropIneligible, Claim, NextCandidate,
                  MarkTerminalWithoutClaim, rowVars, TypeOK
    <2>4. (\E s \in Rows : LateArrival(s)) => FALSE
      BY DEF LateArrival, rowVars
    <2>5. (\E S \in SUBSET Failed : AdminRetry(S)) => FALSE
      BY DEF AdminRetry
    <2>6. CASE DrainStep
      <3> SUFFICES ASSUME NEW d \in Drains, NEW s \in Rows,
                          \/ ReleaseUnsubmitted(d, s) \/ MarkIneligible(d, s)
                          \/ RecordOutcome(d, s)
                   PROVE  stage[token[r]][r] # "free" /\ stage'[token[r]][r] = "free"
        BY <2>6 DEF DrainStep, BeginClaim, MarkSubmitted, Transmit, GatewayCallFails, Crash,
                    rowVars
      <3>1. stage[d][s] # "free" /\ stage' = [stage EXCEPT ![d][s] = "free"]
        BY DEF ReleaseUnsubmitted, MarkIneligible, RecordOutcome, First, Forget
      <3>2. r = s /\ token[r] = d
        <4>1. CASE ReleaseUnsubmitted(d, s) \/ MarkIneligible(d, s)
          BY <4>1 DEF ReleaseUnsubmitted, MarkIneligible, Owns, TypeOK
        <4>2. CASE RecordOutcome(d, s)
          <5>1. Owns(d, s)
            BY <4>2 DEF RecordOutcome
          <5>2. \A t \in Rows : t # s => \/ status'[t] = status[t]
                                         \/ status[t] \in {"pending", "failed"}
            BY <4>2, <5>1 DEF RecordOutcome
          <5> QED
            BY <5>1, <5>2 DEF Owns
        <4> QED
          BY <4>1, <4>2
      <3> QED
        BY <3>1, <3>2 DEF TypeOK
    <2> QED
      BY <2>1, <2>2, <2>3, <2>4, <2>5, <2>6 DEF Next
  <1> QED
    BY InvInit, InvStep, <1>1, PTL DEF Spec, OnlyOwnerSettles
-----------------------------------------------------------------------------
(* Unless a version is committed, a row that is settled stays settled.     *)
LEMMA NoReopening ==
    ASSUME Inv, Next, UNCHANGED version
    PROVE  \A r \in Rows : status'[r] \in Unfinished => status[r] \in Unfinished
  <1> USE DEF Inv
  <1>1. ASSUME NEW k \in Keys, Inserts(k) PROVE FALSE
    BY <1>1 DEF Inserts, TypeOK
  <1>2. ASSUME NEW d \in Drains, NEW s \in Rows, Starts(d, s)
        PROVE  \A r \in Rows : status'[r] \in Unfinished => status[r] \in Unfinished
    <2>1. status[s] \in Unfinished /\ status' = [status EXCEPT ![s] = "sending"]
      BY <1>2 DEF Starts, Claim, NextCandidate, QueueInv
    <2> QED
      BY <2>1 DEF TypeOK
  <1>3. ASSUME NEW d \in Drains, NEW s \in Rows, Delivers(d, s)
        PROVE  \A r \in Rows : status'[r] \in Unfinished => status[r] \in Unfinished
    BY <1>3 DEF Delivers, Unfinished
  <1>4. CASE Shrinks
    BY <1>4 DEF Shrinks
  <1> QED
    BY <1>1, <1>2, <1>3, <1>4, StepShape

(* Media is released either when its source can no longer execute, or it   *)
(* was before and the source is no more executable than it was.            *)
Released(src) ==
    \/ ~Transportable(src, srcState', status')
    \/ /\ media[src] = "released"
       /\ UNCHANGED srcState[src]
       /\ \A r \in Rows : SourceOf(r) = src /\ status'[r] \in Unfinished
                          => status[r] \in Unfinished

LEMMA AfterShape ==
    ASSUME Inv, Next, UNCHANGED version, NEW src \in Sources, NEW s \in Sources,
           \/ media' = MediaAfter(s, srcState', status')
           \/ UNCHANGED media,
           UNCHANGED srcState[src], media'[src] = "released"
    PROVE  Released(src)
  <1>1. media'[src] = media[src] \/ ~Transportable(src, srcState', status')
    BY DEF Inv, TypeOK, MediaAfter
  <1> QED
    BY <1>1, NoReopening DEF Released

LEMMA CommitShape ==
    ASSUME Inv, NEW k \in Keys, NEW direct, NEW st, NEW m \in {"none", "held"},
           InsertSource(k, direct, st, m), NEW src \in Sources, media'[src] = "released"
    PROVE  Released(src)
  <1> DEFINE v == version[k] + 1
  <1> USE DEF Inv
  <1>1. /\ media' = [media EXCEPT ![<<k, v>>] = m]
        /\ srcState' = [srcState EXCEPT ![<<k, v>>] = st]
        /\ \A r \in Rows : (r.key = k /\ r.ver = v) \/ status'[r] = status[r]
    BY DEF InsertSource
  <1>2. src # <<k, v>>
    BY <1>1 DEF TypeOK
  <1>3. media[src] = "released" /\ UNCHANGED srcState[src]
    BY <1>1, <1>2 DEF TypeOK
  <1> QED
    BY <1>1, <1>2, <1>3 DEF Released, SourceOf

LEMMA MediaShape ==
    ASSUME Inv, MediaRetained, Next, NEW src \in Sources, media'[src] = "released"
    PROVE  Released(src)
  <1> USE DEF Inv
  <1>1. CASE SourceStep
    <2>1. ASSUME NEW k \in ProfileKeys, NEW m \in {"none", "held"}, CommitProfile(k, m)
          PROVE  Released(src)
      BY <2>1, CommitShape DEF CommitProfile, Keys
    <2>2. ASSUME NEW k \in ContentKeys, NEW direct, CommitCreate(k, direct)
          PROVE  Released(src)
      BY <2>2, CommitShape DEF CommitCreate, Keys
    <2>3. ASSUME NEW k \in ContentKeys, NEW deletes, CommitMutation(k, deletes)
          PROVE  Released(src)
      BY <2>3, CommitShape DEF CommitMutation, Keys
    <2>4. ASSUME NEW s \in Sources, RecordRendered(s) \/ RecordRenderFailure(s)
          PROVE  Released(src)
      <3>1. /\ srcState[s] \in {"render_pending", "render_failed"}
            /\ \E x : srcState' = [srcState EXCEPT ![s] = x]
            /\ media' = MediaAfter(s, srcState', status') \/ UNCHANGED media
            /\ UNCHANGED version /\ UNCHANGED status
        BY <2>4 DEF RecordRendered, RecordRenderFailure, rowVars
      <3>2. CASE src # s
        BY <3>1, <3>2, AfterShape DEF TypeOK
      <3>3. CASE src = s
        <4>1. media[src] # "released"
          BY <3>1, <3>3 DEF MediaRetained, Transportable
        <4> QED
          BY <3>1, <3>3, <4>1 DEF MediaAfter, Released
      <3> QED
        BY <3>2, <3>3
    <2>5. CASE CleanupMedia
      <3>1. media'[src] = media[src] \/ ~Transportable(src, srcState', status')
        BY <2>5 DEF CleanupMedia, rowVars
      <3> QED
        BY <2>5, <3>1 DEF CleanupMedia, rowVars, Released
    <2> QED
      BY <1>1, <2>1, <2>2, <2>3, <2>4, <2>5 DEF SourceStep
  <1>2. ASSUME UNCHANGED <<version, media, srcState>> PROVE Released(src)
    BY <1>2, AfterShape
  <1>3. SocialStep => UNCHANGED <<version, media, srcState>>
    BY DEF SocialStep, Unfollow, Follow, ChangePolicy, sourceVars
  <1>4. ClaimStep => UNCHANGED <<version, media, srcState>>
    BY DEF ClaimStep, Defer, Supersede, DropIneligible, Claim, Advance, sourceVars
  <1>5. ASSUME \/ \E r \in Rows : LateArrival(r)
               \/ \E S \in SUBSET Failed : AdminRetry(S)
        PROVE  UNCHANGED <<version, media, srcState>>
    BY <1>5 DEF LateArrival, AdminRetry, sourceVars
  <1>6. CASE DrainStep
    <2>1. ASSUME NEW d \in Drains, NEW r \in Rows, MarkIneligible(d, r) \/ RecordOutcome(d, r)
          PROVE  Released(src)
      <3>1. /\ SourceOf(r) \in Sources
            /\ media' = MediaAfter(SourceOf(r), srcState', status')
            /\ UNCHANGED version /\ UNCHANGED srcState
        BY <2>1, RowParts DEF MarkIneligible, RecordOutcome, SourceOf, Sources
      <3> QED
        BY <3>1, AfterShape
    <2> QED
      BY <1>2, <1>6, <2>1 DEF DrainStep, BeginClaim, ReleaseUnsubmitted, MarkSubmitted,
                              Transmit, GatewayCallFails, Crash, sourceVars
  <1> QED
    BY <1>1, <1>2, <1>3, <1>4, <1>5, <1>6 DEF Next

(* Profile media stays as long as its source may be rendered or sent: no   *)
(* outcome, cleanup, operator retry or crash releases it under a row that  *)
(* can still be claimed.                                                   *)
THEOREM MediaStays == Spec => []MediaRetained
  <1>1. Init => MediaRetained
    BY DEF Init, MediaRetained
  <1>2. Inv /\ MediaRetained /\ [Next]_vars => MediaRetained'
    <2>1. ASSUME Inv, MediaRetained, Next, NEW src \in Sources, media'[src] = "released"
          PROVE  ~Transportable(src, srcState', status')
      BY <2>1, MediaShape DEF Released, MediaRetained, Transportable
    <2>2. ASSUME UNCHANGED vars, MediaRetained PROVE MediaRetained'
      BY <2>2 DEF vars, MediaRetained, Transportable
    <2> QED
      BY <2>1, <2>2 DEF MediaRetained, Transportable
  <1> QED
    BY InvInit, InvStep, <1>1, <1>2, PTL DEF Spec
-----------------------------------------------------------------------------
(* A snapshot names relationships that have been opened, never future ones. *)
SnapshotInv == \A r \in Rows : \A fi \in audience[r] : fi[2] <= incarnation[fi[1]]

AudienceInv == Inv /\ SnapshotInv

LEMMA SnapshotTypes ==
    ASSUME TypeOK, NEW r \in Rows, NEW fi \in audience[r]
    PROVE  /\ fi[1] \in Followers /\ fi[2] \in Nat
           /\ incarnation[fi[1]] \in Nat /\ incarnation[fi[1]] <= MaxIncarnation
  BY BoundAssumption DEF TypeOK, Incarnations

(* Relationships only get newer, and a row's snapshot never changes.       *)
LEMMA AudienceShape ==
    ASSUME Inv, Next
    PROVE  /\ \A f \in Followers : incarnation'[f] \in {incarnation[f], incarnation[f] + 1}
           /\ \A f \in Followers :
                 inbox[f] = NoInbox /\ inbox'[f] # NoInbox
                 => incarnation'[f] = incarnation[f] + 1
           /\ \A r \in Rows :
                 \/ audience'[r] = audience[r]
                 \/ /\ status[r] = "absent"
                    /\ audience'[r] = AudienceAt(r.ep) /\ UNCHANGED followerVars
  <1> USE DEF Inv
  <1>1. CASE UNCHANGED <<audience, followerVars>>
    BY <1>1 DEF followerVars
  <1>2. ASSUME NEW k \in Keys, NEW direct, NEW st, NEW m, InsertSource(k, direct, st, m)
        PROVE  /\ UNCHANGED followerVars
               /\ \A r \in Rows : \/ audience'[r] = audience[r]
                                  \/ status[r] = "absent" /\ audience'[r] = AudienceAt(r.ep)
    <2>1. ASSUME NEW r \in Rows, r.key = k, r.ver = version[k] + 1 PROVE status[r] = "absent"
      <3>1. version[k] \in Nat /\ ~(version[k] + 1 <= version[k])
        BY DEF TypeOK
      <3> QED
        BY <2>1, <3>1 DEF SourceInv
    <2>2. \A r \in Rows : audience'[r] = IF r.key = k /\ r.ver = version[k] + 1
                                         THEN AudienceAt(r.ep) ELSE audience[r]
      BY <1>2 DEF InsertSource
    <2> QED
      BY <1>2, <2>1, <2>2 DEF InsertSource
  <1>3. CASE SourceStep
    BY <1>1, <1>2, <1>3 DEF SourceStep, CommitProfile, CommitCreate, CommitMutation,
                            RecordRendered, RecordRenderFailure, CleanupMedia, Keys,
                            followerVars
  <1>4. CASE SocialStep
    <2>1. ASSUME NEW f \in Followers, NEW e \in Endpoints, Follow(f, e)
          PROVE  /\ UNCHANGED audience
                 /\ \A g \in Followers :
                       incarnation'[g] \in {incarnation[g], incarnation[g] + 1}
                 /\ \A g \in Followers : inbox[g] = NoInbox /\ inbox'[g] # NoInbox
                                         => incarnation'[g] = incarnation[g] + 1
      BY <2>1 DEF Follow, sourceVars, TypeOK
    <2>2. ASSUME NEW f \in Followers, Unfollow(f)
          PROVE  /\ UNCHANGED <<audience, incarnation>>
                 /\ \A g \in Followers : inbox'[g] \in {inbox[g], NoInbox}
      BY <2>2 DEF Unfollow, sourceVars, TypeOK
    <2>3. ASSUME NEW x \in Bannable, ChangePolicy(x) PROVE UNCHANGED <<audience, followerVars>>
      BY <2>3 DEF ChangePolicy, sourceVars
    <2> QED
      BY <1>1, <1>4, <2>1, <2>2, <2>3 DEF SocialStep
  <1>5. ClaimStep => UNCHANGED <<audience, followerVars>>
    BY DEF ClaimStep, Defer, Supersede, DropIneligible, Claim, Advance, sourceVars
  <1>6. ASSUME \/ \E r \in Rows : LateArrival(r)
               \/ \E S \in SUBSET Failed : AdminRetry(S)
        PROVE  UNCHANGED <<audience, followerVars>>
    BY <1>6 DEF LateArrival, AdminRetry, sourceVars
  <1>7. DrainStep => UNCHANGED <<audience, followerVars>>
    BY DEF DrainStep, BeginClaim, ReleaseUnsubmitted, MarkIneligible, MarkSubmitted, Transmit,
           RecordOutcome, GatewayCallFails, Crash, sourceVars
  <1> QED
    BY <1>1, <1>3, <1>4, <1>5, <1>6, <1>7 DEF Next

LEMMA AudienceStep == AudienceInv /\ [Next]_vars => AudienceInv'
  <1> SUFFICES ASSUME AudienceInv, [Next]_vars PROVE AudienceInv'
    OBVIOUS
  <1> USE DEF AudienceInv
  <1>0. Inv' /\ TypeOK' /\ TypeOK
    BY InvStep DEF Inv
  <1>1. CASE UNCHANGED vars
    BY <1>0, <1>1 DEF vars, SnapshotInv
  <1>2. ASSUME Next, NEW r \in Rows, NEW fi \in audience'[r]
        PROVE  fi[2] <= incarnation'[fi[1]]
    <2>1. fi[1] \in Followers /\ fi[2] \in Nat /\ incarnation[fi[1]] \in Nat
      BY <1>0, BoundAssumption DEF TypeOK, Incarnations
    <2>2. CASE audience'[r] = audience[r]
      <3>1. fi[2] <= incarnation[fi[1]]
        BY <1>2, <2>2 DEF SnapshotInv
      <3> QED
        BY <1>2, <2>1, <3>1, AudienceShape
    <2>3. CASE audience'[r] = AudienceAt(r.ep) /\ UNCHANGED followerVars
      <3>1. fi[2] = incarnation[fi[1]]
        BY <1>2, <2>3 DEF AudienceAt
      <3> QED
        BY <2>1, <2>3, <3>1 DEF followerVars
    <2> QED
      BY <1>2, <2>2, <2>3, AudienceShape
  <1> QED
    BY <1>0, <1>1, <1>2 DEF SnapshotInv

LEMMA NoClaimWhenDeparted ==
    ASSUME Inv, [Next]_vars, NEW r \in Rows, Departed(r), status[r] # "sending"
    PROVE  status'[r] # "sending"
  <1> USE DEF Inv
  <1>1. CASE UNCHANGED vars
    BY <1>1 DEF vars
  <1>2. ASSUME NEW d \in Drains, Starts(d, r) PROVE FALSE
    <2>1. PICK f \in Followers : <<f, incarnation[f]>> \in audience[r] /\ inbox[f] = r.ep
      BY <1>2 DEF Starts, Claim, EligibleActors
    <2>2. inbox[f] = NoInbox
      BY <2>1 DEF Departed
    <2> QED
      BY <2>1, <2>2, RowParts, EndpointAssumption
  <1>3. ASSUME NEW d \in Drains, NEW s \in Rows, Starts(d, s) PROVE status'[r] # "sending"
    <2>1. s # r /\ status' = [status EXCEPT ![s] = "sending"]
      BY <1>2, <1>3 DEF Starts, Claim
    <2> QED
      BY <2>1 DEF TypeOK
  <1>4. CASE Next
    BY <1>3, <1>4, StepShape DEF Inserts, Shrinks, Delivers, Owns
  <1> QED
    BY <1>1, <1>4

(* A row all of whose snapshotted followers have left is not claimed,      *)
(* whoever follows anew: claim_due matches relationships, not actors.      *)
THEOREM DepartedNotRevived == Spec => RefollowDoesNotRevive
  <1>1. Inv /\ [Next]_vars =>
            [\A r \in Rows : Departed(r) /\ status[r] # "sending"
                            => status'[r] # "sending"]_vars
    BY NoClaimWhenDeparted
  <1> QED
    BY InvInit, InvStep, <1>1, PTL DEF Spec, RefollowDoesNotRevive

(* Nor can it ever be claimed later: a departed audience stays departed,   *)
(* since a new Follow opens a relationship that no snapshot names.         *)
DepartedForGood ==
    [][\A r \in Rows :
          Departed(r) /\ status[r] \notin {"absent", "sending"}
          => Departed(r)' /\ status'[r] \notin {"absent", "sending"}]_vars

(* However often the followers of a row come and go, once all the          *)
(* relationships it was addressed to have ended it is never sent again.    *)
THEOREM DepartureIsFinal == Spec => DepartedForGood
  <1>1. Init => AudienceInv
    BY InvInit DEF Init, AudienceInv, SnapshotInv
  <1>2. AudienceInv /\ [Next]_vars =>
            [\A r \in Rows :
                Departed(r) /\ status[r] \notin {"absent", "sending"}
                => Departed(r)' /\ status'[r] \notin {"absent", "sending"}]_vars
    <2> SUFFICES ASSUME AudienceInv, Next, NEW r \in Rows, Departed(r),
                        status[r] \notin {"absent", "sending"}
                 PROVE  Departed(r)' /\ status'[r] \notin {"absent", "sending"}
      OBVIOUS
    <2> USE DEF AudienceInv
    <2>1. audience'[r] = audience[r]
      BY AudienceShape
    <2>2. ASSUME NEW fi \in audience[r]
          PROVE  incarnation'[fi[1]] # fi[2] \/ inbox'[fi[1]] = NoInbox
      <3>1. fi[1] \in Followers /\ fi[2] \in Nat /\ incarnation[fi[1]] \in Nat
        BY SnapshotTypes DEF Inv
      <3>2. fi[2] <= incarnation[fi[1]]
        BY DEF SnapshotInv
      <3>3. incarnation[fi[1]] # fi[2] \/ inbox[fi[1]] = NoInbox
        BY DEF Departed
      <3>4. /\ incarnation'[fi[1]] \in {incarnation[fi[1]], incarnation[fi[1]] + 1}
            /\ inbox[fi[1]] = NoInbox /\ inbox'[fi[1]] # NoInbox
               => incarnation'[fi[1]] = incarnation[fi[1]] + 1
        BY <3>1, AudienceShape
      <3> QED
        BY <3>1, <3>2, <3>3, <3>4
    <2>3. status'[r] # "sending"
      BY NoClaimWhenDeparted
    <2>4. status'[r] # "absent"
      BY StepShape DEF Inv, Inserts, Shrinks, Starts, Claim, Delivers, TypeOK
    <2> QED
      BY <2>1, <2>2, <2>3, <2>4 DEF Departed
  <1> QED
    BY <1>1, <1>2, AudienceStep, PTL DEF Spec, DepartedForGood
-----------------------------------------------------------------------------
(* The refinement of OrderedOutbox.                                        *)

(* Progress, one row at a time.                                            *)
Phase(x) ==
    CASE x = "absent"                -> "absent"
      [] x \in {"pending", "failed"} -> "waiting"
      [] x = "sending"               -> "sending"
      [] x = "delivered"             -> "sent"
      [] OTHER                       -> "dropped"

LEMMA ProgressByRow ==
    /\ Progress = [r \in Rows |-> Phase(status[r])]
    /\ Progress' = [r \in Rows |-> Phase(status'[r])]
  BY DEF Progress, Phase

LEMMA Phases ==
    ASSUME NEW x \in Statuses
    PROVE  /\ Phase(x) = "absent" <=> x = "absent"
           /\ Phase(x) = "waiting" <=> x \in {"pending", "failed"}
           /\ Phase(x) = "sending" <=> x = "sending"
           /\ Phase(x) = "sent" <=> x = "delivered"
           /\ Phase(x) = "dropped" <=> x \in {"ineligible", "superseded"}
           /\ Phase(x) \in {"absent", "waiting", "sending", "sent", "dropped"}
  BY DEF Phase, Statuses, Settled, Terminal, Unfinished

(* The lanes of the two specifications are the same, and so is the version *)
(* that closes one.                                                        *)
LEMMA SameLanes ==
    /\ Outbox!Rows = Rows
    /\ \A r \in Rows : /\ Outbox!Older(r) = Older(r)
                       /\ Outbox!Newer(r) = Newer(r)
                       /\ Outbox!Final(r) <=> IsDelete(r)
  BY DEF Outbox!Rows, Outbox!Versions, Outbox!Older, Outbox!Newer, Outbox!Final,
         Rows, Versions, Older, Newer, IsDelete

(* A committed version is enqueued for the endpoints it is aimed at: none  *)
(* of its rows exists yet.                                                 *)
LEMMA InsertMaps ==
    ASSUME Inv, TypeOK', NEW k \in Keys \ deleted, NEW direct, NEW st, NEW m,
           InsertSource(k, direct, st, m),
           deleted' \in {deleted, deleted \cup {k}}
    PROVE  Outbox!Next
  <1> DEFINE v == version[k] + 1
             E == {e \in Endpoints : AudienceAt(e) # {} \/ e \in direct}
             C == IF deleted' = deleted THEN {} ELSE {k}
  <1> USE DEF Inv
  <1>1. /\ version' = [version EXCEPT ![k] = v]
        /\ version[k] < MaxVersion
        /\ version[k] \in Nat
        /\ \A r \in Rows : status'[r] = IF r.key = k /\ r.ver = v /\ r.ep \in E
                                        THEN "pending" ELSE status[r]
    BY RowParts DEF InsertSource, TypeOK
  <1>2. version'[k] = v
    BY <1>1 DEF TypeOK
  <1>3. \A r \in Rows : Phase(status'[r]) =
            IF r.key = k /\ r.ver = version'[k] /\ r.ep \in E
            THEN "waiting" ELSE Phase(status[r])
    BY <1>1, <1>2 DEF Phase
  <1>4. Progress' = [r \in Rows |-> IF r.key = k /\ r.ver = version'[k] /\ r.ep \in E
                                    THEN "waiting" ELSE Progress[r]]
    BY <1>3, ProgressByRow
  <1>5. deleted' = deleted \cup C /\ C \in {{}, {k}} /\ E \in SUBSET Endpoints
    OBVIOUS
  <1>6. Outbox!Enqueue(k, E, C)
    BY <1>1, <1>4, <1>5, SameLanes DEF Outbox!Enqueue
  <1> QED
    BY <1>5, <1>6 DEF Outbox!Next

(* A row that is neither inserted, claimed nor delivered either keeps its  *)
(* phase, waits again or is dropped; more than one changes only when the   *)
(* operator retries failed rows, which wait already.                       *)
Idles == \A r \in Rows : Phase(status'[r]) = Phase(status[r])

Moves(r, from, to) == status[r] \in from /\ status' = [status EXCEPT ![r] = to]

Rests ==
    \/ Idles
    \/ \E r \in Rows : \/ Moves(r, {"sending"}, "failed")
                       \/ Moves(r, Unfinished, "ineligible")
                       \/ Moves(r, Unfinished, "superseded")

LEMMA ClaimShape ==
    ASSUME Inv, NEW d \in Drains, NEW r \in Rows,
           Defer(d, r) \/ Supersede(d, r) \/ DropIneligible(d, r)
    PROVE  Rests /\ UNCHANGED <<version, deleted>>
  <1> USE DEF Inv
  <1>1. UNCHANGED <<version, deleted>>
    BY DEF Defer, Supersede, DropIneligible, Advance, sourceVars
  <1>2. CASE Defer(d, r)
    BY <1>1, <1>2 DEF Defer, rowVars, Rests, Idles
  <1>3. CASE Supersede(d, r) \/ DropIneligible(d, r)
    <2>1. status[r] \in Unfinished
      BY <1>3 DEF Supersede, DropIneligible, NextCandidate, QueueInv
    <2> QED
      BY <1>1, <1>3, <2>1
      DEF Supersede, DropIneligible, MarkTerminalWithoutClaim, Rests, Moves
  <1> QED
    BY <1>2, <1>3

(* A delivery the endpoint accepted and its owner records.                  *)
LEMMA AcceptedShape ==
    ASSUME Inv, NEW d \in Drains, NEW r \in Rows, RecordOutcome(d, r), Owns(d, r),
           stage[d][r] = "accepted"
    PROVE  Delivers(d, r)
  <1> DEFINE Moot == IF IsDelete(r)
                     THEN {s \in Older(r) : status[s] \in {"pending", "failed"}}
                     ELSE {}
  <1>1. status' = [s \in Rows |-> CASE s = r      -> "delivered"
                                    [] s \in Moot -> "superseded"
                                    [] OTHER      -> status[s]]
    BY DEF RecordOutcome
  <1>2. r \notin Moot
    BY LaneOrder
  <1> QED
    BY <1>1, <1>2 DEF RecordOutcome, Delivers

LEMMA DrainShape ==
    ASSUME Inv, DrainStep
    PROVE  /\ UNCHANGED <<version, deleted>>
           /\ Rests \/ \E d \in Drains, r \in Rows : Delivers(d, r)
  <1> USE DEF Inv
  <1>1. ASSUME NEW d \in Drains, NEW due, BeginClaim(d, due)
        PROVE  UNCHANGED <<version, deleted>> /\ Rests
    BY <1>1 DEF BeginClaim, sourceVars, rowVars, Rests, Idles
  <1>2. ASSUME NEW d \in Drains, GatewayCallFails(d) \/ Crash(d)
        PROVE  UNCHANGED <<version, deleted>> /\ Rests
    BY <1>2 DEF GatewayCallFails, Crash, sourceVars, rowVars, Rests, Idles
  <1>3. ASSUME NEW d \in Drains, NEW r \in Rows, NEW arrives, NEW ok,
               MarkSubmitted(d, r) \/ Transmit(d, r, arrives, ok)
        PROVE  UNCHANGED <<version, deleted>> /\ Rests
    BY <1>3 DEF MarkSubmitted, Transmit, sourceVars, rowVars, Rests, Idles
  <1>4. ASSUME NEW d \in Drains, NEW r \in Rows,
               ReleaseUnsubmitted(d, r) \/ MarkIneligible(d, r)
        PROVE  UNCHANGED <<version, deleted>> /\ Rests
    BY <1>4 DEF ReleaseUnsubmitted, MarkIneligible, Owns, sourceVars, Rests, Idles, Moves,
                Unfinished
  <1>5. ASSUME NEW d \in Drains, NEW r \in Rows, RecordOutcome(d, r)
        PROVE  UNCHANGED <<version, deleted>> /\ (Rests \/ Delivers(d, r))
    <2>1. UNCHANGED <<version, deleted>>
      BY <1>5 DEF RecordOutcome
    <2>2. CASE ~Owns(d, r)
      BY <1>5, <2>1, <2>2 DEF RecordOutcome, Rests, Idles
    <2>3. CASE Owns(d, r) /\ stage[d][r] # "accepted"
      <3>1. status' = [s \in Rows |-> IF s = r THEN "failed" ELSE status[s]]
        BY <1>5, <2>3 DEF RecordOutcome
      <3>2. status' = [status EXCEPT ![r] = "failed"]
        BY <3>1 DEF TypeOK
      <3> QED
        BY <2>1, <2>3, <3>2 DEF Owns, Rests, Moves
    <2>4. CASE Owns(d, r) /\ stage[d][r] = "accepted"
      BY <1>5, <2>1, <2>4, AcceptedShape
    <2> QED
      BY <2>2, <2>3, <2>4
  <1> QED
    BY <1>1, <1>2, <1>3, <1>4, <1>5 DEF DrainStep

LEMMA OtherShape ==
    ASSUME Inv,
           \/ \E src \in Sources : RecordRendered(src) \/ RecordRenderFailure(src)
           \/ CleanupMedia
           \/ SocialStep
           \/ \E r \in Rows : LateArrival(r)
           \/ \E S \in SUBSET Failed : AdminRetry(S)
    PROVE  UNCHANGED <<version, deleted>> /\ Idles
  <1>1. CASE UNCHANGED <<version, deleted, status>>
    BY <1>1 DEF Idles
  <1>2. ASSUME NEW S \in SUBSET Failed, AdminRetry(S)
        PROVE  UNCHANGED <<version, deleted>> /\ Idles
    BY <1>2 DEF AdminRetry, Failed, sourceVars, Idles, Phase
  <1> QED
    BY <1>1, <1>2 DEF RecordRendered, RecordRenderFailure, CleanupMedia, SocialStep, Unfollow,
                      Follow, ChangePolicy, LateArrival, sourceVars, rowVars

(* A step that rests is a Requeue, a Drop or no step of the outbox.        *)
LEMMA RestMaps ==
    ASSUME Inv, Rests, UNCHANGED <<version, deleted>>
    PROVE  Outbox!Next \/ UNCHANGED Outbox!vars
  <1> USE DEF Inv
  <1>1. CASE Idles
    BY <1>1, ProgressByRow DEF Idles, Outbox!vars
  <1>2. ASSUME NEW r \in Rows, NEW x \in Statuses, Moves(r, Unfinished, x)
        PROVE  Progress' = [Progress EXCEPT ![r] = Phase(x)]
    <2>1. \A s \in Rows : Phase(status'[s]) = IF s = r THEN Phase(x) ELSE Phase(status[s])
      BY <1>2 DEF Moves, TypeOK
    <2> QED
      BY <2>1, ProgressByRow
  <1>3. ASSUME NEW r \in Rows, Moves(r, {"sending"}, "failed") PROVE Outbox!Requeue(r)
    <2>1. Progress[r] = "sending"
      BY <1>3, ProgressByRow DEF Moves, Phase
    <2>2. Moves(r, Unfinished, "failed") /\ "failed" \in Statuses
      BY <1>3 DEF Moves, Unfinished, Statuses
    <2>3. Phase("failed") = "waiting"
      BY DEF Phase
    <2> QED
      BY <1>2, <2>1, <2>2, <2>3 DEF Outbox!Requeue
  <1>4. ASSUME NEW r \in Rows, NEW x \in {"ineligible", "superseded"},
               Moves(r, Unfinished, x)
        PROVE  Outbox!Drop(r)
    <2>1. Progress[r] \in {"waiting", "sending"}
      BY <1>4, ProgressByRow DEF Moves, Phase, Unfinished
    <2>2. x \in Statuses /\ Phase(x) = "dropped"
      BY DEF Phase, Statuses, Settled, Terminal
    <2> QED
      BY <1>2, <1>4, <2>1, <2>2 DEF Outbox!Drop
  <1> QED
    BY <1>1, <1>3, <1>4, SameLanes DEF Rests, Outbox!Next

(* A claim is a Start: claim_due's barrier gives what the ordered outbox   *)
(* asks of the older and the newer rows of the lane.                       *)
LEMMA StartMaps ==
    ASSUME Inv, NEW d \in Drains, NEW r \in Rows, Starts(d, r)
    PROVE  Outbox!Start(r)
  <1> USE DEF Inv
  <1>1. /\ status' = [status EXCEPT ![r] = "sending"]
        /\ r \in queue /\ ~Blocked(r) /\ ~Obsolete(r)
        /\ UNCHANGED <<version, deleted>>
    BY DEF Starts, Claim, NextCandidate
  <1>2. status[r] \in Unfinished
    BY <1>1 DEF QueueInv
  <1>3. \A s \in Rows : status[s] \in Statuses
    BY DEF TypeOK
  <1>4. Progress[r] \in {"waiting", "sending"}
    BY <1>2, ProgressByRow DEF Phase, Unfinished
  <1>5. Progress' = [Progress EXCEPT ![r] = "sending"]
    <2>1. \A s \in Rows : Phase(status'[s]) = IF s = r THEN "sending" ELSE Phase(status[s])
      BY <1>1 DEF TypeOK, Phase
    <2> QED
      BY <2>1, ProgressByRow
  <1>6. ASSUME NEW s \in Older(r)
        PROVE  Progress[s] \in IF IsDelete(r) THEN Outbox!Over \cup {"waiting"}
                                              ELSE Outbox!Over
    <2>1. s \in Rows /\ status[s] \notin IF IsDelete(r) THEN {"sending"} ELSE Unfinished
      BY <1>1 DEF Blocked, HasLowerUnfinished, Older
    <2>2. Progress[s] = Phase(status[s])
      BY <2>1, ProgressByRow
    <2> QED
      BY <1>3, <2>1, <2>2, Phases DEF Outbox!Over, Unfinished
  <1>7. ASSUME NEW s \in Newer(r)
        PROVE  /\ Progress[s] # "sending"
               /\ IsDelete(s) => Progress[s] \in Outbox!Over \ {"sent"}
    <2>1. s \in Rows /\ r \in Older(s)
      BY LaneOrder DEF Newer
    <2>2. IsDelete(s) => status[s] \notin Unfinished \cup {"delivered"}
      BY <1>1 DEF Blocked, Obsolete, NewerDeleteIn
    <2>3. status[s] # "sending"
      <3>1. status[r] \notin Settled
        BY <1>2 DEF Unfinished, Settled, Terminal
      <3> QED
        BY <2>1, <2>2, <3>1 DEF VersionBarrier, Unfinished
    <2>4. Progress[s] = Phase(status[s])
      BY <2>1, ProgressByRow
    <2> QED
      BY <1>3, <2>1, <2>2, <2>3, <2>4, Phases DEF Outbox!Over, Unfinished
  <1> QED
    BY <1>1, <1>4, <1>5, <1>6, <1>7, SameLanes, LaneOrder DEF Outbox!Start, Newer

(* A recorded success is a Finish, which drops what waits behind a Delete. *)
LEMMA DeliverMaps ==
    ASSUME Inv, NEW d \in Drains, NEW r \in Rows, Delivers(d, r)
    PROVE  Outbox!Finish(r)
  <1> USE DEF Inv
  <1>1. status[r] = "sending" /\ UNCHANGED <<version, deleted>>
    BY DEF Delivers, Owns
  <1>2. Progress[r] = "sending"
    BY <1>1, ProgressByRow DEF Phase
  <1>3. ASSUME NEW s \in Rows
        PROVE  Phase(status'[s]) =
                 CASE s = r -> "sent"
                   [] s # r /\ IsDelete(r) /\ s \in Older(r) /\ Progress[s] = "waiting"
                         -> "dropped"
                   [] OTHER -> Progress[s]
    <2>1. Progress[s] = Phase(status[s]) /\ status[s] \in Statuses
      BY ProgressByRow DEF TypeOK
    <2>2. Progress[s] = "waiting" <=> status[s] \in {"pending", "failed"}
      BY <2>1, Phases
    <2>3. Phase("delivered") = "sent" /\ Phase("superseded") = "dropped"
      BY DEF Phase
    <2>4. status'[s] = CASE s = r -> "delivered"
            [] s # r /\ IsDelete(r) /\ s \in Older(r) /\ status[s] \in {"pending", "failed"}
                  -> "superseded"
            [] OTHER -> status[s]
      BY DEF Delivers
    <2> QED
      BY <2>1, <2>2, <2>3, <2>4
  <1>4. Progress' = [s \in Rows |->
            CASE s = r -> "sent"
              [] s # r /\ IsDelete(r) /\ s \in Older(r) /\ Progress[s] = "waiting"
                    -> "dropped"
              [] OTHER -> Progress[s]]
    BY <1>3, ProgressByRow
  <1> QED
    BY <1>1, <1>2, <1>4, SameLanes DEF Outbox!Finish

LEMMA StepMaps == Inv /\ [Next]_vars => [Outbox!Next]_(Outbox!vars)
  <1> SUFFICES ASSUME Inv, [Next]_vars PROVE Outbox!Next \/ UNCHANGED Outbox!vars
    OBVIOUS
  <1> USE DEF Inv
  <1>1. TypeOK'
    BY TypeStep
  <1>2. ASSUME NEW k \in ProfileKeys, NEW m, CommitProfile(k, m) PROVE Outbox!Next
    BY <1>1, <1>2, InsertMaps, KeysAssumption DEF CommitProfile, Keys, TypeOK
  <1>3. ASSUME NEW k \in ContentKeys, NEW direct, CommitCreate(k, direct) PROVE Outbox!Next
    <2>1. k \notin deleted
      BY <1>3 DEF CommitCreate, DeletedInv
    <2> QED
      BY <1>1, <1>3, <2>1, InsertMaps DEF CommitCreate, Keys
  <1>4. ASSUME NEW k \in ContentKeys, NEW deletes, CommitMutation(k, deletes)
        PROVE  Outbox!Next
    BY <1>1, <1>4, InsertMaps DEF CommitMutation, Keys
  <1>5. CASE SourceStep
    <2>1. ASSUME \/ \E src \in Sources : RecordRendered(src) \/ RecordRenderFailure(src)
                 \/ CleanupMedia
          PROVE  Outbox!Next \/ UNCHANGED Outbox!vars
      BY <2>1, OtherShape, RestMaps DEF Rests
    <2> QED
      BY <1>2, <1>3, <1>4, <1>5, <2>1 DEF SourceStep
  <1>6. ASSUME \/ SocialStep
               \/ \E r \in Rows : LateArrival(r)
               \/ \E S \in SUBSET Failed : AdminRetry(S)
        PROVE  Outbox!Next \/ UNCHANGED Outbox!vars
    BY <1>6, OtherShape, RestMaps DEF Rests
  <1>7. CASE DrainStep
    <2>1. CASE Rests
      BY <1>7, <2>1, DrainShape, RestMaps
    <2>2. ASSUME NEW d \in Drains, NEW r \in Rows, Delivers(d, r) PROVE Outbox!Next
      BY <2>2, DeliverMaps, SameLanes DEF Outbox!Next
    <2> QED
      BY <1>7, <2>1, <2>2, DrainShape
  <1>8. CASE ClaimStep
    <2>1. ASSUME NEW d \in Drains, NEW r \in Rows, Claim(d, r) PROVE Outbox!Next
      <3>1. Starts(d, r)
        BY <2>1 DEF Starts, Claim, Advance, sourceVars
      <3> QED
        BY <3>1, StartMaps, SameLanes DEF Outbox!Next
    <2>2. ASSUME NEW d \in Drains, NEW r \in Rows,
                 Defer(d, r) \/ Supersede(d, r) \/ DropIneligible(d, r)
          PROVE  Outbox!Next \/ UNCHANGED Outbox!vars
      BY <2>2, ClaimShape, RestMaps
    <2> QED
      BY <1>8, <2>1, <2>2 DEF ClaimStep
  <1>9. CASE UNCHANGED vars
    BY <1>9 DEF vars, Outbox!vars, Progress
  <1> QED
    BY <1>5, <1>6, <1>7, <1>8, <1>9 DEF Next

(* The rows keep the promises of OrderedOutbox: through claims,            *)
(* takeovers of stale claims, late outcomes, operator retries and crashes, *)
(* versions go to an endpoint one at a time and in order, none is sent     *)
(* twice, and a Delete ends its lane.                                      *)
THEOREM OutboxImplemented == Spec => ImplementsOutbox
  <1>1. Init => Outbox!Init
    BY SameLanes DEF Init, Outbox!Init, Progress
  <1> QED
    BY <1>1, InvInit, InvStep, StepMaps, PTL DEF Spec, ImplementsOutbox, Outbox!Spec
=============================================================================
