--------------------------- MODULE MCOutboxProofs ---------------------------
(***************************************************************************)
(* What UserActorDeliveryProofs proves, for the second instance of         *)
(* MCOutbox: batches, media and audiences, for any keys, endpoints,        *)
(* followers and drains.  The theorems are instantiated as the module is,  *)
(* and the lemmas say that the two instances are the same specification.   *)
(***************************************************************************)
EXTENDS MCOutbox, TLAPS

Proofs == INSTANCE UserActorDeliveryProofs
    WITH ProfileKeys <- Profile, ContentKeys <- Posts, MaxVersion <- 1,
         Endpoints <- Places, DirectTargets <- Direct, Followers <- Readers,
         MaxIncarnation <- 2, Bannable <- Banned, Drains <- Workers,
         ClaimLimit <- 2, MaxCrashes <- 0,
         version <- aVersion, deleted <- aDeleted, srcState <- aSrcState,
         media <- aMedia, audience <- aAudience, status <- aStatus, token <- aToken,
         incarnation <- aIncarnation, inbox <- aInbox, denied <- aDenied,
         writer <- aWriter, queue <- aQueue, stage <- aStage, actors <- aActors,
         late <- aLate, received <- aReceived, remote <- aRemote, crashes <- aCrashes

LEMMA AudienceFacts ==
    /\ Proofs!KeysAssumption /\ Proofs!EndpointAssumption /\ Proofs!BoundAssumption
    /\ Proofs!DrainAssumption /\ Proofs!PolicyAssumption
  BY AudienceAssumption
  DEF Proofs!KeysAssumption, Proofs!EndpointAssumption, Proofs!BoundAssumption,
      Proofs!DrainAssumption, Proofs!PolicyAssumption

LEMMA SameInit == Proofs!Init = Audience!Init
  BY DEF Proofs!Keys, Audience!Keys, Proofs!Versions, Audience!Versions,
      Proofs!Sources, Audience!Sources, Proofs!Rows, Audience!Rows,
      Proofs!Init, Audience!Init

LEMMA SameSources == Proofs!SourceStep = Audience!SourceStep
  BY DEF Proofs!Keys, Audience!Keys, Proofs!Versions, Audience!Versions,
      Proofs!Sources, Audience!Sources, Proofs!Rows, Audience!Rows,
      Proofs!Unfinished, Audience!Unfinished, Proofs!Older, Audience!Older,
      Proofs!Newer, Audience!Newer, Proofs!IsDelete, Audience!IsDelete,
      Proofs!SourceOf, Audience!SourceOf, Proofs!Batch, Audience!Batch,
      Proofs!Idle, Audience!Idle, Proofs!sourceVars, Audience!sourceVars,
      Proofs!rowVars, Audience!rowVars, Proofs!followerVars,
      Audience!followerVars, Proofs!claimVars, Audience!claimVars,
      Proofs!drainVars, Audience!drainVars, Proofs!wireVars,
      Audience!wireVars, Proofs!Transportable, Audience!Transportable,
      Proofs!MediaAfter, Audience!MediaAfter, Proofs!AudienceAt,
      Audience!AudienceAt, Proofs!InsertSource, Audience!InsertSource,
      Proofs!CommitProfile, Audience!CommitProfile, Proofs!CommitCreate,
      Audience!CommitCreate, Proofs!CommitMutation, Audience!CommitMutation,
      Proofs!RecordRendered, Audience!RecordRendered,
      Proofs!RecordRenderFailure, Audience!RecordRenderFailure,
      Proofs!CleanupMedia, Audience!CleanupMedia, Proofs!SourceStep,
      Audience!SourceStep

LEMMA SameSocial == Proofs!SocialStep = Audience!SocialStep
  BY DEF Proofs!Keys, Audience!Keys, Proofs!Versions, Audience!Versions,
      Proofs!Sources, Audience!Sources, Proofs!Rows, Audience!Rows,
      Proofs!Unfinished, Audience!Unfinished, Proofs!Older, Audience!Older,
      Proofs!Newer, Audience!Newer, Proofs!IsDelete, Audience!IsDelete,
      Proofs!SourceOf, Audience!SourceOf, Proofs!Batch, Audience!Batch,
      Proofs!Idle, Audience!Idle, Proofs!sourceVars, Audience!sourceVars,
      Proofs!rowVars, Audience!rowVars, Proofs!followerVars,
      Audience!followerVars, Proofs!claimVars, Audience!claimVars,
      Proofs!drainVars, Audience!drainVars, Proofs!wireVars,
      Audience!wireVars, Proofs!Follow, Audience!Follow, Proofs!Unfollow,
      Audience!Unfollow, Proofs!ChangePolicy, Audience!ChangePolicy,
      Proofs!SocialStep, Audience!SocialStep

LEMMA SameClaims == Proofs!ClaimStep = Audience!ClaimStep
  BY DEF Proofs!Keys, Audience!Keys, Proofs!Versions, Audience!Versions,
      Proofs!Sources, Audience!Sources, Proofs!Rows, Audience!Rows,
      Proofs!Unfinished, Audience!Unfinished, Proofs!Older, Audience!Older,
      Proofs!Newer, Audience!Newer, Proofs!IsDelete, Audience!IsDelete,
      Proofs!SourceOf, Audience!SourceOf, Proofs!Batch, Audience!Batch,
      Proofs!Idle, Audience!Idle, Proofs!sourceVars, Audience!sourceVars,
      Proofs!rowVars, Audience!rowVars, Proofs!followerVars,
      Audience!followerVars, Proofs!claimVars, Audience!claimVars,
      Proofs!drainVars, Audience!drainVars, Proofs!wireVars,
      Audience!wireVars, Proofs!Cardinality, Audience!Cardinality,
      Proofs!NextCandidate, Audience!NextCandidate, Proofs!Before,
      Audience!Before, Proofs!WithinClaimLimits, Audience!WithinClaimLimits,
      Proofs!NewerDeleteIn, Audience!NewerDeleteIn, Proofs!HasNewerDelivered,
      Audience!HasNewerDelivered, Proofs!HasLowerUnfinished,
      Audience!HasLowerUnfinished, Proofs!Obsolete, Audience!Obsolete,
      Proofs!Blocked, Audience!Blocked, Proofs!EligibleActors,
      Audience!EligibleActors, Proofs!Advance, Audience!Advance,
      Proofs!MarkTerminalWithoutClaim, Audience!MarkTerminalWithoutClaim,
      Proofs!Defer, Audience!Defer, Proofs!Supersede, Audience!Supersede,
      Proofs!DropIneligible, Audience!DropIneligible, Proofs!Claim,
      Audience!Claim, Proofs!ClaimStep, Audience!ClaimStep

LEMMA SameDrains == Proofs!DrainStep = Audience!DrainStep
  BY DEF Proofs!Keys, Audience!Keys, Proofs!Versions, Audience!Versions,
      Proofs!Sources, Audience!Sources, Proofs!Rows, Audience!Rows,
      Proofs!Unfinished, Audience!Unfinished, Proofs!Older, Audience!Older,
      Proofs!Newer, Audience!Newer, Proofs!IsDelete, Audience!IsDelete,
      Proofs!SourceOf, Audience!SourceOf, Proofs!Batch, Audience!Batch,
      Proofs!Idle, Audience!Idle, Proofs!sourceVars, Audience!sourceVars,
      Proofs!rowVars, Audience!rowVars, Proofs!followerVars,
      Audience!followerVars, Proofs!claimVars, Audience!claimVars,
      Proofs!drainVars, Audience!drainVars, Proofs!wireVars,
      Audience!wireVars, Proofs!BeginClaim, Audience!BeginClaim, Proofs!First,
      Audience!First, Proofs!Owns, Audience!Owns, Proofs!Forget,
      Audience!Forget, Proofs!Allowed, Audience!Allowed,
      Proofs!ReleaseUnsubmitted, Audience!ReleaseUnsubmitted,
      Proofs!MarkIneligible, Audience!MarkIneligible, Proofs!MarkSubmitted,
      Audience!MarkSubmitted, Proofs!InStage, Audience!InStage,
      Proofs!Arrives, Audience!Arrives, Proofs!Transmit, Audience!Transmit,
      Proofs!GatewayCallFails, Audience!GatewayCallFails,
      Proofs!RecordOutcome, Audience!RecordOutcome, Proofs!Crash,
      Audience!Crash, Proofs!Failed, Audience!Failed, Proofs!Sending,
      Audience!Sending, Proofs!Transportable, Audience!Transportable,
      Proofs!MediaAfter, Audience!MediaAfter, Proofs!DrainStep,
      Audience!DrainStep

LEMMA SameNext == Proofs!Next = Audience!Next
  BY SameSources, SameSocial, SameClaims, SameDrains
  DEF Proofs!Keys, Audience!Keys, Proofs!Versions, Audience!Versions,
      Proofs!Sources, Audience!Sources, Proofs!Rows, Audience!Rows,
      Proofs!Unfinished, Audience!Unfinished, Proofs!Older, Audience!Older,
      Proofs!Newer, Audience!Newer, Proofs!IsDelete, Audience!IsDelete,
      Proofs!SourceOf, Audience!SourceOf, Proofs!Batch, Audience!Batch,
      Proofs!Idle, Audience!Idle, Proofs!sourceVars, Audience!sourceVars,
      Proofs!rowVars, Audience!rowVars, Proofs!followerVars,
      Audience!followerVars, Proofs!claimVars, Audience!claimVars,
      Proofs!drainVars, Audience!drainVars, Proofs!wireVars,
      Audience!wireVars, Proofs!Arrives, Audience!Arrives, Proofs!LateArrival,
      Audience!LateArrival, Proofs!Failed, Audience!Failed, Proofs!AdminRetry,
      Audience!AdminRetry, Proofs!Next, Audience!Next

LEMMA AudienceRuns == BothSpec => Proofs!Spec
  <1>1. BothInit => Proofs!Init
    BY SameInit DEF BothInit
  <1>2. [BothNext]_<<focus, vars, audienceVars>> => [Proofs!Next]_Proofs!vars
    BY SameNext DEF BothNext, audienceVars, Proofs!vars
  <1> QED
    BY <1>1, <1>2, PTL DEF BothSpec, Proofs!Spec

(* A drain never holds two versions for one endpoint, which the gateway    *)
(* would refuse as a batch (claim_due), whatever claims go stale.          *)
THEOREM BatchesStayApart == BothSpec => []OneVersionEach
  <1>1. Proofs!OneVersionPerEndpoint => OneVersionEach
    BY DEF OneVersionEach, Proofs!OneVersionPerEndpoint, Audience!OneVersionPerEndpoint,
           Proofs!Batch, Audience!Batch, Proofs!Rows, Audience!Rows, Proofs!Keys,
           Audience!Keys, Proofs!Versions, Audience!Versions
  <1> QED
    BY AudienceRuns, AudienceFacts, Proofs!DeliveriesAreAccepted, <1>1, PTL

(* Media is kept as long as a version that names it may be rendered or     *)
(* sent, operator retries included (release_terminal_source_media).        *)
THEOREM MediaOutlivesRetries == BothSpec => []MediaKept
  <1>1. Proofs!MediaRetained => MediaKept
    BY DEF MediaKept, Proofs!MediaRetained, Audience!MediaRetained, Proofs!Transportable,
           Audience!Transportable, Proofs!Sources, Audience!Sources, Proofs!SourceOf,
           Audience!SourceOf, Proofs!Unfinished, Audience!Unfinished, Proofs!Rows,
           Audience!Rows, Proofs!Keys, Audience!Keys, Proofs!Versions, Audience!Versions
  <1> QED
    BY AudienceRuns, AudienceFacts, Proofs!MediaStays, <1>1, PTL

(* A row whose addressees have all left is not claimed when the same       *)
(* actors follow anew: claim_due matches relationships.                    *)
THEOREM RefollowsReviveNothing == BothSpec => RefollowRevivesNothing
  <1>1. Proofs!RefollowDoesNotRevive => RefollowRevivesNothing
    BY PTL DEF RefollowRevivesNothing, Proofs!RefollowDoesNotRevive,
           Audience!RefollowDoesNotRevive, Proofs!Departed, Audience!Departed,
           Proofs!Rows, Audience!Rows, Proofs!Keys, Audience!Keys, Proofs!Versions,
           Audience!Versions, Proofs!vars, Audience!vars
  <1> QED
    BY AudienceRuns, AudienceFacts, Proofs!DepartedNotRevived, <1>1, PTL
=============================================================================
