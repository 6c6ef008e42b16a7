------------------------------ MODULE MCOutbox ------------------------------
(***************************************************************************)
(* Two instances of UserActorDelivery for its safety.  The lane: several   *)
(* versions of one object, one endpoint, two drains, which are             *)
(* interchangeable.  The audience: a profile and a post, two endpoints and *)
(* a follower who comes and goes, one drain.  They share no state: a       *)
(* behaviour takes the steps of one, the focus.                            *)
(***************************************************************************)
EXTENDS MCUserActorDelivery

CONSTANTS Profile, Posts, Places, Direct, Readers, Banned, Workers

VARIABLES
    focus,
    aVersion, aDeleted, aSrcState, aMedia, aAudience, aStatus, aToken, aIncarnation,
    aInbox, aDenied, aWriter, aQueue, aStage, aActors, aLate, aReceived, aRemote,
    aCrashes

Audience == INSTANCE UserActorDelivery
    WITH ProfileKeys <- Profile, ContentKeys <- Posts, MaxVersion <- 1,
         Endpoints <- Places, DirectTargets <- Direct, Followers <- Readers,
         MaxIncarnation <- 2, Bannable <- Banned, Drains <- Workers,
         ClaimLimit <- 2, MaxCrashes <- 0,
         version <- aVersion, deleted <- aDeleted, srcState <- aSrcState,
         media <- aMedia, audience <- aAudience, status <- aStatus, token <- aToken,
         incarnation <- aIncarnation, inbox <- aInbox, denied <- aDenied,
         writer <- aWriter, queue <- aQueue, stage <- aStage, actors <- aActors,
         late <- aLate, received <- aReceived, remote <- aRemote, crashes <- aCrashes

ASSUME AudienceAssumption ==
    /\ Profile \cap Posts = {} /\ NoDrain \notin Workers
    /\ Places \subseteq Nat /\ Direct \subseteq Places /\ NoInbox \notin Places
    /\ Banned \subseteq Places \cup Readers

audienceVars == <<aVersion, aDeleted, aSrcState, aMedia, aAudience, aStatus, aToken,
                  aIncarnation, aInbox, aDenied, aWriter, aQueue, aStage, aActors,
                  aLate, aReceived, aRemote, aCrashes>>

BothInit == focus \in {"lane", "audience"} /\ Init /\ Audience!Init

BothNext ==
    \/ focus = "lane" /\ Next /\ UNCHANGED <<focus, audienceVars>>
    \/ focus = "audience" /\ Audience!Next /\ UNCHANGED <<focus, vars>>

BothSpec == BothInit /\ [][BothNext]_<<focus, vars, audienceVars>>

-----------------------------------------------------------------------------
(* The properties of the second instance; those of the first are its own *)

\* Batches of the audience stay one version per endpoint
\* (UserActorDelivery!OneVersionPerEndpoint).
OneVersionEach == Audience!OneVersionPerEndpoint

\* Media outlives every retry (UserActorDelivery!MediaRetained).
MediaKept == Audience!MediaRetained

\* A new Follow revives no old audience (UserActorDelivery!RefollowDoesNotRevive).
RefollowRevivesNothing == Audience!RefollowDoesNotRevive
=============================================================================
