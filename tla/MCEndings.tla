------------------------------ MODULE MCEndings ------------------------------
(***************************************************************************)
(* What content mutations and the User Actor outbox come to in the end.    *)
(* The two share no state here: a behaviour takes the steps of one, the    *)
(* focus, and the other stays where it began.  The conditions of fairness  *)
(* are those of the two modules; where each has one, a single condition    *)
(* stands for both, since the focus never changes.                         *)
(***************************************************************************)
EXTENDS ContentMutation

CONSTANTS ContentKeys, Endpoints, Followers, MaxVersion, NoInbox

VARIABLES
    focus,
    version, withdrawn, srcState, media, audience, status, token, incarnation, inbox,
    denied, writer, queue, stage, actors, late, received, remote, deaths

Outbox == INSTANCE UserActorDelivery
              WITH ProfileKeys <- {}, DirectTargets <- {}, MaxIncarnation <- 1,
                   Bannable <- {}, ClaimLimit <- 1, MaxCrashes <- 1,
                   deleted <- withdrawn, crashes <- deaths

outboxVars == <<version, withdrawn, srcState, media, audience, status, token,
                incarnation, inbox, denied, writer, queue, stage, actors, late,
                received, remote, deaths>>
allVars == <<focus, outboxVars, vars>>

InOutbox(A) == focus = "outbox" /\ A /\ UNCHANGED <<focus, vars>>
InMutations(A) == focus = "mutations" /\ A /\ UNCHANGED <<focus, outboxVars>>

EndInit == focus \in {"outbox", "mutations"} /\ Outbox!Init /\ Init

EndNext == InOutbox(Outbox!Next) \/ InMutations(Next)

Free(A) == InOutbox(writer = NoDrain /\ A)

EndFairness ==
    /\ WF_allVars(\/ InOutbox(writer # NoDrain /\ Outbox!ClaimStep)
                  \/ InMutations(edits # <<>> /\ RecordDesiredUpdate(Len(edits))))
    /\ WF_allVars(InMutations(RecordDesiredDelete))
    /\ WF_allVars(InMutations(ReserveAdmitted))
    /\ WF_allVars(InMutations(Reconciler))
    /\ \A src \in Outbox!Sources : SF_allVars(Free(Outbox!RecordRendered(src)))
    /\ \A d \in Drains :
          /\ SF_allVars(\/ Free(Outbox!FullClaim(d))
                        \/ InMutations(\E i \in Ids : ClaimMutation(d, i)))
          /\ WF_allVars(InMutations(\/ MarkSendPossible(d)
                                    \/ CommitCanonical(d)
                                    \/ ReserveFollowing(d)))
          /\ \A r \in Outbox!Rows :
                /\ SF_allVars(Free(Outbox!MarkSubmitted(d, r) \/ Outbox!MarkIneligible(d, r)))
                /\ SF_allVars(\/ Free(Outbox!Transmit(d, r, TRUE, TRUE))
                              \/ InMutations(GatewayAnswers(d)))
                /\ SF_allVars(Free(stage[d][r] = "accepted" /\ Outbox!RecordOutcome(d, r)))
                /\ WF_allVars(Free(Outbox!RecordOutcome(d, r)))

EndSpec == EndInit /\ [][EndNext]_allVars /\ EndFairness

-----------------------------------------------------------------------------
(* The property of the instance; those of ContentMutation are its own *)

\* Every queued row is delivered, superseded or dropped, except in the lane
\* where a Delete meets a dead claim (UserActorDelivery!EveryRowSettles).
EveryRowSettles == Outbox!EveryRowSettles
=============================================================================
