----------------------------- MODULE MCMessages -----------------------------
(***************************************************************************)
(* What becomes of messages: the edits of a member's own message on their  *)
(* way out (ContentMutation), remote comments on their way into the        *)
(* channel of a post (PersonalFeedDelivery), and what a restart makes of   *)
(* their ids (TypedIdentity).  The three share no state here: a behaviour  *)
(* takes the steps of one of them, the focus.                              *)
(*                                                                         *)
(* Drains are interchangeable.  So are the comments: the order of their    *)
(* rows is a variable.                                                     *)
(***************************************************************************)
EXTENDS ContentMutation, TLC

CONSTANTS Comments, Root, MaxRevision, ClaimLimit, MaxAttempts, MaxFaults, Gone,
          Post, Servers, NoId, MaxStarts

VARIABLES
    focus,
    rows, parent, content, removed, state, attempts, message, shown, bound,
    batch, phase, unwoken, faults,
    place, home, token, release, up, answered, mapping, published, row, parentId,
    waiting, request, told, starts

Feed == INSTANCE PersonalFeedDelivery

Identity == INSTANCE TypedIdentity WITH parent <- answered

ASSUME MessagesAssumption ==
    Feed!PersonalFeedAssumption /\ Identity!TypedIdentityAssumption

feedVars == <<rows, parent, content, removed, state, attempts, message, shown, bound,
              batch, phase, unwoken, faults>>

identityVars == <<place, home, token, release, up, answered, mapping, published, row,
                  parentId, waiting, request, told, starts>>

AllInit ==
    /\ focus \in {"outgoing", "incoming", "identity"}
    /\ Init
    /\ Feed!Init
    /\ Identity!Init
    /\ focus # "identity" =>
          place = "local" /\ release = "typed" /\ \A i \in Identity!Items : home[i] = "here"

AllNext ==
    \/ focus = "outgoing" /\ Next /\ UNCHANGED <<focus, feedVars, identityVars>>
    \/ focus = "incoming" /\ Feed!Next /\ UNCHANGED <<focus, vars, identityVars>>
    \/ focus = "identity" /\ Identity!Next /\ UNCHANGED <<focus, vars, feedVars>>

AllSpec == AllInit /\ [][AllNext]_<<focus, vars, feedVars, identityVars>>

Symmetry == Permutations(Drains) \cup Permutations(Comments)

-----------------------------------------------------------------------------
(* The properties of the instances; those of ContentMutation are its own *)

TypesOK == TypeOK /\ Feed!TypeOK /\ Identity!TypeOK
DeletedUnseenStaysSuppressed == Feed!DeletedUnseenStaysSuppressed
OneMessage == Feed!OneMessage
WaitsForParent == Feed!WaitsForParent
NeverOlder == Feed!NeverOlder
StartKeepsReferences == Identity!StartKeepsReferences
=============================================================================
