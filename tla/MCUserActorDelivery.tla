------------------------ MODULE MCUserActorDelivery ------------------------
(***************************************************************************)
(* Instances of UserActorDelivery for TLC.  Drains are interchangeable     *)
(* and the order of endpoints is their number, so the safety runs use the  *)
(* symmetry of the drains; the liveness runs use none.                     *)
(***************************************************************************)
EXTENDS UserActorDelivery, TLC

DrainSymmetry == Permutations(Drains)
=============================================================================
