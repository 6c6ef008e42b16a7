-------------------------- MODULE MCLocalCommunity --------------------------
(***************************************************************************)
(* An instance of LocalCommunity for TLC: a post that is delivered twice,  *)
(* its update, and a reply, of which three happen.  The local subscriber   *)
(* forum a replies to the remote actor r, or r to a.                       *)
(***************************************************************************)
EXTENDS LocalCommunity, TLC

CONSTANTS a, b, r, q

ASSUME LocalCommunityAssumption

Mixed == {s \in [Objects -> {a, r}] : s[0] # s[1]}

PostUpdated ==
    {<<"create", 0, 1>>, <<"create", 0, 2>>, <<"create", 1, 1>>, <<"update", 0, 1>>}
=============================================================================
