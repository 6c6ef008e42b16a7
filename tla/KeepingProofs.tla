--------------------------- MODULE KeepingProofs ---------------------------
(***************************************************************************)
(* Theorems about what MCBridging keeps through MCKeeping: the published   *)
(* invite of a server (any commands and codes), the restore of a           *)
(* deployment (any generations and stops), the upgrade of a database (any  *)
(* releases and failures) and the comments below a personal-feed post (any *)
(* comments and faults, types only); and the types of MCBridging as a      *)
(* whole.                                                                  *)
(***************************************************************************)
EXTENDS BridgingProofs, ProfileMediaProofs

-----------------------------------------------------------------------------
(* Guild invites *)

InviteStages == {"new", "creating", "created", "fetching old", "deleting old", "compensating",
                 "fetching", "deleting", "deleted", "ended"}
InviteRows == [at : InviteStages, mine : Codes \cup {NoCode}, old : Codes \cup {NoCode}]

Active(c) == command[c].at \notin {"new", "ended"}

(* The invite a command has in hand: it is about to publish or to delete   *)
(* it, so it needs no account of its own yet.                              *)
Spare(r) ==
    IF r.at \in {"created", "compensating"} THEN {r.mine}
    ELSE IF r.at \in {"fetching old", "deleting old", "deleted"} THEN {r.old} ELSE {}

(* What it is going to publish.                                            *)
Promised(r) == IF r.at = "created" THEN {r.mine} ELSE {}

(* The invites of A that p does not show, and the link p or one promised   *)
(* that leads nowhere, but for the one the command r has in hand.          *)
Debt(A, p, r) ==
    ((A \ {p}) \ Spare(r)) \cup (({p} \ (A \cup {NoCode})) \ Spare(r)) \cup (Promised(r) \ A)

(* What the command r knows of the codes given out, of those alive and of  *)
(* the link.                                                               *)
CodesFit(G, A, p, r) ==
    /\ r.at \in {"created", "compensating"} => r.mine \in G /\ r.mine # p
    /\ r.at \in {"fetching old", "deleting old"} => r.old \in G /\ r.old # p
    /\ r.at \in {"fetching", "deleting", "deleted"} => r.old \in G /\ r.old = p
    /\ r.at = "deleted" => r.old \notin A

(* One command is under way at most; every stray invite, but for the one   *)
(* it has in hand, was a trouble.                                          *)
InvitesInv ==
    /\ alive \subseteq given /\ given \subseteq Codes
    /\ published \in given \cup {NoCode}
    /\ command \in [InviteCommands -> InviteRows]
    /\ troubles \in Nat
    /\ \A c, d \in InviteCommands : Active(c) /\ Active(d) => c = d
    /\ \A c \in InviteCommands : CodesFit(given, alive, published, command[c])
    /\ Keeping!Invites!Quiet => Few(Debt(alive, published, Keeping!Invites!New), troubles)
    /\ \A c \in InviteCommands : Active(c) => Few(Debt(alive, published, command[c]), troubles)

LEMMA InviteFacts ==
    /\ NoCode \notin Codes
    /\ Keeping!Invites!New \in InviteRows /\ Keeping!Invites!Ended \in InviteRows
    /\ Keeping!Invites!New.at = "new" /\ Keeping!Invites!Ended.at = "ended"
    /\ \A A, p : Debt(A, p, Keeping!Invites!Ended) = Debt(A, p, Keeping!Invites!New)
    /\ \A A, p, r : r.at \notin {"created", "compensating", "fetching old", "deleting old",
                                 "deleted"} => Debt(A, p, r) = Debt(A, p, Keeping!Invites!New)
  <1>1. NoCode \notin Codes
    BY BridgingAssumption DEF Keeping!Invites!GuildInvitesAssumption
  <1>2. /\ Keeping!Invites!New \in InviteRows /\ Keeping!Invites!Ended \in InviteRows
        /\ Keeping!Invites!New.at = "new" /\ Keeping!Invites!Ended.at = "ended"
    BY DEF Keeping!Invites!New, Keeping!Invites!Ended, InviteRows, InviteStages
  <1>3. \A r : r.at \notin {"created", "compensating", "fetching old", "deleting old",
                            "deleted"}
           => Spare(r) = {} /\ Promised(r) = {}
    BY DEF Spare, Promised
  <1> QED
    BY <1>1, <1>2, <1>3 DEF Debt

LEMMA RowMoves ==
    ASSUME NEW q \in InviteRows, NEW t \in InviteStages
    PROVE  /\ [q EXCEPT !.at = t] \in InviteRows
           /\ [q EXCEPT !.at = t].at = t
           /\ [q EXCEPT !.at = t].mine = q.mine /\ [q EXCEPT !.at = t].old = q.old
  BY DEF InviteRows

LEMMA InvitesInit == Keeping!Invites!Init => InvitesInv
  <1> SUFFICES ASSUME Keeping!Invites!Init PROVE InvitesInv
    OBVIOUS
  <1>1. /\ given = {} /\ alive = {} /\ published = NoCode /\ troubles = 0
        /\ command = [c \in InviteCommands |-> Keeping!Invites!New]
    BY DEF Keeping!Invites!Init
  <1>2. Debt(alive, published, Keeping!Invites!New) = {}
    BY <1>1, InviteFacts DEF Debt, Spare, Promised
  <1>3. Few(Debt(alive, published, Keeping!Invites!New), troubles)
    BY <1>1, <1>2, FS_EmptySet DEF Few
  <1> QED
    BY <1>1, <1>3, InviteFacts
        DEF InvitesInv, Active, CodesFit, Keeping!Invites!New, Keeping!Invites!Quiet

(* One command moves while no other is under way: what it leaves behind    *)
(* has been paid for.                                                      *)
LEMMA CommandMoves ==
    ASSUME InvitesInv, NEW c \in InviteCommands, Keeping!Invites!Quiet \/ Active(c),
           NEW r \in InviteRows, command' = [command EXCEPT ![c] = r],
           alive' \subseteq given', given' \subseteq Codes, published' \in given' \cup {NoCode},
           troubles' \in Nat, CodesFit(given', alive', published', r),
           Few(Debt(alive', published', r), troubles')
    PROVE  InvitesInv'
  <1>1. command' \in [InviteCommands -> InviteRows] /\ command'[c] = r
    BY DEF InvitesInv
  <1>2. ASSUME NEW d \in InviteCommands, d # c
        PROVE  command'[d] = command[d] /\ command[d].at \in {"new", "ended"}
    BY <1>2 DEF InvitesInv, Active, Keeping!Invites!Quiet
  <1>3. \A d, e \in InviteCommands : Active(d)' /\ Active(e)' => d = e
    BY <1>1, <1>2 DEF Active
  <1>4. \A d \in InviteCommands : CodesFit(given', alive', published', command'[d])
    BY <1>1, <1>2 DEF CodesFit
  <1>5. Keeping!Invites!Quiet' => Few(Debt(alive', published', Keeping!Invites!New), troubles')
    <2>1. Keeping!Invites!Quiet' => r.at \in {"new", "ended"}
      BY <1>1 DEF Keeping!Invites!Quiet
    <2> QED
      BY <2>1, InviteFacts
  <1>6. \A d \in InviteCommands :
            Active(d)' => Few(Debt(alive', published', command'[d]), troubles')
    BY <1>1, <1>2 DEF Active
  <1>7. Keeping!Invites!New' = Keeping!Invites!New
    BY DEF Keeping!Invites!New
  <1>8. alive' \subseteq given' /\ given' \subseteq Codes
        /\ published' \in given' \cup {NoCode} /\ troubles' \in Nat
    OBVIOUS
  <1> QED
    BY <1>1, <1>3, <1>4, <1>5, <1>6, <1>7, <1>8 DEF InvitesInv

(* A command that takes no trouble leaves no more than it found.           *)
LEMMA CommandMovesOn ==
    ASSUME InvitesInv, NEW c \in InviteCommands, Keeping!Invites!Quiet \/ Active(c),
           NEW r \in InviteRows, command' = [command EXCEPT ![c] = r],
           alive' \subseteq given', given' \subseteq Codes, published' \in given' \cup {NoCode},
           UNCHANGED troubles, CodesFit(given', alive', published', r),
           Debt(alive', published', r) \subseteq Debt(alive, published, command[c])
    PROVE  InvitesInv'
  <1>1. Few(Debt(alive, published, command[c]), troubles) /\ troubles \in Nat
    BY InviteFacts DEF InvitesInv, Active, Keeping!Invites!Quiet
  <1>2. Few(Debt(alive', published', r), troubles')
    <2>1. Debt(alive', published', r) \in SUBSET Debt(alive, published, command[c])
      OBVIOUS
    <2> QED
      BY <1>1, <2>1, FewLess
  <1> QED
    BY <1>1, <1>2, CommandMoves

(* One that takes a trouble may leave one invite more.                     *)
LEMMA CommandFails ==
    ASSUME InvitesInv, NEW c \in InviteCommands, Active(c),
           NEW r \in InviteRows, command' = [command EXCEPT ![c] = r],
           alive' \subseteq given', given' \subseteq Codes, published' \in given' \cup {NoCode},
           troubles' = troubles + 1, CodesFit(given', alive', published', r),
           \E x : Debt(alive', published', r)
                      \subseteq Debt(alive, published, command[c]) \cup {x}
    PROVE  InvitesInv'
  <1>1. Few(Debt(alive, published, command[c]), troubles) /\ troubles \in Nat
    BY DEF InvitesInv
  <1>2. Few(Debt(alive', published', r), troubles')
    <2>1. PICK x : Debt(alive', published', r)
                       \subseteq Debt(alive, published, command[c]) \cup {x}
      OBVIOUS
    <2> QED
      BY <1>1, <2>1, FewMore
  <1>3. troubles' \in Nat
    BY <1>1
  <1> QED
    BY <1>2, <1>3, CommandMoves

InviteStep(c) ==
    \/ Keeping!Invites!StartPublish(c) \/ Keeping!Invites!CreateFails(c)
    \/ Keeping!Invites!ReplacePublication(c) \/ Keeping!Invites!ReplaceFails(c)
    \/ Keeping!Invites!Compensate(c) \/ Keeping!Invites!FetchOld(c)
    \/ Keeping!Invites!DeleteOld(c) \/ Keeping!Invites!StartRemove(c)
    \/ Keeping!Invites!Fetch(c) \/ Keeping!Invites!Delete(c)
    \/ Keeping!Invites!RemovePublication(c) \/ Keeping!Invites!GivesUp(c)
    \/ \E code \in Codes : Keeping!Invites!CreateInvite(c, code)

(* Every step of publish_guild_invite and remove_guild_invite.             *)
LEMMA InviteCommandStep ==
    ASSUME InvitesInv, NEW c \in InviteCommands, InviteStep(c)
    PROVE  InvitesInv'
  <1> DEFINE q == command[c]
             Reaches(r) == command' = [command EXCEPT ![c] = r]
             Owed == Debt(alive, published, q)
  <1>0. /\ alive \subseteq given /\ given \subseteq Codes /\ published \in given \cup {NoCode}
        /\ q \in InviteRows /\ CodesFit(given, alive, published, q) /\ troubles \in Nat
        /\ command \in [InviteCommands -> InviteRows] /\ NoCode \notin Codes
    BY InviteFacts DEF InvitesInv
  <1>1. CASE Keeping!Invites!StartPublish(c)
    <2> DEFINE r == [q EXCEPT !.at = "creating"]
    <2>1. q.at = "new" /\ Keeping!Invites!Quiet /\ Reaches(r)
          /\ UNCHANGED <<given, alive, published, troubles>>
      BY <1>1, <1>0 DEF Keeping!Invites!StartPublish, Keeping!Invites!LockFree,
         Keeping!Invites!Moves
    <2>2. r \in InviteRows /\ r.at = "creating"
      BY <1>0, RowMoves DEF InviteStages
    <2> HIDE DEF r
    <2>3. CodesFit(given, alive, published, r)
      BY <2>2 DEF CodesFit
    <2>4. Debt(alive, published, r) = Owed
      BY <2>1, <2>2 DEF Debt, Spare, Promised
    <2> QED
      BY <1>0, <2>1, <2>2, <2>3, <2>4, CommandMovesOn
  <1>2. CASE Keeping!Invites!Compensate(c)
    <2> DEFINE r == Keeping!Invites!Ended
    <2>1. q.at = "compensating" /\ Active(c) /\ Reaches(r)
          /\ alive' = alive \ {q.mine} /\ UNCHANGED <<given, published, troubles>>
      BY <1>2, <1>0 DEF Keeping!Invites!Compensate, Keeping!Invites!Moves, Keeping!Invites!Ends,
         Keeping!Invites!Trouble, Active
    <2>2. r \in InviteRows /\ r.at = "ended"
      BY InviteFacts
    <2> HIDE DEF r
    <2>3. CodesFit(given', alive', published', r)
      BY <1>0, <2>1, <2>2 DEF CodesFit
    <2>4. Debt(alive', published', r) \subseteq Owed
      BY <1>0, <2>1, <2>2 DEF CodesFit, Debt, Spare, Promised
    <2> QED
      BY <1>0, <2>1, <2>2, <2>3, <2>4, CommandMovesOn
  <1>3. CASE Keeping!Invites!DeleteOld(c)
    <2> DEFINE r == Keeping!Invites!Ended
    <2>1. q.at = "deleting old" /\ Active(c) /\ Reaches(r)
          /\ alive' = alive \ {q.old} /\ UNCHANGED <<given, published, troubles>>
      BY <1>3, <1>0 DEF Keeping!Invites!DeleteOld, Keeping!Invites!Moves, Keeping!Invites!Ends,
         Keeping!Invites!Trouble, Active
    <2>2. r \in InviteRows /\ r.at = "ended"
      BY InviteFacts
    <2> HIDE DEF r
    <2>3. CodesFit(given', alive', published', r)
      BY <1>0, <2>1, <2>2 DEF CodesFit
    <2>4. Debt(alive', published', r) \subseteq Owed
      <3>1. /\ Spare(r) = {} /\ Promised(r) = {}
            /\ Spare(q) = {q.old} /\ Promised(q) = {}
        BY <2>1, <2>2 DEF Spare, Promised
      <3>2. q.old # published
        BY <1>0, <2>1 DEF CodesFit
      <3> QED
        BY <1>0, <2>1, <3>1, <3>2 DEF Debt
    <2> QED
      BY <1>0, <2>1, <2>2, <2>3, <2>4, CommandMovesOn
  <1>4. CASE Keeping!Invites!Delete(c)
    <2> DEFINE r == [q EXCEPT !.at = "deleted"]
    <2>1. q.at = "deleting" /\ Active(c) /\ Reaches(r)
          /\ alive' = alive \ {q.old} /\ UNCHANGED <<given, published, troubles>>
      BY <1>4, <1>0 DEF Keeping!Invites!Delete, Keeping!Invites!Moves, Keeping!Invites!Ends,
         Keeping!Invites!Trouble, Active
    <2>2. r \in InviteRows /\ r.at = "deleted" /\ r.mine = q.mine /\ r.old = q.old
      BY <1>0, RowMoves DEF InviteStages
    <2> HIDE DEF r
    <2>3. CodesFit(given', alive', published', r)
      BY <1>0, <2>1, <2>2 DEF CodesFit
    <2>4. Debt(alive', published', r) \subseteq Owed
      BY <1>0, <2>1, <2>2 DEF CodesFit, Debt, Spare, Promised
    <2> QED
      BY <1>0, <2>1, <2>2, <2>3, <2>4, CommandMovesOn
  <1>5. CASE Keeping!Invites!RemovePublication(c)
    <2> DEFINE r == Keeping!Invites!Ended
    <2>1. q.at = "deleted" /\ Active(c) /\ Reaches(r)
          /\ published' = NoCode /\ UNCHANGED <<given, alive, troubles>>
      BY <1>5, <1>0 DEF Keeping!Invites!RemovePublication, Keeping!Invites!Moves,
         Keeping!Invites!Ends,
         Keeping!Invites!Trouble, Active
    <2>2. r \in InviteRows /\ r.at = "ended"
      BY InviteFacts
    <2> HIDE DEF r
    <2>3. CodesFit(given', alive', published', r)
      BY <1>0, <2>1, <2>2 DEF CodesFit
    <2>4. Debt(alive', published', r) \subseteq Owed
      BY <1>0, <2>1, <2>2 DEF CodesFit, Debt, Spare, Promised
    <2> QED
      BY <1>0, <2>1, <2>2, <2>3, <2>4, CommandMovesOn
  <1>6. CASE Keeping!Invites!ReplaceFails(c)
    <2> DEFINE r == [q EXCEPT !.at = "compensating"]
    <2>1. q.at = "created" /\ Active(c) /\ Reaches(r)
          /\ troubles' = troubles + 1 /\ UNCHANGED <<given, alive, published>>
      BY <1>6, <1>0 DEF Keeping!Invites!ReplaceFails, Keeping!Invites!Moves,
         Keeping!Invites!Ends,
         Keeping!Invites!Trouble, Active
    <2>2. r \in InviteRows /\ r.at = "compensating" /\ r.mine = q.mine /\ r.old = q.old
      BY <1>0, RowMoves DEF InviteStages
    <2> HIDE DEF r
    <2>3. CodesFit(given', alive', published', r)
      BY <1>0, <2>1, <2>2 DEF CodesFit
    <2>4. \E x : Debt(alive', published', r) \subseteq Owed \cup {x}
      BY <1>0, <2>1, <2>2 DEF CodesFit, Debt, Spare, Promised
    <2> QED
      BY <1>0, <2>1, <2>2, <2>3, <2>4, CommandFails
  <1>7. CASE Keeping!Invites!FetchOld(c)
    <2>1. CASE q.old \in alive
      <3> DEFINE r == [q EXCEPT !.at = "deleting old"]
      <3>1. q.at = "fetching old" /\ Active(c) /\ Reaches(r)
            /\ UNCHANGED <<given, alive, published, troubles>>
        BY <1>7, <2>1, <1>0 DEF Keeping!Invites!FetchOld, Keeping!Invites!Moves,
           Keeping!Invites!Ends,
         Keeping!Invites!Trouble, Active
      <3>2. r \in InviteRows /\ r.at = "deleting old" /\ r.mine = q.mine /\ r.old = q.old
        BY <1>0, RowMoves DEF InviteStages
      <3> HIDE DEF r
      <3>3. CodesFit(given', alive', published', r)
        BY <1>0, <2>1, <3>1, <3>2 DEF CodesFit
      <3>4. Debt(alive', published', r) \subseteq Owed
        BY <1>0, <2>1, <3>1, <3>2 DEF CodesFit, Debt, Spare, Promised
      <3> QED
        BY <1>0, <3>1, <3>2, <3>3, <3>4, CommandMovesOn
    <2>2. CASE q.old \notin alive
      <3> DEFINE r == Keeping!Invites!Ended
      <3>1. q.at = "fetching old" /\ Active(c) /\ Reaches(r)
            /\ UNCHANGED <<given, alive, published, troubles>>
        BY <1>7, <2>2, <1>0 DEF Keeping!Invites!FetchOld, Keeping!Invites!Moves,
           Keeping!Invites!Ends,
         Keeping!Invites!Trouble, Active
      <3>2. r \in InviteRows /\ r.at = "ended"
        BY InviteFacts
      <3> HIDE DEF r
      <3>3. CodesFit(given', alive', published', r)
        BY <1>0, <2>2, <3>1, <3>2 DEF CodesFit
      <3>4. Debt(alive', published', r) \subseteq Owed
        BY <1>0, <2>2, <3>1, <3>2 DEF CodesFit, Debt, Spare, Promised
      <3> QED
        BY <1>0, <3>1, <3>2, <3>3, <3>4, CommandMovesOn
    <2> QED
      BY <2>1, <2>2
  <1>8. CASE Keeping!Invites!Fetch(c)
    <2>1. CASE q.old \in alive
      <3> DEFINE r == [q EXCEPT !.at = "deleting"]
      <3>1. q.at = "fetching" /\ Active(c) /\ Reaches(r)
            /\ UNCHANGED <<given, alive, published, troubles>>
        BY <1>8, <2>1, <1>0 DEF Keeping!Invites!Fetch, Keeping!Invites!Moves,
           Keeping!Invites!Ends,
         Keeping!Invites!Trouble, Active
      <3>2. r \in InviteRows /\ r.at = "deleting" /\ r.mine = q.mine /\ r.old = q.old
        BY <1>0, RowMoves DEF InviteStages
      <3> HIDE DEF r
      <3>3. CodesFit(given', alive', published', r)
        BY <1>0, <2>1, <3>1, <3>2 DEF CodesFit
      <3>4. Debt(alive', published', r) \subseteq Owed
        BY <1>0, <2>1, <3>1, <3>2 DEF CodesFit, Debt, Spare, Promised
      <3> QED
        BY <1>0, <3>1, <3>2, <3>3, <3>4, CommandMovesOn
    <2>2. CASE q.old \notin alive
      <3> DEFINE r == [q EXCEPT !.at = "deleted"]
      <3>1. q.at = "fetching" /\ Active(c) /\ Reaches(r)
            /\ UNCHANGED <<given, alive, published, troubles>>
        BY <1>8, <2>2, <1>0 DEF Keeping!Invites!Fetch, Keeping!Invites!Moves,
           Keeping!Invites!Ends,
         Keeping!Invites!Trouble, Active
      <3>2. r \in InviteRows /\ r.at = "deleted" /\ r.mine = q.mine /\ r.old = q.old
        BY <1>0, RowMoves DEF InviteStages
      <3> HIDE DEF r
      <3>3. CodesFit(given', alive', published', r)
        BY <1>0, <2>2, <3>1, <3>2 DEF CodesFit
      <3>4. Debt(alive', published', r) \subseteq Owed
        BY <1>0, <2>2, <3>1, <3>2 DEF CodesFit, Debt, Spare, Promised
      <3> QED
        BY <1>0, <3>1, <3>2, <3>3, <3>4, CommandMovesOn
    <2> QED
      BY <2>1, <2>2
  <1>9. CASE Keeping!Invites!ReplacePublication(c)
    <2>0. published' \in given' \cup {NoCode}
      BY <1>9, <1>0 DEF Keeping!Invites!ReplacePublication, CodesFit
    <2>1. CASE published = NoCode
      <3> DEFINE r == Keeping!Invites!Ended
      <3>1. q.at = "created" /\ Active(c) /\ Reaches(r)
            /\ published' = q.mine /\ UNCHANGED <<given, alive, troubles>>
        BY <1>9, <2>1, <1>0 DEF Keeping!Invites!ReplacePublication, Keeping!Invites!Moves,
           Keeping!Invites!Ends,
         Keeping!Invites!Trouble, Active
      <3>2. r \in InviteRows /\ r.at = "ended"
        BY InviteFacts
      <3> HIDE DEF r
      <3>3. CodesFit(given', alive', published', r)
        BY <1>0, <2>1, <3>1, <3>2 DEF CodesFit
      <3>4. Debt(alive', published', r) \subseteq Owed
        BY <1>0, <2>1, <3>1, <3>2 DEF CodesFit, Debt, Spare, Promised
      <3> QED
        BY <1>0, <3>1, <3>2, <3>3, <3>4, <2>0, CommandMovesOn
    <2>2. CASE published # NoCode
      <3> DEFINE r == [q EXCEPT !.at = "fetching old", !.old = published]
      <3>1. q.at = "created" /\ Active(c) /\ Reaches(r)
            /\ published' = q.mine /\ UNCHANGED <<given, alive, troubles>>
        BY <1>9, <2>2, <1>0 DEF Keeping!Invites!ReplacePublication, Keeping!Invites!Moves,
           Keeping!Invites!Ends,
         Keeping!Invites!Trouble, Active
      <3>2. r \in InviteRows /\ r.at = "fetching old" /\ r.old = published
        <4>1. published \in Codes /\ "fetching old" \in InviteStages /\ q \in InviteRows
          BY <1>0, <2>2 DEF InviteStages
        <4> QED
          BY <4>1 DEF InviteRows
      <3> HIDE DEF r
      <3>3. CodesFit(given', alive', published', r)
        BY <1>0, <2>2, <3>1, <3>2 DEF CodesFit
      <3>4. Debt(alive', published', r) \subseteq Owed
        BY <1>0, <2>2, <3>1, <3>2 DEF CodesFit, Debt, Spare, Promised
      <3> QED
        BY <1>0, <3>1, <3>2, <3>3, <3>4, <2>0, CommandMovesOn
    <2> QED
      BY <2>1, <2>2
  <1>10. CASE Keeping!Invites!StartRemove(c)
    <2>1. CASE published = NoCode
      <3> DEFINE r == Keeping!Invites!Ended
      <3>1. q.at = "new" /\ Keeping!Invites!Quiet /\ Reaches(r)
            /\ UNCHANGED <<given, alive, published, troubles>>
        BY <1>10, <2>1, <1>0 DEF Keeping!Invites!StartRemove, Keeping!Invites!Moves,
           Keeping!Invites!Ends,
         Keeping!Invites!Trouble, Active, Keeping!Invites!LockFree
      <3>2. r \in InviteRows /\ r.at = "ended"
        BY InviteFacts
      <3> HIDE DEF r
      <3>3. CodesFit(given', alive', published', r)
        BY <1>0, <2>1, <3>1, <3>2 DEF CodesFit
      <3>4. Debt(alive', published', r) \subseteq Owed
        BY <1>0, <2>1, <3>1, <3>2 DEF CodesFit, Debt, Spare, Promised
      <3> QED
        BY <1>0, <3>1, <3>2, <3>3, <3>4, CommandMovesOn
    <2>2. CASE published # NoCode
      <3> DEFINE r == [q EXCEPT !.at = "fetching", !.old = published]
      <3>1. q.at = "new" /\ Keeping!Invites!Quiet /\ Reaches(r)
            /\ UNCHANGED <<given, alive, published, troubles>>
        BY <1>10, <2>2, <1>0 DEF Keeping!Invites!StartRemove, Keeping!Invites!Moves,
           Keeping!Invites!Ends,
         Keeping!Invites!Trouble, Active, Keeping!Invites!LockFree
      <3>2. r \in InviteRows /\ r.at = "fetching" /\ r.old = published
        <4>1. published \in Codes /\ "fetching" \in InviteStages /\ q \in InviteRows
          BY <1>0, <2>2 DEF InviteStages
        <4> QED
          BY <4>1 DEF InviteRows
      <3> HIDE DEF r
      <3>3. CodesFit(given', alive', published', r)
        BY <1>0, <2>2, <3>1, <3>2 DEF CodesFit
      <3>4. Debt(alive', published', r) \subseteq Owed
        BY <1>0, <2>2, <3>1, <3>2 DEF CodesFit, Debt, Spare, Promised
      <3> QED
        BY <1>0, <3>1, <3>2, <3>3, <3>4, CommandMovesOn
    <2> QED
      BY <2>1, <2>2
  <1>11. ASSUME NEW code \in Codes, Keeping!Invites!CreateInvite(c, code) PROVE InvitesInv'
    <2> DEFINE r == [q EXCEPT !.at = "created", !.mine = code]
    <2>1. /\ q.at = "creating" /\ Active(c) /\ Reaches(r) /\ code \notin given
          /\ given' = given \cup {code} /\ alive' = alive \cup {code}
          /\ UNCHANGED <<published, troubles>>
      BY <1>11, <1>0 DEF Keeping!Invites!CreateInvite, Active
    <2>2. r \in InviteRows /\ r.at = "created" /\ r.mine = code
      <3>1. code \in Codes /\ "created" \in InviteStages /\ q \in InviteRows
        BY <1>0, <1>11 DEF InviteStages
      <3> QED
        BY <3>1 DEF InviteRows
    <2> HIDE DEF r
    <2>3. CodesFit(given', alive', published', r)
      BY <1>0, <2>1, <2>2 DEF CodesFit
    <2>4. Debt(alive', published', r) \subseteq Owed
      BY <1>0, <2>1, <2>2 DEF Debt, Spare, Promised
    <2> QED
      BY <1>0, <2>1, <2>2, <2>3, <2>4, CommandMovesOn
  <1>12. CASE Keeping!Invites!CreateFails(c)
    <2> DEFINE r == Keeping!Invites!Ended
    <2>1. q.at = "creating" /\ Active(c) /\ Reaches(r)
          /\ troubles' = troubles + 1 /\ UNCHANGED published
      BY <1>12, <1>0 DEF Keeping!Invites!CreateFails, Keeping!Invites!Moves,
         Keeping!Invites!Ends,
         Keeping!Invites!Trouble, Active
    <2>2. r \in InviteRows /\ r.at = "ended"
      BY InviteFacts
    <2> HIDE DEF r
    <2>3. PICK x : /\ given' \subseteq Codes /\ given' \subseteq given \cup {x}
                   /\ given \subseteq given' /\ alive' \subseteq given'
                   /\ alive \subseteq alive' /\ alive' \subseteq alive \cup {x}
      <3>1. CASE UNCHANGED <<given, alive>>
        BY <1>0, <3>1
      <3>2. ASSUME NEW code \in Codes \ given,
                   given' = given \cup {code}, alive' = alive \cup {code}
            PROVE  /\ given' \subseteq Codes /\ given' \subseteq given \cup {code}
                   /\ given \subseteq given' /\ alive' \subseteq given'
                   /\ alive \subseteq alive' /\ alive' \subseteq alive \cup {code}
        BY <1>0, <3>2
      <3> QED
        BY <1>12, <3>1, <3>2 DEF Keeping!Invites!CreateFails
    <2>4. CodesFit(given', alive', published', r)
      BY <2>2 DEF CodesFit
    <2>5. \E y : Debt(alive', published', r) \subseteq Owed \cup {y}
      BY <1>0, <2>1, <2>2, <2>3 DEF Debt, Spare, Promised
    <2> QED
      BY <1>0, <2>1, <2>2, <2>3, <2>4, <2>5, CommandFails
  <1>13. CASE Keeping!Invites!GivesUp(c)
    <2> DEFINE r == Keeping!Invites!Ended
    <2>1. /\ q.at \in {"compensating", "fetching old", "deleting old", "fetching", "deleting",
                      "deleted"}
          /\ Active(c) /\ Reaches(r)
          /\ troubles' = troubles + 1 /\ UNCHANGED <<given, published>>
      BY <1>13, <1>0 DEF Keeping!Invites!GivesUp, Keeping!Invites!Moves, Keeping!Invites!Ends,
         Keeping!Invites!Trouble, Active
    <2>2. r \in InviteRows /\ r.at = "ended"
      BY InviteFacts
    <2> HIDE DEF r
    <2>3. CodesFit(given', alive', published', r)
      BY <2>2 DEF CodesFit
    <2>4. \E x : Debt(alive', published', r) \subseteq Owed \cup {x}
      <3>1. CASE q.at = "compensating"
        <4>1. alive' = alive \/ alive' = alive \ {q.mine}
          BY <1>13, <3>1 DEF Keeping!Invites!GivesUp
        <4> QED
          BY <1>0, <2>1, <2>2, <3>1, <4>1 DEF CodesFit, Debt, Spare, Promised
      <3>2. CASE q.at # "compensating"
        <4>1. \/ alive' = alive
              \/ alive' = alive \ {q.old} /\ q.at \in {"deleting old", "deleting"}
          BY <1>13, <3>2 DEF Keeping!Invites!GivesUp
        <4>2. Debt(alive', published', r) \subseteq Owed \cup {q.old}
          BY <1>0, <2>1, <2>2, <3>2, <4>1 DEF CodesFit, Debt, Spare, Promised
        <4> QED
          BY <4>2
      <3> QED
        BY <3>1, <3>2
    <2>5. alive' \subseteq given'
      BY <1>13, <1>0 DEF Keeping!Invites!GivesUp
    <2> QED
      BY <1>0, <2>1, <2>2, <2>3, <2>4, <2>5, CommandFails
  <1> QED
    BY <1>1, <1>2, <1>3, <1>4, <1>5, <1>6, <1>7, <1>8, <1>9, <1>10, <1>11, <1>12, <1>13
        DEF InviteStep

LEMMA ModerateStep ==
    ASSUME InvitesInv, NEW code \in Codes, Keeping!Invites!Moderate(code)
    PROVE  InvitesInv'
  <1>1. /\ alive' = alive \ {code} /\ troubles' = troubles + 1
        /\ UNCHANGED <<given, published, command>> /\ troubles \in Nat
    BY DEF Keeping!Invites!Moderate, Keeping!Invites!Trouble, InvitesInv
  <1>2. \A r : Debt(alive', published', r) \subseteq Debt(alive, published, r) \cup {code}
    BY <1>1 DEF Debt
  <1>3. \A r : CodesFit(given, alive, published, r) => CodesFit(given', alive', published', r)
    BY <1>1 DEF CodesFit
  <1>4. \A r : Few(Debt(alive, published, r), troubles)
                   => Few(Debt(alive', published', r), troubles')
    <2> SUFFICES ASSUME NEW r, Few(Debt(alive, published, r), troubles)
                 PROVE  Few(Debt(alive', published', r), troubles')
      OBVIOUS
    <2> QED
      BY <1>1, <1>2, FewMore
  <1>5. Keeping!Invites!Quiet' <=> Keeping!Invites!Quiet
    BY <1>1 DEF Keeping!Invites!Quiet
  <1>6. \A c : Active(c)' <=> Active(c)
    BY <1>1 DEF Active
  <1>7. Keeping!Invites!New' = Keeping!Invites!New
    BY DEF Keeping!Invites!New
  <1>8. troubles' \in Nat /\ alive' \subseteq given'
    BY <1>1 DEF InvitesInv
  <1> QED
    BY <1>1, <1>3, <1>4, <1>5, <1>6, <1>7, <1>8 DEF InvitesInv

(* The command under way is gone, and the invite it had in hand stays.     *)
LEMMA RestartStep ==
    ASSUME InvitesInv, Keeping!Invites!Restart
    PROVE  InvitesInv'
  <1>1. /\ UNCHANGED <<given, alive, published>> /\ troubles' = troubles + 1 /\ troubles \in Nat
        /\ command' = [c \in InviteCommands |-> IF command[c].at = "new"
                          THEN Keeping!Invites!New ELSE Keeping!Invites!Ended]
    BY DEF Keeping!Invites!Restart, Keeping!Invites!Trouble, InvitesInv
  <1>2. PICK c \in InviteCommands : Active(c)
    BY DEF Keeping!Invites!Restart, Keeping!Invites!Quiet, Active
  <1>3. PICK x : Spare(command[c]) \subseteq {x}
    BY DEF Spare
  <1>4. Debt(alive, published, Keeping!Invites!New) \subseteq
            Debt(alive, published, command[c]) \cup {x}
    BY <1>3, InviteFacts DEF Debt, Spare, Promised
  <1>5. Few(Debt(alive, published, command[c]), troubles)
    BY <1>2 DEF InvitesInv
  <1>6. Few(Debt(alive', published', Keeping!Invites!New), troubles')
    BY <1>1, <1>4, <1>5, FewMore
  <1>7. ASSUME NEW d \in InviteCommands
        PROVE  /\ command'[d] \in InviteRows /\ command'[d].at \in {"new", "ended"}
               /\ CodesFit(given', alive', published', command'[d])
    <2>1. command'[d] \in InviteRows /\ command'[d].at \in {"new", "ended"}
      BY <1>1, InviteFacts
    <2> QED
      BY <2>1 DEF CodesFit
  <1>8. command' \in [InviteCommands -> InviteRows]
    BY <1>1, <1>7
  <1>9. \A d \in InviteCommands : ~Active(d)'
    BY <1>7 DEF Active
  <1>10. Keeping!Invites!New' = Keeping!Invites!New /\ troubles' \in Nat
    BY <1>1 DEF Keeping!Invites!New
  <1> QED
    BY <1>1, <1>6, <1>7, <1>8, <1>9, <1>10 DEF InvitesInv

LEMMA InvitesStep ==
    ASSUME InvitesInv, [Keeping!Invites!Next]_inviteVars
    PROVE  InvitesInv'
  <1>1. ASSUME NEW c \in InviteCommands, InviteStep(c) PROVE InvitesInv'
    BY <1>1, InviteCommandStep
  <1>2. ASSUME NEW code \in Codes, Keeping!Invites!Moderate(code) PROVE InvitesInv'
    BY <1>2, ModerateStep
  <1>3. CASE Keeping!Invites!Restart
    BY <1>3, RestartStep
  <1>4. CASE UNCHANGED inviteVars
    BY <1>4 DEF inviteVars, InvitesInv, Active, Keeping!Invites!Quiet, Keeping!Invites!New
  <1> QED
    BY <1>1, <1>2, <1>3, <1>4 DEF Keeping!Invites!Next, InviteStep

LEMMA InvitesPaid == InvitesInv => InvitesAccountedFor
  <1> SUFFICES ASSUME InvitesInv, Keeping!Invites!Quiet PROVE InvitesAccountedFor
    BY DEF InvitesAccountedFor, Keeping!Invites!InvitesAccountedFor
  <1> DEFINE left == (alive \ {published}) \cup ({published} \ (alive \cup {NoCode}))
  <1>1. Debt(alive, published, Keeping!Invites!New) = left
    BY InviteFacts DEF Debt, Spare, Promised
  <1>2. Cardinality(left) <= troubles
    BY <1>1 DEF InvitesInv, Few
  <1>3. Keeping!Invites!Cardinality(left) = Cardinality(left)
    BY DEF Keeping!Invites!Cardinality, Cardinality
  <1> QED
    BY <1>2, <1>3 DEF InvitesAccountedFor, Keeping!Invites!InvitesAccountedFor

-----------------------------------------------------------------------------
(* Migrations *)

Positions ==
    {[table |-> 0, next |-> "start"], [table |-> 2, next |-> "backfill"],
     [table |-> 6, next |-> "end"], [table |-> 6, next |-> "up"]}
        \cup [table : 1..6, next : Keeping!Upgrade!Statements]

(* The table whose rows are in its renamed copy alone.                     *)
InProgress ==
    IF at.next \in {"create", "copy"} THEN {Keeping!Upgrade!Table} ELSE {}

(* The first rebuild has not begun.                                        *)
Fresh == at.next = "start" \/ (at.table = 1 /\ at.next = "rename")

(* From the first UPDATE to the commit there is a transaction, so that the *)
(* disk has every late table whatever dies.  And a start that nothing      *)
(* interrupted has turned foreign keys off, with objects, when it comes to *)
(* sources.                                                                *)
UpgradeInv ==
    /\ db \in Keeping!Upgrade!Databases /\ saved \in Keeping!Upgrade!Databases
    /\ transaction \in BOOLEAN /\ foreignKeys \in BOOLEAN
    /\ at \in Positions /\ failures \in Nat
    /\ ~transaction => db = saved
    /\ at.table > 2 /\ at.next # "up" => transaction
    /\ Fresh => ~transaction
    /\ Keeping!Upgrade!LateTables \subseteq saved.filled
    /\ Keeping!Upgrade!LateTables \subseteq db.filled \cup InProgress
    /\ failures = 0 =>
          /\ Keeping!Upgrade!Tables \subseteq db.filled \cup InProgress
          /\ db.children = Keeping!Upgrade!Parents /\ db.torn = {}
          /\ db.shape["sources"] = "old" =>
                IF Fresh THEN db.shape["objects"] = "old" ELSE ~foreignKeys

LEMMA JoinedLength ==
    ASSUME NEW S, NEW s \in Seq(S), NEW t \in Seq(S)
    PROVE  s \o t \in Seq(S) /\ Len(s \o t) = Len(s) + Len(t)
  OBVIOUS

LEMMA JoinedFirst ==
    ASSUME NEW S, NEW s \in Seq(S), NEW t \in Seq(S), NEW i \in 1..Len(s)
    PROVE  (s \o t)[i] = s[i]
  OBVIOUS

LEMMA JoinedLast ==
    ASSUME NEW S, NEW s \in Seq(S), NEW t \in Seq(S), NEW i \in 1..Len(t)
    PROVE  (s \o t)[i + Len(s)] = t[i]
  OBVIOUS

LEMMA Joined ==
    ASSUME NEW S, NEW s \in Seq(S), NEW t \in Seq(S), NEW u \in Seq(S),
           Len(u) = Len(s) + Len(t),
           \A i \in 1..Len(s) : u[i] = s[i],
           \A i \in 1..Len(t) : u[i + Len(s)] = t[i]
    PROVE  s \o t = u
  <1>1. s \o t \in Seq(S) /\ Len(s \o t) = Len(s) + Len(t)
    BY JoinedLength
  <1>2. ASSUME NEW i \in 1..Len(s \o t) PROVE (s \o t)[i] = u[i]
    <2>1. i \in 1..Len(s) + Len(t) /\ Len(s) \in Nat /\ Len(t) \in Nat
      BY <1>1
    <2>2. CASE i <= Len(s)
      <3>1. i \in 1..Len(s)
        BY <2>1, <2>2
      <3> QED
        BY <3>1, JoinedFirst
    <2>3. CASE ~(i <= Len(s))
      <3>1. PICK j \in 1..Len(t) : i = j + Len(s)
        <4>1. i - Len(s) \in 1..Len(t) /\ i = (i - Len(s)) + Len(s)
          BY <2>1, <2>3
        <4> QED
          BY <4>1
      <3>2. (s \o t)[j + Len(s)] = t[j]
        BY JoinedLast
      <3> QED
        BY <3>1, <3>2
    <2> QED
      BY <2>2, <2>3
  <1>3. Len(s \o t) = Len(u)
    BY <1>1
  <1> QED
    BY <1>1, <1>2, <1>3

LEMMA OrderFacts ==
    /\ Keeping!Upgrade!Len(Keeping!Upgrade!Order) = 6
    /\ Keeping!Upgrade!Len(Keeping!Upgrade!Early) = 2
    /\ Keeping!Upgrade!Order =
          <<"objects", "mappings", "communities", "bans", "fields", "sources">>
    /\ Keeping!Upgrade!Tables =
          {"objects", "mappings", "communities", "bans", "fields", "sources"}
    /\ Keeping!Upgrade!LateTables = {"communities", "bans", "fields", "sources"}
  <1> DEFINE order == <<"objects", "mappings", "communities", "bans", "fields", "sources">>
             early == <<"objects", "mappings">>
             late == <<"communities", "bans", "fields", "sources">>
             S == {"objects", "mappings", "communities", "bans", "fields", "sources"}
  <1>1. Keeping!Upgrade!Order = order
    <2>1. early \in Seq(S)
      OBVIOUS
    <2>2. late \in Seq(S)
      OBVIOUS
    <2>3. order \in Seq(S)
      OBVIOUS
    <2>4. Len(order) = Len(early) + Len(late)
      OBVIOUS
    <2>5. \A i \in 1..Len(early) : order[i] = early[i]
      OBVIOUS
    <2>6. \A i \in 1..Len(late) : order[i + Len(early)] = late[i]
      OBVIOUS
    <2> HIDE DEF order, early, late
    <2>7. early \o late = order
      BY <2>1, <2>2, <2>3, <2>4, <2>5, <2>6, Joined
    <2> QED
      BY <2>7 DEF Keeping!Upgrade!Order, Keeping!Upgrade!Early, Keeping!Upgrade!Late,
                  order, early, late
  <1> QED
    BY <1>1 DEF Keeping!Upgrade!Tables, Keeping!Upgrade!LateTables, Keeping!Upgrade!Early,
                Keeping!Upgrade!Late

LEMMA PositionFacts ==
    ASSUME at \in Positions
    PROVE  /\ at.table \in 0..6
           /\ at.next \in Keeping!Upgrade!Statements =>
                 /\ at.table \in 1..6 /\ Keeping!Upgrade!Table \in Keeping!Upgrade!Tables
                 /\ Keeping!Upgrade!Table = "objects" <=> at.table = 1
                 /\ Keeping!Upgrade!Table = "sources" <=> at.table = 6
                 /\ Keeping!Upgrade!Table \in {"bans", "fields"} => at.table > 2
                 /\ Keeping!Upgrade!Table \in Keeping!Upgrade!LateTables <=> at.table > 2
                 /\ \A s \in Keeping!Upgrade!Statements : [at EXCEPT !.next = s] \in Positions
           /\ at.next = "start" => at.table = 0
           /\ at.next = "backfill" => at.table = 2
           /\ at.next \in {"end", "up"} => at.table = 6
  <1>1. CASE at \in [table : 1..6, next : Keeping!Upgrade!Statements]
    <2>1. at.table \in 1..6 /\ at.next \in {"rename", "create", "copy", "drop"}
      BY <1>1 DEF Keeping!Upgrade!Statements
    <2>2. Keeping!Upgrade!Table =
              <<"objects", "mappings", "communities", "bans", "fields", "sources">>[at.table]
      BY OrderFacts DEF Keeping!Upgrade!Table
    <2>3. \A s \in Keeping!Upgrade!Statements : [at EXCEPT !.next = s] \in Positions
      BY <1>1 DEF Positions
    <2>4. at.table \in {1, 2, 3, 4, 5, 6}
      BY <2>1
    <2> QED
      BY <2>1, <2>2, <2>3, <2>4, OrderFacts
  <1>2. CASE at \notin [table : 1..6, next : Keeping!Upgrade!Statements]
    BY <1>2 DEF Positions, Keeping!Upgrade!Statements
  <1> QED
    BY <1>1, <1>2

(* Where the upgrade goes after a table.                                   *)
LEMMA AfterFacts ==
    ASSUME at \in Positions, at.next \in Keeping!Upgrade!Statements \cup {"start", "backfill"},
           at' = Keeping!Upgrade!After(at.table)
    PROVE  /\ at' \in Positions /\ at'.next \in {"rename", "backfill", "end"}
           /\ at'.table = at.table \/ at'.table = at.table + 1
           /\ at'.table > 2 => at.table > 2 \/ at.next = "backfill"
           /\ at.next = "start" => at'.table = 1 /\ at'.next = "rename"
           /\ at.next # "start" => at'.table # 1 /\ at'.next # "start"
  <1>1. /\ at.table \in 0..6
        /\ at.next \in Keeping!Upgrade!Statements => at.table \in 1..6
        /\ at.next = "start" => at.table = 0
        /\ at.next = "backfill" => at.table = 2
    BY PositionFacts
  <1>2. at.table = 6 => at' = [table |-> 6, next |-> "end"]
    BY OrderFacts DEF Keeping!Upgrade!After
  <1>3. at.table = 2 /\ at.next # "backfill" => at' = [table |-> 2, next |-> "backfill"]
    BY OrderFacts DEF Keeping!Upgrade!After
  <1>4. at.table # 6 /\ (at.table # 2 \/ at.next = "backfill")
           => at' = [table |-> at.table + 1, next |-> "rename"]
    BY OrderFacts DEF Keeping!Upgrade!After
  <1>5. at' \in Positions
    BY <1>1, <1>2, <1>3, <1>4 DEF Positions, Keeping!Upgrade!Statements
  <1>6. CASE at.table = 6
    BY <1>1, <1>2, <1>5, <1>6 DEF Keeping!Upgrade!Statements
  <1>7. CASE at.table = 2 /\ at.next # "backfill"
    BY <1>1, <1>3, <1>5, <1>7 DEF Keeping!Upgrade!Statements
  <1>8. CASE at.table # 6 /\ (at.table # 2 \/ at.next = "backfill")
    <2>1. at'.table = at.table + 1 /\ at'.next = "rename"
      BY <1>4, <1>8
    <2>2. at.next # "start" => at.table >= 1
      BY <1>1
    <2>3. at.table + 1 > 2 => at.table > 2 \/ at.table = 2
      BY <1>1
    <2> QED
      BY <1>1, <1>5, <1>8, <2>1, <2>2, <2>3
  <1> QED
    BY <1>6, <1>7, <1>8

LEMMA UpgradeInit ==
    ASSUME Keeping!Upgrade!Init
    PROVE  UpgradeInv
  <1>1. PICK r \in Releases :
            db = [shape |-> [t \in Keeping!Upgrade!Tables |->
                               IF t \in Keeping!Upgrade!OldIn[r] THEN "old" ELSE "new"],
                  filled |-> Keeping!Upgrade!Tables, aside |-> {}, torn |-> {},
                  children |-> Keeping!Upgrade!Parents]
    BY DEF Keeping!Upgrade!Init
  <1>2. /\ saved = db /\ transaction = FALSE /\ foreignKeys = TRUE /\ failures = 0
        /\ at = [table |-> 0, next |-> "start"]
    BY DEF Keeping!Upgrade!Init
  <1>3. db \in Keeping!Upgrade!Databases
    BY <1>1 DEF Keeping!Upgrade!Databases
  <1>4. db.shape["sources"] = "old" => db.shape["objects"] = "old"
    <2>1. r \in DOMAIN Keeping!Upgrade!OldIn
      BY BridgingAssumption DEF Keeping!Upgrade!MigrationsAssumption
    <2>2. "sources" \in Keeping!Upgrade!OldIn[r] => "objects" \in Keeping!Upgrade!OldIn[r]
      BY <2>1, OrderFacts DEF Keeping!Upgrade!OldIn
    <2> QED
      BY <1>1, <2>2, OrderFacts
  <1>5. at.next = "start" /\ at.table = 0 /\ at \in Positions
    BY <1>2 DEF Positions
  <1>6. /\ Keeping!Upgrade!LateTables \subseteq Keeping!Upgrade!Tables
        /\ db.filled = Keeping!Upgrade!Tables /\ db.torn = {}
        /\ db.children = Keeping!Upgrade!Parents
    BY <1>1, OrderFacts
  <1>7. Fresh /\ InProgress = {}
    BY <1>5 DEF Fresh, InProgress
  <1>8. ~(at.table > 2) /\ failures \in Nat
    BY <1>2, <1>5
  <1>9. saved \in Keeping!Upgrade!Databases
        /\ Keeping!Upgrade!LateTables \subseteq saved.filled
    BY <1>2, <1>3, <1>6
  <1> QED
    BY <1>2, <1>3, <1>4, <1>5, <1>6, <1>7, <1>8, <1>9 DEF UpgradeInv

(* A table is renamed, created anew, filled or dropped: to the others      *)
(* nothing happens.                                                        *)
LEMMA UpgradeStart ==
    ASSUME UpgradeInv, Keeping!Upgrade!Start
    PROVE  UpgradeInv'
  <1> DEFINE d == [db EXCEPT !.shape = [t \in Keeping!Upgrade!Tables |->
                                          IF @[t] = "missing" THEN "new" ELSE @[t]]]
  <1>1. /\ at.next = "start" /\ db' = d /\ saved' = (IF transaction THEN saved ELSE d)
        /\ foreignKeys' = TRUE /\ at' = Keeping!Upgrade!After(at.table)
        /\ UNCHANGED <<transaction, failures>>
    <2>1. at.next = "start" /\ at \in Positions
      BY DEF UpgradeInv, Keeping!Upgrade!Start
    <2>2. at.table = 0
      BY <2>1, PositionFacts
    <2> QED
      BY <2>1, <2>2 DEF Keeping!Upgrade!Start, Keeping!Upgrade!ChangeSchema
  <1>2. /\ d \in Keeping!Upgrade!Databases
        /\ d.filled = db.filled /\ d.children = db.children /\ d.torn = db.torn
        /\ \A t \in Keeping!Upgrade!Tables : d.shape[t] = "old" <=> db.shape[t] = "old"
    BY DEF UpgradeInv, Keeping!Upgrade!Databases
  <1> HIDE DEF d
  <1>3. at' \in Positions /\ at'.table = 1 /\ at'.next = "rename" /\ at.table = 0
    BY <1>1, AfterFacts, PositionFacts DEF UpgradeInv
  <1>4. Fresh /\ InProgress = {} /\ ~transaction
    BY <1>1 DEF UpgradeInv, Fresh, InProgress
  <1>7. Fresh' /\ InProgress' = {}
    BY <1>3 DEF Fresh, InProgress
  <1>5. saved' = db' /\ db = saved
    BY <1>1, <1>4 DEF UpgradeInv
  <1>6. "sources" \in Keeping!Upgrade!Tables /\ "objects" \in Keeping!Upgrade!Tables
    BY OrderFacts
  <1> QED
    BY <1>1, <1>2, <1>3, <1>4, <1>5, <1>6, <1>7 DEF UpgradeInv

LEMMA UpgradeSkip ==
    ASSUME UpgradeInv, Keeping!Upgrade!Skip
    PROVE  UpgradeInv'
  <1>1. /\ at.next = "rename" /\ db.shape[Keeping!Upgrade!Table] = "new"
        /\ at' = Keeping!Upgrade!After(at.table)
        /\ UNCHANGED <<db, saved, transaction, foreignKeys, failures>>
    BY DEF Keeping!Upgrade!Skip, Keeping!Upgrade!Rebuilding
  <1>2. /\ at' \in Positions /\ at'.table \in {at.table, at.table + 1}
        /\ at'.next \in {"rename", "backfill", "end"}
        /\ at'.table > 2 => at.table > 2
        /\ at'.table # 1 /\ at.table \in 1..6
        /\ Keeping!Upgrade!Table = "objects" <=> at.table = 1
    BY <1>1, AfterFacts, PositionFacts DEF UpgradeInv, Keeping!Upgrade!Statements
  <1>3. InProgress = {} /\ InProgress' = {} /\ ~Fresh'
    BY <1>1, <1>2 DEF InProgress, Fresh
  <1>4. Fresh => db.shape["objects"] # "old"
    BY <1>1, <1>2 DEF Fresh
  <1> QED
    BY <1>1, <1>2, <1>3, <1>4 DEF UpgradeInv

LEMMA UpgradeBackfill ==
    ASSUME UpgradeInv, Keeping!Upgrade!Backfill
    PROVE  UpgradeInv'
  <1>1. /\ at.next = "backfill" /\ transaction' = TRUE /\ at' = Keeping!Upgrade!After(at.table)
        /\ UNCHANGED <<db, saved, foreignKeys, failures>>
    BY DEF Keeping!Upgrade!Backfill
  <1>2. /\ at' \in Positions /\ at'.next \in {"rename", "backfill", "end"} /\ at'.table # 1
    BY <1>1, AfterFacts DEF UpgradeInv
  <1>3. InProgress = {} /\ InProgress' = {} /\ ~Fresh /\ ~Fresh'
    BY <1>1, <1>2 DEF InProgress, Fresh
  <1> QED
    BY <1>1, <1>2, <1>3 DEF UpgradeInv

LEMMA UpgradeCommit ==
    ASSUME UpgradeInv, Keeping!Upgrade!Commit
    PROVE  UpgradeInv'
  <1>1. /\ at.next = "end" /\ saved' = db /\ transaction' = FALSE
        /\ at' = [at EXCEPT !.next = "up"]
        /\ UNCHANGED <<db, foreignKeys, failures>>
    BY DEF Keeping!Upgrade!Commit
  <1>2. at' \in Positions /\ at'.next = "up"
    BY <1>1 DEF UpgradeInv, Positions, Keeping!Upgrade!Statements
  <1>3. InProgress = {} /\ InProgress' = {} /\ ~Fresh
    BY <1>1, <1>2 DEF InProgress, Fresh
  <1>4. ~Fresh'
    BY <1>1, <1>2 DEF Fresh
  <1> QED
    BY <1>1, <1>2, <1>3, <1>4 DEF UpgradeInv

LEMMA UpgradeFail ==
    ASSUME UpgradeInv, Keeping!Upgrade!Fail
    PROVE  UpgradeInv'
  <1>1. /\ failures' = failures + 1 /\ db' = saved /\ transaction' = FALSE
        /\ at' = [table |-> 0, next |-> "start"]
        /\ UNCHANGED <<saved, foreignKeys>>
    BY DEF Keeping!Upgrade!Fail
  <1>2. at' \in Positions /\ at'.next = "start" /\ at'.table = 0
    BY <1>1 DEF Positions
  <1>3. failures' \in Nat /\ failures' # 0
    BY <1>1 DEF UpgradeInv
  <1>4. /\ db' \in Keeping!Upgrade!Databases /\ saved' \in Keeping!Upgrade!Databases
        /\ foreignKeys' \in BOOLEAN
        /\ Keeping!Upgrade!LateTables \subseteq saved'.filled
        /\ Keeping!Upgrade!LateTables \subseteq db'.filled
    BY <1>1 DEF UpgradeInv
  <1>5. ~(at'.table > 2)
    BY <1>2
  <1> QED
    BY <1>1, <1>2, <1>3, <1>4, <1>5 DEF UpgradeInv

LEMMA UpgradeRename ==
    ASSUME UpgradeInv, Keeping!Upgrade!Rename
    PROVE  UpgradeInv'
  <1> DEFINE T == Keeping!Upgrade!Table
             d == [db EXCEPT !.shape[T] = "missing", !.filled = @ \ {T}, !.aside = @ \cup {T},
                             !.torn = IF foreignKeys'
                                      THEN @ \cup ({T} \cap Keeping!Upgrade!Parents) ELSE @]
  <1>1. /\ at.next = "rename" /\ db.shape[T] = "old"
        /\ foreignKeys' = (foreignKeys /\ (transaction \/ T \in {"bans", "fields"}))
        /\ db' = d /\ saved' = (IF transaction THEN saved ELSE d)
        /\ at' = [at EXCEPT !.next = "create"]
        /\ UNCHANGED <<transaction, failures>>
    BY DEF Keeping!Upgrade!Rename, Keeping!Upgrade!Rebuilding, Keeping!Upgrade!ChangeSchema,
           Keeping!Upgrade!EnforcedDuringRebuild
  <1>2. /\ at.table \in 1..6 /\ T \in Keeping!Upgrade!Tables
        /\ T = "objects" <=> at.table = 1
        /\ T = "sources" <=> at.table = 6
        /\ T \in {"bans", "fields"} => at.table > 2
        /\ T \in Keeping!Upgrade!LateTables <=> at.table > 2
        /\ at' \in Positions
    BY <1>1, PositionFacts DEF UpgradeInv, Keeping!Upgrade!Statements
  <1>3. /\ d \in Keeping!Upgrade!Databases
        /\ d.filled = db.filled \ {T} /\ d.children = db.children
        /\ \A t \in Keeping!Upgrade!Tables : d.shape[t] = "old" => db.shape[t] = "old"
        /\ d.torn = IF foreignKeys' THEN db.torn \cup ({T} \cap Keeping!Upgrade!Parents)
                    ELSE db.torn
    <2>1. db \in Keeping!Upgrade!Databases
      BY DEF UpgradeInv
    <2>2. Keeping!Upgrade!Parents \subseteq Keeping!Upgrade!Tables
      BY OrderFacts DEF Keeping!Upgrade!Parents
    <2> QED
      BY <1>2, <2>1, <2>2 DEF Keeping!Upgrade!Databases
  <1>4. /\ at'.next = "create" /\ at'.table = at.table
        /\ Keeping!Upgrade!Table' = T
    BY <1>1 DEF UpgradeInv, Positions, Keeping!Upgrade!Table, Keeping!Upgrade!Statements,
                Keeping!Upgrade!Order, Keeping!Upgrade!Early, Keeping!Upgrade!Late
  <1>5. InProgress = {} /\ InProgress' = {T} /\ ~Fresh'
    BY <1>1, <1>4 DEF InProgress, Fresh
  <1> HIDE DEF d, T
  <1>6. /\ foreignKeys' \in BOOLEAN /\ foreignKeys' => foreignKeys
        /\ at.table = 1 => Fresh /\ ~transaction /\ ~foreignKeys'
        /\ ~transaction => at.table <= 2
        /\ Fresh => at.table = 1
    BY <1>1, <1>2 DEF UpgradeInv, Fresh
  <1>7. Keeping!Upgrade!LateTables \subseteq saved'.filled
    BY <1>1, <1>2, <1>3, <1>5, <1>6 DEF UpgradeInv
  <1>8. saved' \in Keeping!Upgrade!Databases /\ (~transaction' => db' = saved')
    BY <1>1, <1>3 DEF UpgradeInv
  <1>9. ASSUME failures = 0
        PROVE  /\ Keeping!Upgrade!Tables \subseteq d.filled \cup {T}
               /\ d.children = Keeping!Upgrade!Parents /\ d.torn = {}
               /\ d.shape["sources"] = "old" => ~foreignKeys'
    <2>1. "sources" \in Keeping!Upgrade!Tables
      BY OrderFacts
    <2>2. d.shape["sources"] = "old" => ~foreignKeys'
      BY <1>3, <1>6, <1>9, <2>1 DEF UpgradeInv
    <2>3. T \in Keeping!Upgrade!Parents => ~foreignKeys'
      <3>1. T = "objects" => ~foreignKeys'
        BY <1>2, <1>6
      <3>2. T = "sources" => ~foreignKeys'
        <4>1. T = "sources" => ~Fresh /\ db.shape["sources"] = "old"
          BY <1>1, <1>2, <1>6
        <4> QED
          BY <1>6, <1>9, <4>1 DEF UpgradeInv
      <3> QED
        BY <3>1, <3>2 DEF Keeping!Upgrade!Parents
    <2>4. d.torn = {}
      BY <1>3, <1>9, <2>3 DEF UpgradeInv
    <2> QED
      BY <1>3, <1>5, <1>9, <2>2, <2>4 DEF UpgradeInv
  <1>10. Keeping!Upgrade!LateTables \subseteq db'.filled \cup InProgress'
    BY <1>1, <1>3, <1>5 DEF UpgradeInv
  <1>11. at'.table > 2 /\ at'.next # "up" => transaction'
    BY <1>1, <1>4 DEF UpgradeInv
  <1> QED
    BY <1>1, <1>2, <1>3, <1>5, <1>6, <1>7, <1>8, <1>9, <1>10, <1>11 DEF UpgradeInv

LEMMA UpgradeCreate ==
    ASSUME UpgradeInv, Keeping!Upgrade!Create
    PROVE  UpgradeInv'
  <1> DEFINE T == Keeping!Upgrade!Table
             d == [db EXCEPT !.shape[T] = "new"]
  <1>1. /\ at.next = "create" /\ db' = d /\ saved' = (IF transaction THEN saved ELSE d)
        /\ at' = [at EXCEPT !.next = "copy"]
        /\ UNCHANGED <<transaction, foreignKeys, failures>>
    BY DEF Keeping!Upgrade!Create, Keeping!Upgrade!Rebuilding, Keeping!Upgrade!ChangeSchema
  <1>2. /\ at.table \in 1..6 /\ T \in Keeping!Upgrade!Tables
        /\ T \in Keeping!Upgrade!LateTables <=> at.table > 2
        /\ at' \in Positions
    BY <1>1, PositionFacts DEF UpgradeInv, Keeping!Upgrade!Statements
  <1>3. /\ d \in Keeping!Upgrade!Databases
        /\ d.filled = db.filled /\ d.children = db.children /\ d.torn = db.torn
        /\ \A t \in Keeping!Upgrade!Tables : d.shape[t] = "old" => db.shape[t] = "old"
    <2>1. db \in Keeping!Upgrade!Databases
      BY DEF UpgradeInv
    <2> QED
      BY <1>2, <2>1 DEF Keeping!Upgrade!Databases
  <1>4. /\ at'.next = "copy" /\ at'.table = at.table /\ Keeping!Upgrade!Table' = T
    BY <1>1 DEF UpgradeInv, Positions, Keeping!Upgrade!Table, Keeping!Upgrade!Statements,
                Keeping!Upgrade!Order, Keeping!Upgrade!Early, Keeping!Upgrade!Late
  <1>5. InProgress = {T} /\ InProgress' = {T} /\ ~Fresh /\ ~Fresh'
    BY <1>1, <1>4 DEF InProgress, Fresh
  <1> HIDE DEF d, T
  <1>6. "sources" \in Keeping!Upgrade!Tables
    BY OrderFacts
  <1>7. Keeping!Upgrade!LateTables \subseteq saved'.filled
    BY <1>1, <1>3 DEF UpgradeInv
  <1>8. saved' \in Keeping!Upgrade!Databases /\ (~transaction' => db' = saved')
    BY <1>1, <1>3 DEF UpgradeInv
  <1>9. at'.table > 2 /\ at'.next # "up" => transaction'
    BY <1>1, <1>4 DEF UpgradeInv
  <1>10. failures' = 0 =>
            /\ Keeping!Upgrade!Tables \subseteq db'.filled \cup InProgress'
            /\ db'.children = Keeping!Upgrade!Parents /\ db'.torn = {}
            /\ db'.shape["sources"] = "old" => ~foreignKeys'
    BY <1>1, <1>3, <1>5, <1>6 DEF UpgradeInv
  <1> QED
    BY <1>1, <1>2, <1>3, <1>5, <1>7, <1>8, <1>9, <1>10 DEF UpgradeInv

LEMMA UpgradeCopy ==
    ASSUME UpgradeInv, Keeping!Upgrade!Copy
    PROVE  UpgradeInv'
  <1> DEFINE T == Keeping!Upgrade!Table
             d == [db EXCEPT !.filled = @ \cup {T}]
  <1>1. /\ at.next = "copy" /\ db' = d /\ transaction' = TRUE
        /\ at' = [at EXCEPT !.next = "drop"]
        /\ UNCHANGED <<saved, foreignKeys, failures>>
    BY DEF Keeping!Upgrade!Copy, Keeping!Upgrade!Rebuilding
  <1>2. T \in Keeping!Upgrade!Tables /\ at' \in Positions
    BY <1>1, PositionFacts DEF UpgradeInv, Keeping!Upgrade!Statements
  <1>3. /\ d \in Keeping!Upgrade!Databases
        /\ d.filled = db.filled \cup {T} /\ d.children = db.children /\ d.torn = db.torn
        /\ d.shape = db.shape
    <2>1. db \in Keeping!Upgrade!Databases
      BY DEF UpgradeInv
    <2> QED
      BY <1>2, <2>1 DEF Keeping!Upgrade!Databases
  <1>4. at'.next = "drop"
    BY <1>1 DEF UpgradeInv, Positions, Keeping!Upgrade!Statements
  <1>5. InProgress = {T} /\ InProgress' = {} /\ ~Fresh /\ ~Fresh'
    BY <1>1, <1>4 DEF InProgress, Fresh
  <1> HIDE DEF d, T
  <1>6. failures' = 0 =>
            /\ Keeping!Upgrade!Tables \subseteq db'.filled \cup InProgress'
            /\ db'.children = Keeping!Upgrade!Parents /\ db'.torn = {}
            /\ db'.shape["sources"] = "old" => ~foreignKeys'
    BY <1>1, <1>3, <1>5 DEF UpgradeInv
  <1> QED
    BY <1>1, <1>2, <1>3, <1>5, <1>6 DEF UpgradeInv

LEMMA UpgradeDrop ==
    ASSUME UpgradeInv, Keeping!Upgrade!Drop
    PROVE  UpgradeInv'
  <1> DEFINE T == Keeping!Upgrade!Table
             d == [db EXCEPT !.aside = @ \ {T},
                             !.children = IF foreignKeys THEN @ \ (db.torn \cap {T}) ELSE @]
  <1>1. /\ at.next = "drop" /\ db' = d /\ saved' = (IF transaction THEN saved ELSE d)
        /\ at' = Keeping!Upgrade!After(at.table)
        /\ UNCHANGED <<transaction, foreignKeys, failures>>
    BY DEF Keeping!Upgrade!Drop, Keeping!Upgrade!Rebuilding, Keeping!Upgrade!ChangeSchema
  <1>2. /\ at' \in Positions
        /\ at'.table > 2 => at.table > 2
        /\ at'.next \in {"rename", "backfill", "end"} /\ at'.table # 1
    BY <1>1, AfterFacts DEF UpgradeInv, Keeping!Upgrade!Statements
  <1>3. /\ d \in Keeping!Upgrade!Databases
        /\ d.filled = db.filled /\ d.torn = db.torn /\ d.shape = db.shape
        /\ db.torn = {} => d.children = db.children
    <2>1. db \in Keeping!Upgrade!Databases
      BY DEF UpgradeInv
    <2>2. /\ d.filled = db.filled /\ d.torn = db.torn /\ d.shape = db.shape
          /\ d.aside = db.aside \ {T}
          /\ d.children = IF foreignKeys THEN db.children \ (db.torn \cap {T}) ELSE db.children
      BY <2>1 DEF Keeping!Upgrade!Databases
    <2>3. d.children \in SUBSET Keeping!Upgrade!Parents
      BY <2>1, <2>2 DEF Keeping!Upgrade!Databases
    <2>4. d \in Keeping!Upgrade!Databases
      <3>1. [db EXCEPT !.aside = db.aside \ {T}, !.children = d.children]
                \in Keeping!Upgrade!Databases
        BY <2>1, <2>3 DEF Keeping!Upgrade!Databases
      <3>2. d = [db EXCEPT !.aside = db.aside \ {T}, !.children = d.children]
        BY <2>1, <2>2 DEF Keeping!Upgrade!Databases
      <3> QED
        BY <3>1, <3>2
    <2> QED
      BY <2>2, <2>4
  <1>4. InProgress = {} /\ InProgress' = {} /\ ~Fresh /\ ~Fresh'
    BY <1>1, <1>2 DEF InProgress, Fresh
  <1> HIDE DEF d, T
  <1>5. failures' = 0 =>
            /\ Keeping!Upgrade!Tables \subseteq db'.filled \cup InProgress'
            /\ db'.children = Keeping!Upgrade!Parents /\ db'.torn = {}
            /\ db'.shape["sources"] = "old" => ~foreignKeys'
    BY <1>1, <1>3, <1>4 DEF UpgradeInv
  <1>6. /\ Keeping!Upgrade!LateTables \subseteq saved'.filled
        /\ saved' \in Keeping!Upgrade!Databases /\ (~transaction' => db' = saved')
    BY <1>1, <1>3 DEF UpgradeInv
  <1>7. at'.table > 2 /\ at'.next # "up" => transaction'
    BY <1>1, <1>2 DEF UpgradeInv
  <1> QED
    BY <1>1, <1>2, <1>3, <1>4, <1>5, <1>6, <1>7 DEF UpgradeInv

LEMMA UpgradeStep ==
    ASSUME UpgradeInv, [Keeping!Upgrade!Next]_upgradeVars
    PROVE  UpgradeInv'
  <1>1. CASE UNCHANGED upgradeVars
    BY <1>1 DEF upgradeVars, UpgradeInv, InProgress, Fresh, Keeping!Upgrade!Table,
                Keeping!Upgrade!Databases, Positions
  <1> QED
    BY <1>1, UpgradeStart, UpgradeSkip, UpgradeRename, UpgradeCreate, UpgradeCopy, UpgradeDrop,
       UpgradeBackfill, UpgradeCommit, UpgradeFail
       DEF Keeping!Upgrade!Next

LEMMA UpgradeKept == UpgradeInv => UpgradeKeepsRows
  <1> SUFFICES ASSUME UpgradeInv, Keeping!Upgrade!Up PROVE UpgradeKeepsRows
    BY DEF UpgradeKeepsRows, Keeping!Upgrade!UpgradeKeepsRows
  <1>1. InProgress = {}
    BY DEF Keeping!Upgrade!Up, InProgress
  <1>2. db.filled \subseteq Keeping!Upgrade!Tables
    BY DEF UpgradeInv, Keeping!Upgrade!Databases
  <1> QED
    BY <1>1, <1>2 DEF UpgradeInv, UpgradeKeepsRows, Keeping!Upgrade!UpgradeKeepsRows

-----------------------------------------------------------------------------
(* RestoreJournal *)

(* What the module names, by shorter names.                                *)
Parts == Keeping!Restore!Parts
Processes == Keeping!Restore!Processes
Exclusive == Keeping!Restore!Exclusive
RestoreStages == Exclusive \cup {"off", "gap", "up"}
NoMarker == Keeping!Restore!NoMarker
NoParts == Keeping!Restore!NoParts
USE DEF Parts, Processes, Exclusive, RestoreStages, NoMarker, NoParts

(* Part p of generation g: there, or not.                                  *)
Kept(g, p) == IF p \in has[g] THEN g ELSE Absent

(* Where part p is while a restore is under way: at its place, moved       *)
(* aside, or replaced.                                                     *)
Settled(p) == live[p] = Kept(current, p) /\ retained[p] = Absent
Aside(p) == retained[p] = Kept(current, p) /\ live[p] = Absent
Replaced(p) == retained[p] = Kept(current, p) /\ live[p] = Kept(marker.new, p)

RestoreTypes ==
    /\ Keeping!Restore!TypeOK
    /\ current \in seen
    /\ marker.phase = "none" => marker = NoMarker
    /\ marker.phase # "none" => marker.new \in seen

(* Whoever has the lock exclusively is alone, and each process has only    *)
(* its own stages.                                                         *)
LockInv ==
    /\ \A x, y \in Processes :
          stage[x] \in Exclusive
              => stage[y] # "up" /\ (stage[y] \in Exclusive => x = y)
    /\ stage["restore"] \notin {"gap", "up"}
    /\ stage["bridge"] \notin {"ready", "moving", "installing", "verifying", "finishing"}
    /\ stage["restore"] \in {"moving", "installing", "verifying"} => marker.phase = "prepared"

(* What the marker says of the files.                                      *)
MarkerInv ==
    /\ marker.phase = "none" =>
          /\ \A p \in Parts : live[p] = Kept(current, p)
          /\ retained = NoParts /\ staged = NoParts
    /\ marker.phase = "prepared" =>
          /\ marker.new \in Generations \ {current}
          /\ \A p \in Parts :
                /\ p \in marker.presence <=> Kept(current, p) # Absent
                /\ Settled(p) \/ Aside(p) \/ Replaced(p)
    /\ marker.phase = "committed" =>
          /\ \A p \in Parts : live[p] = Kept(current, p)
          /\ hot = Absent

(* What a process knows of the files at its stage.                         *)
StageFits(x) ==
    /\ stage[x] \in {"ready", "up"} => marker.phase = "none"
    /\ stage[x] \in {"rollback", "moving", "installing", "verifying"}
           => marker.phase = "prepared"
    /\ stage[x] = "finishing" => marker.phase = "committed"
    /\ stage[x] = "cleaning" => marker.phase \in {"prepared", "committed"}
    /\ \A p \in Parts :
          /\ stage[x] = "rollback" /\ p \notin todo[x] => Settled(p)
          /\ stage[x] = "cleaning" /\ marker.phase = "prepared" => Settled(p)
          /\ stage[x] = "moving" =>
                /\ staged[p] = Kept(marker.new, p)
                /\ IF p \in todo[x] THEN Settled(p) ELSE Aside(p)
          /\ stage[x] = "installing" =>
                IF p \in todo[x] THEN Aside(p) /\ staged[p] = Kept(marker.new, p)
                ELSE Replaced(p)
          /\ stage[x] = "verifying" => Replaced(p)

(* The unfinished transaction is one of the present database.              *)
HotInv ==
    /\ torn \subseteq {hot} /\ hot \in {Absent, current}
    /\ hot = current => "database" \in has[current]

(* As long as nothing opened a database while a marker was there.          *)
RestoreInv ==
    /\ RestoreTypes /\ LockInv
    /\ ~opened => /\ MarkerInv /\ HotInv
                  /\ \A x \in Processes : StageFits(x)

LEMMA RestoreInit ==
    ASSUME Keeping!Restore!Init
    PROVE  RestoreInv
  <1>1. /\ current \in Generations /\ seen = {current}
        /\ has \in [Generations -> SUBSET Parts]
        /\ live = Keeping!Restore!Image(current)
        /\ retained = NoParts /\ staged = NoParts
        /\ marker = NoMarker
        /\ stage = [x \in Processes |-> "off"]
        /\ todo = [x \in Processes |-> {}]
        /\ hot = Absent /\ torn = {} /\ opened = FALSE /\ interruptions = 0
    BY DEF Keeping!Restore!Init
  <1>2. Absent \notin Generations /\ MaxInterruptions \in Nat
    BY BridgingAssumption DEF Keeping!Restore!RestoreJournalAssumption
  <1>3. marker.phase = "none" /\ marker.new = Absent /\ marker.presence = {}
    BY <1>1 DEF Keeping!Restore!NoMarker
  <1>4. RestoreTypes
    <2>1. /\ live \in [Parts -> Generations \cup {Absent, Stray}]
          /\ retained \in [Parts -> Generations \cup {Absent, Stray}]
          /\ staged \in [Parts -> Generations \cup {Absent}]
      BY <1>1 DEF Keeping!Restore!Image, Keeping!Restore!NoParts
    <2>2. marker \in [phase : {"none", "prepared", "committed"},
                      new : Generations \cup {Absent}, presence : SUBSET Parts]
      BY <1>1 DEF Keeping!Restore!NoMarker
    <2>3. /\ stage \in [Processes -> RestoreStages]
          /\ todo \in [Processes -> SUBSET Parts]
      BY <1>1
    <2>4. /\ current \in Generations /\ seen \subseteq Generations /\ current \in seen
          /\ has \in [Generations -> SUBSET Parts]
          /\ hot \in Generations \cup {Absent} /\ torn \subseteq Generations
          /\ opened \in BOOLEAN
      BY <1>1
    <2>6. interruptions \in 0..MaxInterruptions
      BY <1>1, <1>2
    <2>5. Keeping!Restore!TypeOK
      BY <2>1, <2>2, <2>3, <2>4, <2>6 DEF Keeping!Restore!TypeOK
    <2> QED
      BY <1>1, <1>3, <2>4, <2>5 DEF RestoreTypes
  <1>5. \A x \in Processes : stage[x] = "off"
    BY <1>1
  <1>6. LockInv
    BY <1>5 DEF LockInv, Keeping!Restore!Exclusive, Keeping!Restore!Processes
  <1>7. MarkerInv
    BY <1>1, <1>3 DEF MarkerInv, Kept, Keeping!Restore!Image
  <1>8. \A x \in Processes : StageFits(x)
    BY <1>5 DEF StageFits
  <1>9. HotInv
    BY <1>1, <1>2 DEF HotInv
  <1> QED
    BY <1>4, <1>6, <1>7, <1>8, <1>9 DEF RestoreInv

Exclusively(x, s) ==
    /\ s \in Exclusive \cup {"off", "gap"}
    /\ x = "restore" => s # "gap"
    /\ x = "bridge" => s \notin {"ready", "moving", "installing", "verifying", "finishing"}
    /\ s \in {"moving", "installing", "verifying"} => marker'.phase = "prepared"

(* The process x, which has the lock exclusively, takes a step: the other  *)
(* one is off, or waits for its lease.                                     *)
LEMMA ExclusiveStep ==
    ASSUME RestoreInv, NEW x \in Processes, stage[x] \in Exclusive,
           NEW s, Exclusively(x, s), stage' = [stage EXCEPT ![x] = s],
           opened' = opened, RestoreTypes',
           ~opened => MarkerInv' /\ HotInv' /\ StageFits(x)'
    PROVE  RestoreInv'
  <1>1. /\ stage \in [Processes -> RestoreStages]
        /\ stage' = [stage EXCEPT ![x] = s]
    BY DEF RestoreInv, RestoreTypes, Keeping!Restore!TypeOK
  <1>2. stage'[x] = s /\ \A y \in Processes : y # x => stage'[y] = stage[y]
    BY <1>1
  <1>3. ASSUME NEW y \in Processes, y # x PROVE stage'[y] \in {"off", "gap"}
    <2>1. stage[y] \notin Exclusive /\ stage[y] # "up"
      BY <1>3 DEF RestoreInv, LockInv
    <2> QED
      BY <1>1, <1>2, <1>3, <2>1
  <1>4. ASSUME NEW y \in Processes, y # x PROVE StageFits(y)'
    BY <1>3, <1>4 DEF StageFits
  <1>5. LockInv'
    <2>1. s # "up"
      BY DEF Exclusively, Keeping!Restore!Exclusive
    <2>2. ASSUME NEW y \in Processes, NEW z \in Processes, stage'[y] \in Exclusive
          PROVE  stage'[z] # "up" /\ (stage'[z] \in Exclusive => y = z)
      <3>1. y = x
        BY <1>3, <2>2 DEF Keeping!Restore!Exclusive
      <3>2. z # x => stage'[z] \in {"off", "gap"}
        BY <1>3
      <3> QED
        BY <1>2, <2>1, <3>1, <3>2 DEF Keeping!Restore!Exclusive
    <2>3. stage'["restore"] \notin {"gap", "up"}
      BY <1>2, <2>1 DEF RestoreInv, LockInv, Exclusively, Keeping!Restore!Processes
    <2>4. stage'["bridge"] \notin {"ready", "moving", "installing", "verifying", "finishing"}
      BY <1>2 DEF RestoreInv, LockInv, Exclusively, Keeping!Restore!Processes
    <2>5. Processes' = Processes /\ Exclusive' = Exclusive
      BY DEF Keeping!Restore!Processes, Keeping!Restore!Exclusive
    <2>6. stage'["restore"] \in {"moving", "installing", "verifying"}
              => marker'.phase = "prepared"
      BY <1>2, <1>3 DEF Exclusively, Keeping!Restore!Processes
    <2> QED
      BY <2>2, <2>3, <2>4, <2>5, <2>6 DEF LockInv
  <1> QED
    BY <1>4, <1>5 DEF RestoreInv

(* Only files are moved: the marker and the database stay.                 *)
LEMMA FilesMove ==
    ASSUME RestoreTypes,
           UNCHANGED <<marker, current, has, seen, hot, torn, opened, interruptions>>,
           live' \in [Parts -> Generations \cup {Absent, Stray}],
           retained' \in [Parts -> Generations \cup {Absent, Stray}],
           staged' \in [Parts -> Generations \cup {Absent}],
           stage' \in [Processes -> RestoreStages],
           todo' \in [Processes -> SUBSET Parts]
    PROVE  RestoreTypes' /\ (HotInv => HotInv')
  BY DEF RestoreTypes, Keeping!Restore!TypeOK, HotInv, Keeping!Restore!NoMarker,
     Keeping!Restore!Parts, Keeping!Restore!Processes, Keeping!Restore!Exclusive

(* The rest of a loop over the parts, or the stage after it.               *)
LEMMA DoneFacts ==
    ASSUME RestoreTypes, NEW x \in Processes, NEW p \in Parts,
           NEW then, then.stage \in Exclusive, then.todo \in SUBSET Parts,
           stage[x] \in Exclusive, Keeping!Restore!Done(x, p, then)
    PROVE  /\ stage' = [stage EXCEPT ![x] = stage'[x]]
           /\ stage' \in [Processes -> RestoreStages]
           /\ todo' \in [Processes -> SUBSET Parts]
           /\ \/ stage'[x] = stage[x] /\ todo'[x] = todo[x] \ {p}
              \/ /\ stage'[x] = then.stage /\ todo'[x] = then.todo
                 /\ todo[x] \subseteq {p}
  <1>1. /\ stage \in [Processes -> RestoreStages]
        /\ todo \in [Processes -> SUBSET Parts]
    BY DEF RestoreTypes, Keeping!Restore!TypeOK
  <1>2. CASE todo[x] \ {p} # {}
    <2>1. todo' = [todo EXCEPT ![x] = todo[x] \ {p}] /\ stage' = stage
      BY <1>2 DEF Keeping!Restore!Done
    <2> QED
      BY <1>1, <2>1
  <1>3. CASE todo[x] \ {p} = {}
    <2>1. /\ stage' = [stage EXCEPT ![x] = then.stage]
          /\ todo' = [todo EXCEPT ![x] = then.todo]
      BY <1>3 DEF Keeping!Restore!Done
    <2> QED
      BY <1>1, <1>3, <2>1
  <1> QED
    BY <1>2, <1>3

(* The steps of recover_incomplete_restore.                                *)
LEMMA RecoverySteps ==
    ASSUME RestoreInv, NEW x \in Processes,
           \/ Keeping!Restore!NothingToRecover(x)
           \/ Keeping!Restore!RollForward(x) \/ Keeping!Restore!RollBack(x)
    PROVE  RestoreInv'
  <1>0. /\ stage[x] = "entered" /\ "entered" \in Exclusive
        /\ UNCHANGED <<live, retained, staged, marker, current, has, seen, hot, torn, opened,
                       interruptions>>
        /\ RestoreTypes
        /\ stage \in [Processes -> RestoreStages]
        /\ todo \in [Processes -> SUBSET Parts]
    BY DEF Keeping!Restore!NothingToRecover, Keeping!Restore!RollForward,
       Keeping!Restore!RollBack, Keeping!Restore!Exclusive, RestoreInv, RestoreTypes,
           Keeping!Restore!TypeOK
  <1>1. ASSUME stage' \in [Processes -> RestoreStages],
               todo' \in [Processes -> SUBSET Parts]
        PROVE  RestoreTypes' /\ (HotInv => HotInv')
    <2>1. /\ live' \in [Parts -> Generations \cup {Absent, Stray}]
          /\ retained' \in [Parts -> Generations \cup {Absent, Stray}]
          /\ staged' \in [Parts -> Generations \cup {Absent}]
      BY <1>0 DEF RestoreTypes, Keeping!Restore!TypeOK
    <2> QED
      BY <1>0, <1>1, <2>1, FilesMove
  <1>2. MarkerInv => MarkerInv'
    BY <1>0 DEF MarkerInv, Settled, Aside, Replaced, Kept, Keeping!Restore!Parts,
       Keeping!Restore!NoParts
  <1>3. CASE Keeping!Restore!NothingToRecover(x)
    <2> DEFINE s == IF x = "bridge" THEN "gap" ELSE "ready"
    <2>1. stage' = [stage EXCEPT ![x] = s] /\ UNCHANGED todo /\ marker.phase = "none"
      BY <1>3 DEF Keeping!Restore!NothingToRecover, Keeping!Restore!Recovered,
         Keeping!Restore!NoMarker
    <2>2. Exclusively(x, s)
      BY DEF Exclusively, Keeping!Restore!Processes, Keeping!Restore!Exclusive
    <2> HIDE DEF s
    <2>3. stage' \in [Processes -> RestoreStages] /\ stage'[x] = s
      BY <1>0, <2>1, <2>2 DEF Exclusively
    <2>4. StageFits(x)'
      BY <1>0, <2>1, <2>3 DEF StageFits, s
    <2>5. RestoreTypes' /\ (HotInv => HotInv')
      BY <1>0, <1>1, <2>1, <2>3
    <2> QED
      BY <1>0, <1>2, <2>1, <2>2, <2>4, <2>5, ExclusiveStep DEF RestoreInv
  <1>4. CASE Keeping!Restore!RollForward(x)
    <2>1. stage' = [stage EXCEPT ![x] = "cleaning"] /\ UNCHANGED todo
          /\ marker.phase = "committed"
      BY <1>4 DEF Keeping!Restore!RollForward
    <2>2. Exclusively(x, "cleaning")
      BY DEF Exclusively, Keeping!Restore!Exclusive
    <2>3. stage' \in [Processes -> RestoreStages]
          /\ stage'[x] = "cleaning"
      BY <1>0, <2>1, <2>2 DEF Exclusively
    <2>4. StageFits(x)'
      BY <1>0, <2>1, <2>3 DEF StageFits
    <2>5. RestoreTypes' /\ (HotInv => HotInv')
      BY <1>0, <1>1, <2>1, <2>3
    <2> QED
      BY <1>0, <1>2, <2>1, <2>2, <2>4, <2>5, ExclusiveStep DEF RestoreInv
  <1>5. CASE Keeping!Restore!RollBack(x)
    <2>1. /\ stage' = [stage EXCEPT ![x] = "rollback"]
          /\ todo' = [todo EXCEPT ![x] = Parts] /\ marker.phase = "prepared"
      BY <1>5 DEF Keeping!Restore!RollBack
    <2>2. Exclusively(x, "rollback")
      BY DEF Exclusively, Keeping!Restore!Exclusive
    <2>3. /\ stage' \in [Processes -> RestoreStages]
          /\ stage'[x] = "rollback"
          /\ todo' \in [Processes -> SUBSET Parts] /\ todo'[x] = Parts
      BY <1>0, <2>1, <2>2 DEF Exclusively
    <2>4. StageFits(x)'
      BY <1>0, <2>1, <2>3 DEF StageFits, Keeping!Restore!Parts
    <2>5. RestoreTypes' /\ (HotInv => HotInv')
      BY <1>1, <2>3
    <2> QED
      BY <1>0, <1>2, <2>1, <2>2, <2>4, <2>5, ExclusiveStep DEF RestoreInv
  <1> QED
    BY <1>3, <1>4, <1>5

(* A part that is where it was is what it was.                             *)
LEMMA SamePart ==
    ASSUME UNCHANGED <<current, has>>, UNCHANGED marker, NEW q,
           live'[q] = live[q], retained'[q] = retained[q]
    PROVE  /\ Settled(q)' <=> Settled(q)
           /\ Aside(q)' <=> Aside(q)
           /\ Replaced(q)' <=> Replaced(q)
  <1>1. Kept(current, q)' = Kept(current, q)
    BY DEF Kept
  <1>2. Kept(marker.new, q)' = Kept(marker.new, q)
    BY DEF Kept
  <1> QED
    BY <1>1, <1>2 DEF Settled, Aside, Replaced

(* While the parts are on their way, the marker stays true.                *)
LEMMA StillPrepared ==
    ASSUME MarkerInv, marker.phase = "prepared", UNCHANGED <<current, has>>, UNCHANGED marker,
           \A q \in Parts : Settled(q)' \/ Aside(q)' \/ Replaced(q)'
    PROVE  MarkerInv'
  <1>1. \A q : Kept(current, q)' = Kept(current, q)
    BY DEF Kept
  <1>2. /\ marker'.new \in Generations \ {current'}
        /\ \A q \in Parts : q \in marker'.presence <=> Kept(current, q)' # Absent
    BY <1>1 DEF MarkerInv
  <1>3. Parts' = Parts
    BY DEF Keeping!Restore!Parts
  <1> QED
    BY <1>2, <1>3 DEF MarkerInv

LEMMA RemoveLiveStep ==
    ASSUME RestoreInv, NEW x \in Processes, NEW p \in Parts, Keeping!Restore!RemoveLive(x, p)
    PROVE  RestoreInv'
  <1>0. /\ stage[x] = "rollback" /\ "rollback" \in Exclusive /\ p \in todo[x]
        /\ retained[p] # Absent \/ p \notin marker.presence
        /\ live[p] # Absent /\ live' = [live EXCEPT ![p] = Absent]
        /\ UNCHANGED <<retained, staged, marker, stage, todo, current, has, seen, hot, torn,
                       opened, interruptions>>
    BY DEF Keeping!Restore!RemoveLive, Keeping!Restore!Turn, Keeping!Restore!Removes,
       Keeping!Restore!Exclusive
  <1>1. /\ live \in [Parts -> Generations \cup {Absent, Stray}]
        /\ retained \in [Parts -> Generations \cup {Absent, Stray}]
        /\ staged \in [Parts -> Generations \cup {Absent}]
        /\ stage \in [Processes -> RestoreStages]
        /\ todo \in [Processes -> SUBSET Parts] /\ RestoreTypes
    BY DEF RestoreInv, RestoreTypes, Keeping!Restore!TypeOK
  <1>2. /\ live' \in [Parts -> Generations \cup {Absent, Stray}] /\ live'[p] = Absent
        /\ \A q \in Parts : q # p => live'[q] = live[q]
    BY <1>0, <1>1
  <1>3. RestoreTypes' /\ (HotInv => HotInv')
    BY <1>0, <1>1, <1>2, FilesMove
  <1>4. stage' = [stage EXCEPT ![x] = stage[x]] /\ Exclusively(x, stage[x])
    BY <1>0, <1>1 DEF Exclusively
  <1>5. ASSUME ~opened PROVE MarkerInv' /\ StageFits(x)'
    <2>1. MarkerInv /\ StageFits(x) /\ marker.phase = "prepared"
      BY <1>0, <1>5 DEF RestoreInv, StageFits
    <2>2. Aside(p)'
      <3>1. Settled(p) => Kept(current, p) = Absent /\ live[p] = Absent
        BY <1>0, <2>1 DEF MarkerInv, Settled
      <3>2. retained[p] = Kept(current, p)
        BY <1>0, <2>1, <3>1 DEF MarkerInv, Aside, Replaced
      <3> QED
        BY <1>0, <1>2, <3>2 DEF Aside, Kept
    <2>3. ASSUME NEW q \in Parts, q # p
          PROVE  /\ Settled(q)' <=> Settled(q)
                 /\ Aside(q)' <=> Aside(q)
                 /\ Replaced(q)' <=> Replaced(q)
      <3>1. live'[q] = live[q] /\ retained'[q] = retained[q]
        BY <1>0, <1>2, <2>3
      <3> QED
        BY <1>0, <3>1, SamePart
    <2>4. MarkerInv'
      <3>1. \A q \in Parts : Settled(q)' \/ Aside(q)' \/ Replaced(q)'
        BY <2>1, <2>2, <2>3 DEF MarkerInv
      <3> QED
        BY <1>0, <2>1, <3>1, StillPrepared
    <2>5. StageFits(x)'
      <3>1. \A q \in Parts : q \notin todo'[x] => Settled(q)'
        BY <1>0, <2>1, <2>3 DEF StageFits
      <3>2. stage'[x] = "rollback" /\ marker'.phase = "prepared" /\ Parts' = Parts
        BY <1>0, <2>1 DEF Keeping!Restore!Parts
      <3> QED
        BY <3>1, <3>2 DEF StageFits
    <2> QED
      BY <2>4, <2>5
  <1> QED
    BY <1>0, <1>3, <1>4, <1>5, ExclusiveStep DEF RestoreInv

LEMMA PutBackStep ==
    ASSUME RestoreInv, NEW x \in Processes, NEW p \in Parts, Keeping!Restore!PutBack(x, p)
    PROVE  RestoreInv'
  <1> DEFINE moved == retained[p] # Absent \/ p \notin marker.presence
  <1>0. /\ stage[x] = "rollback" /\ "rollback" \in Exclusive /\ p \in todo[x]
        /\ IF ~moved THEN UNCHANGED <<live, retained>>
           ELSE /\ live[p] = Absent
                /\ live' = [live EXCEPT ![p] = retained[p]]
                /\ retained' = [retained EXCEPT ![p] = Absent]
        /\ Keeping!Restore!Done(x, p, [stage |-> "cleaning", todo |-> {}])
        /\ UNCHANGED <<staged, marker, current, has, seen, hot, torn, opened, interruptions>>
    BY DEF Keeping!Restore!PutBack, Keeping!Restore!Turn, Keeping!Restore!Removes,
       Keeping!Restore!Exclusive
  <1>1. /\ live \in [Parts -> Generations \cup {Absent, Stray}]
        /\ retained \in [Parts -> Generations \cup {Absent, Stray}]
        /\ staged \in [Parts -> Generations \cup {Absent}]
        /\ stage \in [Processes -> RestoreStages]
        /\ todo \in [Processes -> SUBSET Parts] /\ RestoreTypes
    BY DEF RestoreInv, RestoreTypes, Keeping!Restore!TypeOK
  <1>2. /\ live' \in [Parts -> Generations \cup {Absent, Stray}]
        /\ retained' \in [Parts -> Generations \cup {Absent, Stray}]
        /\ \A q \in Parts : q # p => live'[q] = live[q] /\ retained'[q] = retained[q]
        /\ IF ~moved THEN live'[p] = live[p] /\ retained'[p] = retained[p]
           ELSE live'[p] = retained[p] /\ retained'[p] = Absent
    BY <1>0, <1>1
  <1>3. /\ stage' = [stage EXCEPT ![x] = stage'[x]]
        /\ stage' \in [Processes -> RestoreStages]
        /\ todo' \in [Processes -> SUBSET Parts]
        /\ \/ stage'[x] = "rollback" /\ todo'[x] = todo[x] \ {p}
           \/ stage'[x] = "cleaning" /\ todo[x] \subseteq {p}
    <2> DEFINE then == [stage |-> "cleaning", todo |-> {}]
    <2>1. /\ then.stage \in Exclusive /\ then.todo \in SUBSET Parts
          /\ then.stage = "cleaning" /\ Keeping!Restore!Done(x, p, then)
      BY <1>0 DEF Keeping!Restore!Exclusive
    <2> HIDE DEF then
    <2> QED
      BY <1>0, <1>1, <2>1, DoneFacts
  <1>4. RestoreTypes' /\ (HotInv => HotInv')
    BY <1>0, <1>1, <1>2, <1>3, FilesMove
  <1>5. Exclusively(x, stage'[x])
    BY <1>3 DEF Exclusively, Keeping!Restore!Exclusive
  <1>6. ASSUME ~opened PROVE MarkerInv' /\ StageFits(x)'
    <2>1. MarkerInv /\ StageFits(x) /\ marker.phase = "prepared"
      BY <1>0, <1>6 DEF RestoreInv, StageFits
    <2>2. Settled(p)'
      <3>1. CASE ~moved
        <4>1. Kept(current, p) # Absent /\ retained[p] = Absent
          BY <2>1, <3>1 DEF MarkerInv
        <4>2. Settled(p)
          BY <2>1, <4>1 DEF MarkerInv, Aside, Replaced
        <4> QED
          BY <1>0, <1>2, <3>1, <4>2, SamePart
      <3>2. CASE moved
        <4>1. Settled(p) => retained[p] = Kept(current, p)
          BY <2>1, <3>2 DEF MarkerInv, Settled
        <4>2. retained[p] = Kept(current, p)
          BY <2>1, <4>1 DEF MarkerInv, Aside, Replaced
        <4> QED
          BY <1>0, <1>2, <3>2, <4>2 DEF Settled, Kept
      <3> QED
        BY <3>1, <3>2
    <2>3. ASSUME NEW q \in Parts, q # p
          PROVE  /\ Settled(q)' <=> Settled(q)
                 /\ Aside(q)' <=> Aside(q)
                 /\ Replaced(q)' <=> Replaced(q)
      <3>1. live'[q] = live[q] /\ retained'[q] = retained[q]
        BY <1>2, <2>3
      <3> QED
        BY <1>0, <3>1, SamePart
    <2>4. MarkerInv'
      <3>1. \A q \in Parts : Settled(q)' \/ Aside(q)' \/ Replaced(q)'
        BY <2>1, <2>2, <2>3 DEF MarkerInv
      <3> QED
        BY <1>0, <2>1, <3>1, StillPrepared
    <2>5. StageFits(x)'
      <3>1. marker'.phase = "prepared" /\ Parts' = Parts
        BY <1>0, <2>1 DEF Keeping!Restore!Parts
      <3>2. CASE stage'[x] = "rollback" /\ todo'[x] = todo[x] \ {p}
        <4>1. \A q \in Parts : q \notin todo'[x] => Settled(q)'
          BY <1>0, <2>1, <2>2, <2>3, <3>2 DEF StageFits
        <4> QED
          BY <3>1, <3>2, <4>1 DEF StageFits
      <3>3. CASE stage'[x] = "cleaning" /\ todo[x] \subseteq {p}
        <4>1. \A q \in Parts : Settled(q)'
          BY <1>0, <2>1, <2>2, <2>3, <3>3 DEF StageFits
        <4> QED
          BY <3>1, <3>3, <4>1 DEF StageFits
      <3> QED
        BY <1>3, <3>2, <3>3
    <2> QED
      BY <2>4, <2>5
  <1>7. stage[x] \in Exclusive /\ opened' = opened
    BY <1>0
  <1> QED
    BY <1>3, <1>4, <1>5, <1>6, <1>7, ExclusiveStep DEF RestoreInv

LEMMA CleanStep ==
    ASSUME RestoreInv, NEW x \in Processes, Keeping!Restore!Clean(x)
    PROVE  RestoreInv'
  <1>0. /\ stage[x] \in {"cleaning", "finishing"} /\ stage[x] \in Exclusive
        /\ retained' = NoParts /\ staged' = NoParts
        /\ UNCHANGED <<live, marker, stage, todo, current, has, seen, hot, torn, opened,
                       interruptions>>
    BY DEF Keeping!Restore!Clean, Keeping!Restore!Cleaning, Keeping!Restore!Exclusive
  <1>1. /\ live \in [Parts -> Generations \cup {Absent, Stray}]
        /\ retained \in [Parts -> Generations \cup {Absent, Stray}]
        /\ staged \in [Parts -> Generations \cup {Absent}]
        /\ stage \in [Processes -> RestoreStages]
        /\ todo \in [Processes -> SUBSET Parts] /\ RestoreTypes
    BY DEF RestoreInv, RestoreTypes, Keeping!Restore!TypeOK
  <1>2. /\ retained' \in [Parts -> Generations \cup {Absent, Stray}]
        /\ staged' \in [Parts -> Generations \cup {Absent}]
        /\ \A q \in Parts : retained'[q] = Absent
    BY <1>0 DEF Keeping!Restore!NoParts
  <1>3. RestoreTypes' /\ (HotInv => HotInv')
    BY <1>0, <1>1, <1>2, FilesMove
  <1>4. stage' = [stage EXCEPT ![x] = stage[x]] /\ Exclusively(x, stage[x])
    BY <1>0, <1>1 DEF Exclusively, RestoreInv, LockInv
  <1>5. ASSUME ~opened PROVE MarkerInv' /\ StageFits(x)'
    <2>1. MarkerInv /\ StageFits(x)
      BY <1>5 DEF RestoreInv
    <2>2. CASE marker.phase = "prepared"
      <3>1. \A q \in Parts : Settled(q) /\ live'[q] = live[q] /\ retained'[q] = retained[q]
        BY <1>0, <1>2, <2>1, <2>2 DEF StageFits, Settled
      <3>2. \A q \in Parts : Settled(q)'
        BY <1>0, <3>1, SamePart
      <3>3. MarkerInv'
        BY <1>0, <2>1, <2>2, <3>2, StillPrepared
      <3>4. stage[x] = "cleaning" /\ Parts' = Parts
        BY <1>0, <2>1, <2>2 DEF StageFits, Keeping!Restore!Parts
      <3> QED
        BY <1>0, <2>2, <3>2, <3>3, <3>4 DEF StageFits
    <2>3. CASE marker.phase = "committed"
      BY <1>0, <2>1, <2>3 DEF MarkerInv, StageFits, Kept, Keeping!Restore!Parts
    <2> QED
      BY <1>0, <2>1, <2>2, <2>3 DEF StageFits
  <1> QED
    BY <1>0, <1>3, <1>4, <1>5, ExclusiveStep DEF RestoreInv

LEMMA UnlinkStep ==
    ASSUME RestoreInv, NEW x \in Processes, Keeping!Restore!Unlink(x)
    PROVE  RestoreInv'
  <1> DEFINE s == IF stage[x] = "finishing" THEN "off"
                  ELSE IF x = "bridge" THEN "gap" ELSE "ready"
  <1>0. /\ stage[x] \in {"cleaning", "finishing"} /\ stage[x] \in Exclusive
        /\ retained = NoParts /\ staged = NoParts /\ marker' = NoMarker
        /\ stage' = [stage EXCEPT ![x] = s]
        /\ UNCHANGED <<live, retained, staged, todo, current, has, seen, hot, torn, opened,
                       interruptions>>
    BY DEF Keeping!Restore!Unlink, Keeping!Restore!Cleaning, Keeping!Restore!Exclusive,
       Keeping!Restore!Recovered
  <1>1. /\ live \in [Parts -> Generations \cup {Absent, Stray}]
        /\ retained \in [Parts -> Generations \cup {Absent, Stray}]
        /\ staged \in [Parts -> Generations \cup {Absent}]
        /\ stage \in [Processes -> RestoreStages]
        /\ todo \in [Processes -> SUBSET Parts] /\ RestoreTypes
    BY DEF RestoreInv, RestoreTypes, Keeping!Restore!TypeOK
  <1>2. Exclusively(x, s)
    BY <1>0 DEF Exclusively, Keeping!Restore!Processes, Keeping!Restore!Exclusive
  <1>3. s \in {"off", "gap", "ready"}
    OBVIOUS
  <1> HIDE DEF s
  <1>4. stage' \in [Processes -> RestoreStages] /\ stage'[x] = s
    BY <1>0, <1>1, <1>2 DEF Exclusively
  <1>5. /\ marker' \in [phase : {"none", "prepared", "committed"},
                        new : Generations \cup {Absent}, presence : SUBSET Parts]
        /\ marker'.phase = "none" /\ NoMarker' = NoMarker
    BY <1>0 DEF Keeping!Restore!NoMarker
  <1>6. RestoreTypes' /\ (HotInv => HotInv')
    BY <1>0, <1>1, <1>4, <1>5 DEF RestoreTypes, Keeping!Restore!TypeOK, HotInv,
       Keeping!Restore!Parts, Keeping!Restore!Processes,
       Keeping!Restore!Exclusive
  <1>7. ASSUME ~opened PROVE MarkerInv' /\ StageFits(x)'
    <2>1. MarkerInv /\ StageFits(x)
      BY <1>7 DEF RestoreInv
    <2>2. \A q \in Parts : live[q] = Kept(current, q)
      <3>1. CASE marker.phase = "committed"
        BY <2>1, <3>1 DEF MarkerInv
      <3>2. CASE marker.phase = "prepared" /\ stage[x] = "cleaning"
        BY <2>1, <3>2 DEF StageFits, Settled
      <3> QED
        BY <1>0, <2>1, <3>1, <3>2 DEF StageFits
    <2>3. /\ Parts' = Parts /\ NoParts' = NoParts
          /\ \A q : Kept(current, q)' = Kept(current, q)
      BY <1>0 DEF Keeping!Restore!Parts, Keeping!Restore!NoParts, Kept
    <2>4. MarkerInv'
      BY <1>0, <1>5, <2>2, <2>3 DEF MarkerInv
    <2>5. StageFits(x)'
      BY <1>3, <1>4, <1>5 DEF StageFits
    <2> QED
      BY <2>4, <2>5
  <1> QED
    BY <1>0, <1>2, <1>6, <1>7, ExclusiveStep DEF RestoreInv

(* A process gives up what lock it has, and leaves the files as they are.  *)
LEMMA LeavesStep ==
    ASSUME RestoreInv, NEW x \in Processes, stage' = [stage EXCEPT ![x] = "off"],
           \A y \in Processes : y # x => todo'[y] = todo[y],
           UNCHANGED <<live, retained, staged, marker, current, has, opened>>,
           RestoreTypes', ~opened => HotInv' /\ MarkerInv'
    PROVE  RestoreInv'
  <1>1. /\ stage \in [Processes -> RestoreStages]
        /\ Processes' = Processes /\ Exclusive' = Exclusive /\ Parts' = Parts
    BY DEF RestoreInv, RestoreTypes, Keeping!Restore!TypeOK, Keeping!Restore!Processes,
       Keeping!Restore!Exclusive, Keeping!Restore!Parts
  <1>2. stage'[x] = "off" /\ \A y \in Processes : y # x => stage'[y] = stage[y]
    BY <1>1
  <1>3. LockInv'
    BY <1>1, <1>2 DEF RestoreInv, LockInv, Keeping!Restore!Exclusive, Keeping!Restore!Processes
  <1>4. ASSUME NEW y \in Processes, ~opened PROVE StageFits(y)'
    <2>1. CASE y = x
      BY <1>2, <2>1 DEF StageFits
    <2>2. CASE y # x
      <3>1. /\ stage'[y] = stage[y] /\ todo'[y] = todo[y] /\ StageFits(y)
        BY <1>2, <1>4, <2>2 DEF RestoreInv
      <3>2. ASSUME NEW q \in Parts
            PROVE  /\ Settled(q)' <=> Settled(q)
                   /\ Aside(q)' <=> Aside(q)
                   /\ Replaced(q)' <=> Replaced(q)
        BY SamePart
      <3>3. \A q \in Parts : Kept(marker.new, q)' = Kept(marker.new, q)
        BY DEF Kept
      <3>4. marker' = marker /\ staged' = staged
        OBVIOUS
      <3> QED
        BY <1>1, <3>1, <3>2, <3>3, <3>4 DEF StageFits
    <2> QED
      BY <2>1, <2>2
  <1> QED
    BY <1>1, <1>3, <1>4 DEF RestoreInv

LEMMA GivingUpSteps ==
    ASSUME RestoreInv,
           \/ \E x \in Processes : Keeping!Restore!Stop(x)
           \/ Keeping!Restore!Refuse \/ Keeping!Restore!Shutdown
    PROVE  RestoreInv'
  <1>0. /\ live \in [Parts -> Generations \cup {Absent, Stray}]
        /\ retained \in [Parts -> Generations \cup {Absent, Stray}]
        /\ staged \in [Parts -> Generations \cup {Absent}]
        /\ stage \in [Processes -> RestoreStages]
        /\ todo \in [Processes -> SUBSET Parts] /\ RestoreTypes
    BY DEF RestoreInv, RestoreTypes, Keeping!Restore!TypeOK
  <1>1. PICK x \in Processes :
            /\ stage' = [stage EXCEPT ![x] = "off"]
            /\ todo' = todo \/ todo' = [todo EXCEPT ![x] = {}]
            /\ \/ UNCHANGED interruptions
               \/ interruptions < MaxInterruptions /\ interruptions' = interruptions + 1
            /\ UNCHANGED <<live, retained, staged, marker, current, has, seen, hot, torn,
                           opened>>
    BY DEF Keeping!Restore!Stop, Keeping!Restore!Stops, Keeping!Restore!Refuse,
       Keeping!Restore!Shutdown, Keeping!Restore!Processes
  <1>2. /\ stage' \in [Processes -> RestoreStages]
        /\ todo' \in [Processes -> SUBSET Parts]
        /\ \A y \in Processes : y # x => todo'[y] = todo[y]
    BY <1>0, <1>1
  <1>3. interruptions' \in 0..MaxInterruptions
    <2>1. MaxInterruptions \in Nat /\ interruptions \in 0..MaxInterruptions
      BY <1>0, BridgingAssumption DEF Keeping!Restore!RestoreJournalAssumption, RestoreTypes,
         Keeping!Restore!TypeOK
    <2> QED
      BY <1>1, <2>1
  <1>4. RestoreTypes'
    BY <1>0, <1>1, <1>2, <1>3 DEF RestoreTypes, Keeping!Restore!TypeOK, Keeping!Restore!Parts,
       Keeping!Restore!Processes, Keeping!Restore!Exclusive,
       Keeping!Restore!NoMarker
  <1>5. HotInv => HotInv'
    BY <1>1 DEF HotInv
  <1>6. MarkerInv => MarkerInv'
    BY <1>1 DEF MarkerInv, Settled, Aside, Replaced, Kept, Keeping!Restore!Parts,
       Keeping!Restore!NoParts
  <1> QED
    BY <1>1, <1>2, <1>4, <1>5, <1>6, LeavesStep DEF RestoreInv

LEMMA DieStep ==
    ASSUME RestoreInv, Keeping!Restore!DieInTransaction
    PROVE  RestoreInv'
  <1>0. /\ live \in [Parts -> Generations \cup {Absent, Stray}]
        /\ retained \in [Parts -> Generations \cup {Absent, Stray}]
        /\ staged \in [Parts -> Generations \cup {Absent}]
        /\ stage \in [Processes -> RestoreStages]
        /\ todo \in [Processes -> SUBSET Parts] /\ RestoreTypes
    BY DEF RestoreInv, RestoreTypes, Keeping!Restore!TypeOK
  <1>1. /\ stage["bridge"] = "up" /\ live["database"] \in Generations
        /\ hot' = live["database"] /\ torn' = torn \cup {live["database"]}
        /\ stage' = [stage EXCEPT !["bridge"] = "off"]
        /\ interruptions < MaxInterruptions /\ interruptions' = interruptions + 1
        /\ UNCHANGED <<live, retained, staged, marker, todo, current, has, seen, opened>>
        /\ "bridge" \in Processes /\ "database" \in Parts
    BY DEF Keeping!Restore!DieInTransaction, Keeping!Restore!Stops, Keeping!Restore!Processes,
       Keeping!Restore!Parts
  <1>2. stage' \in [Processes -> RestoreStages]
    BY <1>0, <1>1
  <1>3. interruptions' \in 0..MaxInterruptions
    <2>1. MaxInterruptions \in Nat /\ interruptions \in 0..MaxInterruptions
      BY <1>0, BridgingAssumption DEF Keeping!Restore!RestoreJournalAssumption, RestoreTypes,
         Keeping!Restore!TypeOK
    <2> QED
      BY <1>1, <2>1
  <1>4. RestoreTypes'
    BY <1>0, <1>1, <1>2, <1>3 DEF RestoreTypes, Keeping!Restore!TypeOK, Keeping!Restore!Parts,
       Keeping!Restore!Processes, Keeping!Restore!Exclusive,
       Keeping!Restore!NoMarker
  <1>5. ASSUME ~opened PROVE HotInv' /\ MarkerInv'
    <2>1. MarkerInv /\ HotInv /\ marker.phase = "none"
      BY <1>1, <1>5 DEF RestoreInv, StageFits
    <2>2. live["database"] = Kept(current, "database") /\ Absent \notin Generations
      BY <1>1, <2>1, BridgingAssumption DEF MarkerInv, Keeping!Restore!RestoreJournalAssumption
    <2>3. live["database"] = current /\ "database" \in has[current]
      BY <1>1, <2>2 DEF Kept
    <2>4. torn \subseteq {current}
      BY <1>0, <2>1, <2>2 DEF HotInv, RestoreTypes, Keeping!Restore!TypeOK
    <2>5. HotInv'
      BY <1>1, <2>3, <2>4 DEF HotInv
    <2>6. MarkerInv'
      BY <1>1, <2>1 DEF MarkerInv, Kept, Keeping!Restore!Parts, Keeping!Restore!NoParts
    <2> QED
      BY <2>5, <2>6
  <1> QED
    BY <1>1, <1>4, <1>5, LeavesStep

LEMMA AcquireStep ==
    ASSUME RestoreInv, NEW x \in Processes, Keeping!Restore!Acquire(x)
    PROVE  RestoreInv'
  <1>0. /\ live \in [Parts -> Generations \cup {Absent, Stray}]
        /\ retained \in [Parts -> Generations \cup {Absent, Stray}]
        /\ staged \in [Parts -> Generations \cup {Absent}]
        /\ stage \in [Processes -> RestoreStages]
        /\ todo \in [Processes -> SUBSET Parts] /\ RestoreTypes
    BY DEF RestoreInv, RestoreTypes, Keeping!Restore!TypeOK
  <1>1. /\ \A y \in Processes : stage[y] \notin Exclusive /\ stage[y] # "up"
        /\ stage' = [stage EXCEPT ![x] = "entered"] /\ "entered" \in Exclusive
        /\ UNCHANGED <<live, retained, staged, marker, todo, current, has, seen, hot, torn,
                       opened, interruptions>>
    BY DEF Keeping!Restore!Acquire, Keeping!Restore!Shareable, Keeping!Restore!Exclusive
  <1>2. /\ stage'[x] = "entered" /\ \A y \in Processes : y # x => stage'[y] \in {"off", "gap"}
        /\ \A y \in Processes : y # x => stage'[y] = stage[y]
        /\ stage' \in [Processes -> RestoreStages]
    BY <1>0, <1>1
  <1>3. RestoreTypes' /\ (HotInv => HotInv')
    BY <1>0, <1>1, <1>2, FilesMove
  <1>4. MarkerInv => MarkerInv'
    BY <1>1 DEF MarkerInv, Settled, Aside, Replaced, Kept, Keeping!Restore!Parts,
       Keeping!Restore!NoParts
  <1>5. \A y \in Processes : StageFits(y)'
    BY <1>2 DEF StageFits
  <1>6. LockInv'
    BY <1>1, <1>2 DEF RestoreInv, LockInv, Keeping!Restore!Exclusive, Keeping!Restore!Processes
  <1>7. Processes' = Processes
    BY DEF Keeping!Restore!Processes
  <1> QED
    BY <1>1, <1>3, <1>4, <1>5, <1>6, <1>7 DEF RestoreInv

LEMMA PublishStep ==
    ASSUME RestoreInv, NEW g \in Generations, Keeping!Restore!Publish(g)
    PROVE  RestoreInv'
  <1>0. /\ live \in [Parts -> Generations \cup {Absent, Stray}]
        /\ retained \in [Parts -> Generations \cup {Absent, Stray}]
        /\ staged \in [Parts -> Generations \cup {Absent}]
        /\ stage \in [Processes -> RestoreStages]
        /\ todo \in [Processes -> SUBSET Parts] /\ RestoreTypes
        /\ has \in [Generations -> SUBSET Parts] /\ Absent \notin Generations
        /\ current \in seen /\ seen \subseteq Generations
    BY BridgingAssumption DEF RestoreInv, RestoreTypes, Keeping!Restore!TypeOK,
       Keeping!Restore!RestoreJournalAssumption
  <1>1. PICK parts \in SUBSET Parts : has' = [has EXCEPT ![g] = parts]
    BY DEF Keeping!Restore!Publish, Keeping!Restore!Parts
  <1>2. /\ stage["restore"] = "ready" /\ g \notin seen /\ seen' = seen \cup {g}
        /\ staged' = [p \in Parts |-> IF p \in has'[g] THEN g ELSE Absent]
        /\ marker' = [phase |-> "prepared", new |-> g,
                      presence |-> {p \in Parts : live[p] # Absent}]
        /\ stage' = [stage EXCEPT !["restore"] = "moving"]
        /\ todo' = [todo EXCEPT !["restore"] = Parts]
        /\ UNCHANGED <<live, retained, current, hot, torn, opened, interruptions>>
        /\ "restore" \in Processes /\ "ready" \in Exclusive
    BY DEF Keeping!Restore!Publish, Keeping!Restore!Exclusive, Keeping!Restore!Processes
  <1>3. /\ stage' \in [Processes -> RestoreStages]
        /\ stage'["restore"] = "moving"
        /\ todo' \in [Processes -> SUBSET Parts] /\ todo'["restore"] = Parts
        /\ staged' \in [Parts -> Generations \cup {Absent}]
        /\ \A p \in Parts : staged'[p] = IF p \in has'[g] THEN g ELSE Absent
        /\ has' \in [Generations -> SUBSET Parts] /\ has'[current] = has[current]
    BY <1>0, <1>1, <1>2 DEF Keeping!Restore!Exclusive
  <1>4. /\ marker' \in [phase : {"none", "prepared", "committed"},
                        new : Generations \cup {Absent}, presence : SUBSET Parts]
        /\ marker'.phase = "prepared" /\ marker'.new = g
        /\ marker'.presence = {p \in Parts : live[p] # Absent}
    BY <1>2
  <1>5. RestoreTypes'
    BY <1>0, <1>2, <1>3, <1>4 DEF RestoreTypes, Keeping!Restore!TypeOK, Keeping!Restore!Parts,
       Keeping!Restore!Processes, Keeping!Restore!Exclusive
  <1>6. Exclusively("restore", "moving")
    BY <1>4 DEF Exclusively, Keeping!Restore!Exclusive
  <1>7. ASSUME ~opened PROVE MarkerInv' /\ HotInv' /\ StageFits("restore")'
    <2>1. MarkerInv /\ HotInv /\ StageFits("restore") /\ marker.phase = "none"
      BY <1>2, <1>7 DEF RestoreInv, StageFits
    <2>2. \A p \in Parts : Settled(p)' /\ Kept(current, p)' = live[p]
      BY <1>2, <1>3, <2>1 DEF MarkerInv, Settled, Kept, Keeping!Restore!NoParts
    <2>3. \A p \in Parts : staged'[p] = Kept(marker.new, p)'
      BY <1>3, <1>4 DEF Kept
    <2>4. Parts' = Parts
      BY DEF Keeping!Restore!Parts
    <2>5. MarkerInv'
      BY <1>0, <1>2, <1>4, <2>2, <2>4 DEF MarkerInv
    <2>6. HotInv'
      BY <1>2, <1>3, <2>1 DEF HotInv
    <2>7. StageFits("restore")'
      BY <1>3, <1>4, <2>2, <2>3, <2>4 DEF StageFits
    <2> QED
      BY <2>5, <2>6, <2>7
  <1> QED
    BY <1>2, <1>5, <1>6, <1>7, ExclusiveStep

LEMMA CommitStep ==
    ASSUME RestoreInv, Keeping!Restore!Commit
    PROVE  RestoreInv'
  <1>0. /\ live \in [Parts -> Generations \cup {Absent, Stray}]
        /\ retained \in [Parts -> Generations \cup {Absent, Stray}]
        /\ staged \in [Parts -> Generations \cup {Absent}]
        /\ stage \in [Processes -> RestoreStages]
        /\ todo \in [Processes -> SUBSET Parts] /\ RestoreTypes
        /\ Absent \notin Generations
    BY BridgingAssumption DEF RestoreInv, RestoreTypes, Keeping!Restore!TypeOK,
       Keeping!Restore!RestoreJournalAssumption
  <1>1. /\ stage["restore"] = "verifying" /\ hot = Absent
        /\ marker' = [marker EXCEPT !.phase = "committed"] /\ current' = marker.new
        /\ stage' = [stage EXCEPT !["restore"] = "finishing"]
        /\ UNCHANGED <<live, retained, staged, todo, has, seen, hot, torn, opened,
                       interruptions>>
        /\ "restore" \in Processes /\ "verifying" \in Exclusive
    BY DEF Keeping!Restore!Commit, Keeping!Restore!Verified, Keeping!Restore!Exclusive,
       Keeping!Restore!Processes
  <1>2. /\ stage' \in [Processes -> RestoreStages]
        /\ stage'["restore"] = "finishing"
    BY <1>0, <1>1 DEF Keeping!Restore!Exclusive
  <1>3. /\ marker' \in [phase : {"none", "prepared", "committed"},
                        new : Generations \cup {Absent}, presence : SUBSET Parts]
        /\ marker'.phase = "committed" /\ marker'.new = marker.new
    BY <1>0, <1>1 DEF RestoreTypes, Keeping!Restore!TypeOK
  <1>4. marker.phase = "prepared" /\ marker.new \in seen /\ marker.new \in Generations
    BY <1>0, <1>1 DEF RestoreInv, LockInv, RestoreTypes, Keeping!Restore!TypeOK
  <1>5. RestoreTypes'
    BY <1>0, <1>1, <1>2, <1>3, <1>4 DEF RestoreTypes, Keeping!Restore!TypeOK,
       Keeping!Restore!Parts, Keeping!Restore!Processes, Keeping!Restore!Exclusive
  <1>6. Exclusively("restore", "finishing")
    BY DEF Exclusively, Keeping!Restore!Exclusive
  <1>7. ASSUME ~opened PROVE MarkerInv' /\ HotInv' /\ StageFits("restore")'
    <2>1. MarkerInv /\ HotInv /\ StageFits("restore")
      BY <1>1, <1>7 DEF RestoreInv
    <2>2. \A p \in Parts : live'[p] = Kept(current, p)'
      BY <1>1, <2>1 DEF StageFits, Replaced, Kept
    <2>3. Parts' = Parts
      BY DEF Keeping!Restore!Parts
    <2>4. MarkerInv'
      BY <1>1, <1>3, <2>2, <2>3 DEF MarkerInv
    <2>5. HotInv'
      BY <1>0, <1>1, <1>4, <2>1 DEF HotInv
    <2>6. StageFits("restore")'
      BY <1>2, <1>3 DEF StageFits
    <2> QED
      BY <2>4, <2>5, <2>6
  <1> QED
    BY <1>1, <1>5, <1>6, <1>7, ExclusiveStep

LEMMA MoveOldStep ==
    ASSUME RestoreInv, NEW p \in Parts, Keeping!Restore!MoveOld(p)
    PROVE  RestoreInv'
  <1>0. /\ stage["restore"] = "moving" /\ p \in todo["restore"]
        /\ live' = [live EXCEPT ![p] = Absent]
        /\ retained' = [retained EXCEPT ![p] = live[p]]
        /\ Keeping!Restore!Done("restore", p, [stage |-> "installing", todo |-> Parts])
        /\ UNCHANGED <<staged, marker, current, has, seen, hot, torn, opened, interruptions>>
        /\ "restore" \in Processes /\ "moving" \in Exclusive
    BY DEF Keeping!Restore!MoveOld, Keeping!Restore!Turn, Keeping!Restore!Exclusive,
       Keeping!Restore!Processes
  <1>1. /\ live \in [Parts -> Generations \cup {Absent, Stray}]
        /\ retained \in [Parts -> Generations \cup {Absent, Stray}]
        /\ staged \in [Parts -> Generations \cup {Absent}]
        /\ stage \in [Processes -> RestoreStages]
        /\ todo \in [Processes -> SUBSET Parts] /\ RestoreTypes
    BY DEF RestoreInv, RestoreTypes, Keeping!Restore!TypeOK
  <1>2. /\ live' \in [Parts -> Generations \cup {Absent, Stray}]
        /\ retained' \in [Parts -> Generations \cup {Absent, Stray}]
        /\ \A q \in Parts : q # p => live'[q] = live[q] /\ retained'[q] = retained[q]
        /\ live'[p] = Absent /\ retained'[p] = live[p]
    BY <1>0, <1>1
  <1>3. /\ stage' = [stage EXCEPT !["restore"] = stage'["restore"]]
        /\ stage' \in [Processes -> RestoreStages]
        /\ todo' \in [Processes -> SUBSET Parts]
        /\ \/ stage'["restore"] = "moving" /\ todo'["restore"] = todo["restore"] \ {p}
           \/ /\ stage'["restore"] = "installing" /\ todo'["restore"] = Parts
              /\ todo["restore"] \subseteq {p}
    <2> DEFINE then == [stage |-> "installing", todo |-> Parts]
    <2>1. /\ then.stage \in Exclusive /\ then.todo \in SUBSET Parts
          /\ then.stage = "installing" /\ then.todo = Parts
          /\ Keeping!Restore!Done("restore", p, then)
      BY <1>0 DEF Keeping!Restore!Exclusive
    <2> HIDE DEF then
    <2> QED
      BY <1>0, <1>1, <2>1, DoneFacts
  <1>4. RestoreTypes' /\ (HotInv => HotInv')
    BY <1>0, <1>1, <1>2, <1>3, FilesMove
  <1>5. Exclusively("restore", stage'["restore"])
    BY <1>0, <1>3 DEF Exclusively, Keeping!Restore!Exclusive, RestoreInv, LockInv
  <1>6. ASSUME ~opened PROVE MarkerInv' /\ StageFits("restore")'
    <2>1. MarkerInv /\ StageFits("restore") /\ marker.phase = "prepared"
      BY <1>0, <1>6 DEF RestoreInv, StageFits
    <2>2. Aside(p)'
      <3>1. Settled(p)
        BY <1>0, <2>1 DEF StageFits
      <3> QED
        BY <1>0, <1>2, <3>1 DEF Settled, Aside, Kept
    <2>3. ASSUME NEW q \in Parts, q # p
          PROVE  /\ Settled(q)' <=> Settled(q)
                 /\ Aside(q)' <=> Aside(q)
                 /\ Replaced(q)' <=> Replaced(q)
      <3>1. live'[q] = live[q] /\ retained'[q] = retained[q]
        BY <1>2, <2>3
      <3> QED
        BY <1>0, <3>1, SamePart
    <2>4. MarkerInv'
      <3>1. \A q \in Parts : Settled(q)' \/ Aside(q)' \/ Replaced(q)'
        BY <2>1, <2>2, <2>3 DEF MarkerInv
      <3> QED
        BY <1>0, <2>1, <3>1, StillPrepared
    <2>5. marker'.phase = "prepared" /\ Parts' = Parts
      BY <1>0, <2>1 DEF Keeping!Restore!Parts
    <2>6. \A q \in Parts : staged'[q] = Kept(marker.new, q)'
      BY <1>0, <2>1 DEF StageFits, Kept
    <2>7. CASE stage'["restore"] = "moving" /\ todo'["restore"] = todo["restore"] \ {p}
      <3>1. \A q \in Parts : IF q \in todo'["restore"] THEN Settled(q)' ELSE Aside(q)'
        BY <1>0, <2>1, <2>2, <2>3, <2>7 DEF StageFits
      <3> QED
        BY <2>4, <2>5, <2>6, <2>7, <3>1 DEF StageFits
    <2>8. CASE /\ stage'["restore"] = "installing" /\ todo'["restore"] = Parts
               /\ todo["restore"] \subseteq {p}
      <3>1. \A q \in Parts : Aside(q)'
        BY <1>0, <2>1, <2>2, <2>3, <2>8 DEF StageFits
      <3> QED
        BY <2>4, <2>5, <2>6, <2>8, <3>1 DEF StageFits
    <2> QED
      BY <1>3, <2>7, <2>8
  <1>7. stage["restore"] \in Exclusive /\ opened' = opened
    BY <1>0
  <1> QED
    BY <1>0, <1>3, <1>4, <1>5, <1>6, <1>7, ExclusiveStep DEF RestoreInv

LEMMA InstallNewStep ==
    ASSUME RestoreInv, NEW p \in Parts, Keeping!Restore!InstallNew(p)
    PROVE  RestoreInv'
  <1>0. /\ stage["restore"] = "installing" /\ p \in todo["restore"]
        /\ live' = [live EXCEPT ![p] = staged[p]]
        /\ staged' = [staged EXCEPT ![p] = Absent]
        /\ Keeping!Restore!Done("restore", p, [stage |-> "verifying", todo |-> {}])
        /\ UNCHANGED <<retained, marker, current, has, seen, hot, torn, opened, interruptions>>
        /\ "restore" \in Processes /\ "installing" \in Exclusive
    BY DEF Keeping!Restore!InstallNew, Keeping!Restore!Turn, Keeping!Restore!Exclusive,
       Keeping!Restore!Processes
  <1>1. /\ live \in [Parts -> Generations \cup {Absent, Stray}]
        /\ retained \in [Parts -> Generations \cup {Absent, Stray}]
        /\ staged \in [Parts -> Generations \cup {Absent}]
        /\ stage \in [Processes -> RestoreStages]
        /\ todo \in [Processes -> SUBSET Parts] /\ RestoreTypes
    BY DEF RestoreInv, RestoreTypes, Keeping!Restore!TypeOK
  <1>2. /\ live' \in [Parts -> Generations \cup {Absent, Stray}]
        /\ staged' \in [Parts -> Generations \cup {Absent}]
        /\ \A q \in Parts : q # p => live'[q] = live[q] /\ staged'[q] = staged[q]
        /\ live'[p] = staged[p]
    BY <1>0, <1>1
  <1>3. /\ stage' = [stage EXCEPT !["restore"] = stage'["restore"]]
        /\ stage' \in [Processes -> RestoreStages]
        /\ todo' \in [Processes -> SUBSET Parts]
        /\ \/ stage'["restore"] = "installing" /\ todo'["restore"] = todo["restore"] \ {p}
           \/ stage'["restore"] = "verifying" /\ todo["restore"] \subseteq {p}
    <2> DEFINE then == [stage |-> "verifying", todo |-> {}]
    <2>1. /\ then.stage \in Exclusive /\ then.todo \in SUBSET Parts
          /\ then.stage = "verifying" /\ Keeping!Restore!Done("restore", p, then)
      BY <1>0 DEF Keeping!Restore!Exclusive
    <2> HIDE DEF then
    <2> QED
      BY <1>0, <1>1, <2>1, DoneFacts
  <1>4. RestoreTypes' /\ (HotInv => HotInv')
    BY <1>0, <1>1, <1>2, <1>3, FilesMove
  <1>5. Exclusively("restore", stage'["restore"])
    BY <1>0, <1>3 DEF Exclusively, Keeping!Restore!Exclusive, RestoreInv, LockInv
  <1>6. ASSUME ~opened PROVE MarkerInv' /\ StageFits("restore")'
    <2>1. MarkerInv /\ StageFits("restore") /\ marker.phase = "prepared"
      BY <1>0, <1>6 DEF RestoreInv, StageFits
    <2>2. Replaced(p)'
      <3>1. Aside(p) /\ staged[p] = Kept(marker.new, p)
        BY <1>0, <2>1 DEF StageFits
      <3> QED
        BY <1>0, <1>2, <3>1 DEF Aside, Replaced, Kept
    <2>3. ASSUME NEW q \in Parts, q # p
          PROVE  /\ Settled(q)' <=> Settled(q)
                 /\ Aside(q)' <=> Aside(q)
                 /\ Replaced(q)' <=> Replaced(q)
                 /\ staged'[q] = staged[q]
      <3>1. live'[q] = live[q] /\ retained'[q] = retained[q] /\ staged'[q] = staged[q]
        BY <1>0, <1>2, <2>3
      <3> QED
        BY <1>0, <3>1, SamePart
    <2>4. MarkerInv'
      <3>1. \A q \in Parts : Settled(q)' \/ Aside(q)' \/ Replaced(q)'
        BY <2>1, <2>2, <2>3 DEF MarkerInv
      <3> QED
        BY <1>0, <2>1, <3>1, StillPrepared
    <2>5. marker'.phase = "prepared" /\ Parts' = Parts
      BY <1>0, <2>1 DEF Keeping!Restore!Parts
    <2>6. \A q \in Parts : Kept(marker.new, q)' = Kept(marker.new, q)
      BY <1>0 DEF Kept
    <2>7. CASE stage'["restore"] = "installing" /\ todo'["restore"] = todo["restore"] \ {p}
      <3>1. \A q \in Parts : IF q \in todo'["restore"]
                               THEN Aside(q)' /\ staged'[q] = Kept(marker.new, q)'
                               ELSE Replaced(q)'
        BY <1>0, <2>1, <2>2, <2>3, <2>6, <2>7 DEF StageFits
      <3> QED
        BY <2>4, <2>5, <2>7, <3>1 DEF StageFits
    <2>8. CASE stage'["restore"] = "verifying" /\ todo["restore"] \subseteq {p}
      <3>1. \A q \in Parts : Replaced(q)'
        BY <1>0, <2>1, <2>2, <2>3, <2>8 DEF StageFits
      <3> QED
        BY <2>4, <2>5, <2>8, <3>1 DEF StageFits
    <2> QED
      BY <1>3, <2>7, <2>8
  <1>7. stage["restore"] \in Exclusive /\ opened' = opened
    BY <1>0
  <1> QED
    BY <1>0, <1>3, <1>4, <1>5, <1>6, <1>7, ExclusiveStep DEF RestoreInv

(* A connection that may write is opened: while no marker is there, the    *)
(* database is the deployment's own afterwards, with nothing unfinished.   *)
LEMMA OpensFacts ==
    ASSUME RestoreInv, NEW parts \in SUBSET Parts, Keeping!Restore!Opens(parts)
    PROVE  /\ Keeping!Restore!Opened \in Generations \cup {Stray}
           /\ has' \in [Generations -> SUBSET Parts]
           /\ hot' = Absent /\ torn' \in SUBSET Generations /\ opened' \in BOOLEAN
           /\ ~opened' => /\ ~opened /\ marker = NoMarker
                          /\ Keeping!Restore!Opened = current /\ torn' = {}
                          /\ has'[current] = has[current] \cup parts
  <1>0. /\ live \in [Parts -> Generations \cup {Absent, Stray}]
        /\ has \in [Generations -> SUBSET Parts]
        /\ hot \in Generations \cup {Absent} /\ torn \subseteq Generations /\ opened \in BOOLEAN
        /\ current \in Generations /\ "database" \in Parts
        /\ Absent \notin Generations /\ Stray \notin Generations \cup {Absent}
    BY BridgingAssumption DEF RestoreInv, RestoreTypes, Keeping!Restore!TypeOK,
       Keeping!Restore!Parts, Keeping!Restore!RestoreJournalAssumption
  <1>1. /\ hot' = Absent
        /\ torn' = IF hot = live.database THEN torn \ {hot} ELSE torn
        /\ has' = IF Keeping!Restore!Opened \in Generations
                  THEN [has EXCEPT ![Keeping!Restore!Opened] = @ \cup parts] ELSE has
        /\ opened' = (opened \/ marker # NoMarker)
    BY DEF Keeping!Restore!Opens
  <1>2. live["database"] \in Generations \cup {Absent, Stray}
    BY <1>0
  <1>3. Keeping!Restore!Opened \in Generations \cup {Stray}
    BY <1>0, <1>2 DEF Keeping!Restore!Opened
  <1>4. has' \in [Generations -> SUBSET Parts]
    BY <1>0, <1>1
  <1>5. torn' \in SUBSET Generations /\ opened' \in BOOLEAN
    BY <1>0, <1>1
  <1>6. ASSUME ~opened'
        PROVE  /\ ~opened /\ marker = NoMarker
               /\ Keeping!Restore!Opened = current /\ torn' = {}
               /\ has'[current] = has[current] \cup parts
    <2>1. ~opened /\ marker = NoMarker
      BY <1>1, <1>6
    <2>2. marker.phase = "none"
      BY <2>1 DEF Keeping!Restore!NoMarker
    <2>3. /\ torn \subseteq {hot} /\ hot \in {Absent, current}
          /\ hot = current => "database" \in has[current]
          /\ live["database"] = IF "database" \in has[current] THEN current ELSE Absent
      BY <1>0, <2>1, <2>2 DEF RestoreInv, HotInv, MarkerInv, Kept
    <2>4. Keeping!Restore!Opened = current
      BY <1>0, <2>1, <2>3 DEF Keeping!Restore!Opened
    <2>5. torn' = {}
      <3>1. CASE hot = current
        BY <1>0, <1>1, <2>3, <3>1
      <3>2. CASE hot = Absent
        <4>1. torn = {}
          BY <1>0, <2>3, <3>2
        <4> QED
          BY <1>1, <4>1
      <3> QED
        BY <2>3, <3>1, <3>2
    <2>6. has'[current] = has[current] \cup parts
      BY <1>0, <1>1, <2>4
    <2> QED
      BY <2>1, <2>4, <2>5, <2>6
  <1> QED
    BY <1>1, <1>3, <1>4, <1>5, <1>6

(* Nobody has the lock exclusively, and no database was ever opened with a *)
(* marker there: all parts are the current generation's.                   *)
LEMMA OpenedStep ==
    ASSUME RestoreInv, NEW parts \in SUBSET Parts, Keeping!Restore!Opens(parts),
           Keeping!Restore!Shareable,
           UNCHANGED <<retained, staged, marker, todo, current, seen, interruptions>>,
           live' \in [Parts -> Generations \cup {Absent, Stray}],
           stage' \in [Processes -> {"off", "gap", "up"}],
           stage'["restore"] = stage["restore"],
           ~opened' => \A p \in Parts : live'[p] = Kept(current, p)',
           ~opened' => "database" \in parts
    PROVE  RestoreInv'
  <1>1. /\ has' \in [Generations -> SUBSET Parts]
        /\ hot' = Absent /\ torn' \in SUBSET Generations /\ opened' \in BOOLEAN
        /\ ~opened' => ~opened /\ marker = NoMarker /\ torn' = {}
    BY OpensFacts
  <1>2. RestoreTypes'
    BY <1>1 DEF RestoreInv, RestoreTypes, Keeping!Restore!TypeOK, Keeping!Restore!NoMarker,
       Keeping!Restore!Parts, Keeping!Restore!Processes, Keeping!Restore!Exclusive
  <1>3. stage["restore"] \notin {"gap", "up"}
    BY DEF RestoreInv, LockInv
  <1>4. \A x \in Processes : stage'[x] \in {"off", "gap", "up"}
    OBVIOUS
  <1>5. LockInv'
    BY <1>3, <1>4 DEF LockInv, Keeping!Restore!Exclusive, Keeping!Restore!Processes
  <1>6. ASSUME ~opened' PROVE MarkerInv' /\ HotInv' /\ \A x \in Processes : StageFits(x)'
    <2>1. marker = NoMarker /\ marker' = marker /\ marker'.phase = "none" /\ MarkerInv
      BY <1>1, <1>6 DEF Keeping!Restore!NoMarker, RestoreInv
    <2>2. retained' = NoParts /\ staged' = NoParts /\ Parts' = Parts
          /\ NoParts' = NoParts
      BY <2>1 DEF MarkerInv, Keeping!Restore!Parts, Keeping!Restore!NoParts
    <2>3. MarkerInv'
      BY <1>6, <2>1, <2>2 DEF MarkerInv
    <2>4. Absent \notin Generations /\ current \in Generations
      BY BridgingAssumption DEF Keeping!Restore!RestoreJournalAssumption, RestoreInv,
         RestoreTypes, Keeping!Restore!TypeOK
    <2>5. HotInv'
      BY <1>1, <1>6, <2>4 DEF HotInv
    <2>6. \A x \in Processes : StageFits(x)'
      BY <1>4, <2>1 DEF StageFits
    <2> QED
      BY <2>3, <2>5, <2>6
  <1>7. Processes' = Processes
    BY DEF Keeping!Restore!Processes
  <1> QED
    BY <1>2, <1>5, <1>6, <1>7 DEF RestoreInv

LEMMA StartStep ==
    ASSUME RestoreInv, Keeping!Restore!Start
    PROVE  RestoreInv'
  <1>0. /\ live \in [Parts -> Generations \cup {Absent, Stray}]
        /\ has \in [Generations -> SUBSET Parts] /\ current \in Generations
        /\ stage \in [Processes -> RestoreStages]
        /\ "database" \in Parts /\ "media" \in Parts /\ Parts \in SUBSET Parts
        /\ Absent \notin Generations
    BY BridgingAssumption DEF RestoreInv, RestoreTypes, Keeping!Restore!TypeOK,
       Keeping!Restore!Parts, Keeping!Restore!RestoreJournalAssumption
  <1>1. /\ Keeping!Restore!Shareable /\ Keeping!Restore!Opens(Parts)
        /\ stage' = [stage EXCEPT !["bridge"] = "up"]
        /\ live' = [live EXCEPT !.database = Keeping!Restore!Opened,
                                !.media = IF @ = Absent THEN Keeping!Restore!Opened ELSE @]
        /\ UNCHANGED <<retained, staged, marker, todo, current, seen, interruptions>>
    BY DEF Keeping!Restore!Start
  <1>2. /\ Keeping!Restore!Opened \in Generations \cup {Stray}
        /\ ~opened' => /\ ~opened /\ marker = NoMarker /\ Keeping!Restore!Opened = current
                       /\ has'[current] = has[current] \cup Parts
    BY <1>0, <1>1, OpensFacts
  <1>3. /\ live' \in [Parts -> Generations \cup {Absent, Stray}]
        /\ live'["database"] = Keeping!Restore!Opened
        /\ live'["media"] = IF live["media"] = Absent THEN Keeping!Restore!Opened
                            ELSE live["media"]
    BY <1>0, <1>1, <1>2
  <1>4. /\ stage' \in [Processes -> {"off", "gap", "up"}]
        /\ stage'["restore"] = stage["restore"]
    BY <1>0, <1>1 DEF Keeping!Restore!Shareable, Keeping!Restore!Processes
  <1>5. ASSUME ~opened' PROVE \A p \in Parts : live'[p] = Kept(current, p)'
    <2>1. live["media"] \in {Absent, current}
      <3>1. MarkerInv /\ marker.phase = "none"
        BY <1>2, <1>5 DEF RestoreInv, Keeping!Restore!NoMarker
      <3> QED
        BY <1>0, <3>1 DEF MarkerInv, Kept
    <2>2. live'["database"] = current /\ live'["media"] = current
      BY <1>0, <1>2, <1>3, <1>5, <2>1
    <2>3. current' = current /\ has'[current] = Parts
      BY <1>0, <1>1, <1>2, <1>5
    <2> QED
      BY <2>2, <2>3 DEF Kept, Keeping!Restore!Parts
  <1> QED
    BY <1>0, <1>1, <1>3, <1>4, <1>5, OpenedStep

LEMMA BackupStep ==
    ASSUME RestoreInv, Keeping!Restore!Backup
    PROVE  RestoreInv'
  <1>0. /\ live \in [Parts -> Generations \cup {Absent, Stray}]
        /\ has \in [Generations -> SUBSET Parts] /\ current \in Generations
        /\ stage \in [Processes -> RestoreStages]
        /\ "database" \in Parts /\ {"database"} \in SUBSET Parts
        /\ Absent \notin Generations
    BY BridgingAssumption DEF RestoreInv, RestoreTypes, Keeping!Restore!TypeOK,
       Keeping!Restore!Parts, Keeping!Restore!RestoreJournalAssumption
  <1>1. /\ Keeping!Restore!Shareable /\ Keeping!Restore!Opens({"database"})
        /\ live' = [live EXCEPT !.database = Keeping!Restore!Opened]
        /\ UNCHANGED <<retained, staged, marker, stage, todo, current, seen, interruptions>>
    BY DEF Keeping!Restore!Backup
  <1>2. /\ Keeping!Restore!Opened \in Generations \cup {Stray}
        /\ ~opened' => /\ ~opened /\ marker = NoMarker /\ Keeping!Restore!Opened = current
                       /\ has'[current] = has[current] \cup {"database"}
    BY <1>0, <1>1, OpensFacts
  <1>3. /\ live' \in [Parts -> Generations \cup {Absent, Stray}]
        /\ live'["database"] = Keeping!Restore!Opened
        /\ \A p \in Parts : p # "database" => live'[p] = live[p]
    BY <1>0, <1>1, <1>2
  <1>4. /\ stage' \in [Processes -> {"off", "gap", "up"}]
        /\ stage'["restore"] = stage["restore"]
    BY <1>0, <1>1 DEF Keeping!Restore!Shareable, Keeping!Restore!Processes
  <1>5. ASSUME ~opened' PROVE \A p \in Parts : live'[p] = Kept(current, p)'
    <2>1. \A p \in Parts : live[p] = Kept(current, p)
      <3>1. MarkerInv /\ marker.phase = "none"
        BY <1>2, <1>5 DEF RestoreInv, Keeping!Restore!NoMarker
      <3> QED
        BY <3>1 DEF MarkerInv
    <2>2. current' = current /\ has'[current] = has[current] \cup {"database"}
          /\ live'["database"] = current
      BY <1>1, <1>2, <1>3, <1>5
    <2> QED
      BY <1>0, <1>3, <2>1, <2>2 DEF Kept
  <1> QED
    BY <1>0, <1>1, <1>3, <1>4, <1>5, OpenedStep

LEMMA RestoreStep ==
    ASSUME RestoreInv, [Keeping!Restore!Next]_restoreVars
    PROVE  RestoreInv'
  <1>1. ASSUME NEW x \in Processes,
               \/ Keeping!Restore!Acquire(x)
               \/ Keeping!Restore!NothingToRecover(x)
               \/ Keeping!Restore!RollForward(x) \/ Keeping!Restore!RollBack(x)
               \/ \E p \in Parts :
                     Keeping!Restore!RemoveLive(x, p) \/ Keeping!Restore!PutBack(x, p)
               \/ Keeping!Restore!Clean(x) \/ Keeping!Restore!Unlink(x)
               \/ Keeping!Restore!Stop(x)
        PROVE  RestoreInv'
    BY <1>1, AcquireStep, RecoverySteps, RemoveLiveStep, PutBackStep, CleanStep, UnlinkStep,
       GivingUpSteps
  <1>2. CASE Keeping!Restore!Refuse \/ Keeping!Restore!Shutdown
    BY <1>2, GivingUpSteps
  <1>3. CASE \E g \in Generations : Keeping!Restore!Publish(g)
    BY <1>3, PublishStep
  <1>4. CASE \E p \in Parts : Keeping!Restore!MoveOld(p) \/ Keeping!Restore!InstallNew(p)
    BY <1>4, MoveOldStep, InstallNewStep
  <1>5. CASE Keeping!Restore!Commit
    BY <1>5, CommitStep
  <1>6. CASE Keeping!Restore!Start \/ Keeping!Restore!DieInTransaction \/ Keeping!Restore!Backup
    BY <1>6, StartStep, DieStep, BackupStep
  <1>7. CASE UNCHANGED restoreVars
    BY <1>7 DEF restoreVars, RestoreInv, RestoreTypes, LockInv, MarkerInv, HotInv, StageFits,
       Settled, Aside, Replaced, Kept, Keeping!Restore!TypeOK, Keeping!Restore!NoMarker,
       Keeping!Restore!NoParts, Keeping!Restore!Parts, Keeping!Restore!Processes,
       Keeping!Restore!Exclusive
  <1> QED
    BY <1>1, <1>2, <1>3, <1>4, <1>5, <1>6, <1>7 DEF Keeping!Restore!Next

LEMMA RestoreWhole == RestoreInv => RecoversWhole
  <1> SUFFICES ASSUME RestoreInv, marker = NoMarker, ~opened
               PROVE  Keeping!Restore!Whole
    BY DEF RecoversWhole, Keeping!Restore!RecoversWhole
  <1>1. MarkerInv /\ HotInv /\ marker.phase = "none"
    BY DEF RestoreInv, Keeping!Restore!NoMarker
  <1>2. live \in [Parts -> Generations \cup {Absent, Stray}]
    BY DEF RestoreInv, RestoreTypes, Keeping!Restore!TypeOK
  <1>3. \A p \in Parts : live[p] = IF p \in has[current] THEN current ELSE Absent
    BY <1>1 DEF MarkerInv, Kept
  <1>4. live = Keeping!Restore!Image(current)
    BY <1>2, <1>3 DEF Keeping!Restore!Image
  <1> QED
    BY <1>1, <1>4 DEF HotInv, Keeping!Restore!Whole

-----------------------------------------------------------------------------
(* Comments below a personal-feed post: their types, with what the bound   *)
(* on attempts rests on.  MessagesProofs has what else there is to prove.  *)

FeedClaims == [comment : FeedComments, body : Keeping!Feed!Revisions, deleted : BOOLEAN,
               message : Nat]
Texts == Seq(Keeping!Feed!Revisions \cup {Gone})

\* What has not ended has an attempt left.
AttemptFits(c) == state[c] \in Keeping!Feed!Ended \/ feedAttempts[c] < MaxFeedAttempts

\* What is due has been admitted.
DueFits(c) == Keeping!Feed!Known(c) \/ state[c] = "none"

FeedInv ==
    /\ Keeping!Feed!TypeOK
    /\ phase # "idle" => batch # <<>>
    /\ \A c \in FeedComments : AttemptFits(c) /\ DueFits(c)
    /\ \A k \in 1..Len(batch) : state[batch[k].comment] # "none"

\* The rows of the deliveries, and the comments they are about.
DeliveryTypes ==
    /\ state \in [FeedComments -> Keeping!Feed!States]
    /\ feedAttempts \in [FeedComments -> 0..MaxFeedAttempts]
    /\ \A c \in FeedComments : AttemptFits(c) /\ DueFits(c)
ObjectTypes ==
    /\ feedRows \in Seq(FeedComments)
    /\ parent \in [FeedComments -> FeedComments \cup {Root}]
    /\ content \in [FeedComments -> Keeping!Feed!Revisions]
    /\ removed \subseteq FeedComments
WorkerTypes ==
    /\ batch \in Seq(FeedClaims)
    /\ phase \in Keeping!Feed!Phases
    /\ phase # "idle" => batch # <<>>
    /\ \A k \in 1..Len(batch) : state[batch[k].comment] # "none"
ThreadTypes ==
    /\ message \in [FeedComments -> Nat]
    /\ shown \in [FeedComments -> Texts]
    /\ bound \in BOOLEAN
    /\ unwoken \subseteq FeedComments
    /\ feedFaults \in 0..MaxFeedFaults

LEMMA FeedParts ==
    /\ FeedInv <=> DeliveryTypes /\ ObjectTypes /\ WorkerTypes /\ ThreadTypes
    /\ FeedInv' <=> DeliveryTypes' /\ ObjectTypes' /\ WorkerTypes' /\ ThreadTypes'
  <1>1. FeedInv <=> DeliveryTypes /\ ObjectTypes /\ WorkerTypes /\ ThreadTypes
    BY DEF FeedInv, Keeping!Feed!TypeOK, DeliveryTypes, ObjectTypes, WorkerTypes, ThreadTypes,
       FeedClaims, Texts
  <1>2. FeedInv' <=> DeliveryTypes' /\ ObjectTypes' /\ WorkerTypes' /\ ThreadTypes'
    BY DEF FeedInv, Keeping!Feed!TypeOK, DeliveryTypes, ObjectTypes, WorkerTypes, ThreadTypes,
       FeedClaims, Texts
  <1> QED
    BY <1>1, <1>2

LEMMA FeedFacts ==
    /\ Root \notin FeedComments /\ MaxRevision \in Nat /\ MaxFeedFaults \in Nat
    /\ ClaimLimit \in Nat \ {0} /\ MaxFeedAttempts \in Nat \ {0}
    /\ 0 \in Keeping!Feed!Revisions /\ 0 \in 0..MaxFeedAttempts /\ 0 < MaxFeedAttempts
    /\ 0 \in 0..MaxFeedFaults
    /\ Keeping!Feed!Ended = {"suppressed", "failed", "delivered"}
    /\ Keeping!Feed!States = {"suppressed", "failed", "delivered", "none", "pending_parent",
                              "ready", "dispatching"}
  <1>1. Keeping!Feed!PersonalFeedAssumption
    BY BridgingAssumption
  <1> QED
    BY <1>1 DEF Keeping!Feed!PersonalFeedAssumption, Keeping!Feed!Revisions,
       Keeping!Feed!Ended, Keeping!Feed!States

LEMMA FeedInit == Keeping!Feed!Init => FeedInv
  <1> SUFFICES ASSUME Keeping!Feed!Init PROVE FeedInv
    OBVIOUS
  <1>1. DeliveryTypes
    BY FeedFacts DEF Keeping!Feed!Init, DeliveryTypes, AttemptFits, DueFits
  <1>2. ObjectTypes
    BY FeedFacts DEF Keeping!Feed!Init, ObjectTypes
  <1>3. WorkerTypes
    BY DEF Keeping!Feed!Init, WorkerTypes, Keeping!Feed!Phases
  <1>4. ThreadTypes
    <2>1. shown \in [FeedComments -> Texts]
      BY DEF Keeping!Feed!Init, Texts
    <2> QED
      BY <2>1, FeedFacts DEF Keeping!Feed!Init, ThreadTypes
  <1> QED
    BY <1>1, <1>2, <1>3, <1>4, FeedParts

(* A row that moves on: it ends, has an attempt left or is left alone, is  *)
(* not forgotten, and is due only if its comment was admitted.             *)
DeliveryMoves(c) ==
    /\ \/ state'[c] \in Keeping!Feed!Ended
       \/ feedAttempts'[c] < MaxFeedAttempts
       \/ feedAttempts'[c] = feedAttempts[c] /\ state[c] \notin Keeping!Feed!Ended
       \/ feedAttempts'[c] = feedAttempts[c] /\ state'[c] = state[c]
    /\ state[c] # "none" => state'[c] # "none"
    /\ state'[c] # "none" => Keeping!Feed!Known(c)'

ClaimsLeft ==
    /\ batch' \in {batch, <<>>} \/ (batch # <<>> /\ batch' = Tail(batch))
    /\ phase' \in Keeping!Feed!Phases
    /\ phase' # "idle" => batch' # <<>>

LEMMA RowsHold ==
    ASSUME DeliveryTypes, state' \in [FeedComments -> Keeping!Feed!States],
           feedAttempts' \in [FeedComments -> 0..MaxFeedAttempts],
           \A c \in FeedComments : DeliveryMoves(c)
    PROVE  DeliveryTypes'
  BY DEF DeliveryTypes, AttemptFits, DueFits, DeliveryMoves

LEMMA FeedMoves ==
    ASSUME FeedInv, state' \in [FeedComments -> Keeping!Feed!States],
           feedAttempts' \in [FeedComments -> 0..MaxFeedAttempts],
           \A c \in FeedComments : DeliveryMoves(c),
           ObjectTypes', ThreadTypes', ClaimsLeft
    PROVE  FeedInv'
  <1>1. DeliveryTypes /\ WorkerTypes
    BY FeedParts
  <1>2. DeliveryTypes'
    BY <1>1, RowsHold
  <1>3. WorkerTypes'
    <2>1. \A k \in 1..Len(batch) : state'[batch[k].comment] # "none"
      <3>1. \A k \in 1..Len(batch) : batch[k] \in FeedClaims
        BY <1>1 DEF WorkerTypes
      <3>2. \A k \in 1..Len(batch) : batch[k].comment \in FeedComments
        BY <3>1 DEF FeedClaims
      <3> QED
        BY <1>1, <3>2 DEF WorkerTypes, DeliveryMoves
    <2>2. CASE batch' = batch
      BY <1>1, <2>1, <2>2 DEF WorkerTypes, ClaimsLeft
    <2>3. CASE batch' = <<>>
      BY <1>1, <2>3 DEF WorkerTypes, ClaimsLeft
    <2>4. CASE batch # <<>> /\ batch' = Tail(batch)
      <3>1. /\ batch' \in Seq(FeedClaims)
            /\ \A k \in 1..Len(batch') : k + 1 \in 1..Len(batch) /\ batch'[k] = batch[k + 1]
        BY <1>1, <2>4 DEF WorkerTypes
      <3>2. \A k \in 1..Len(batch') : state'[batch'[k].comment] # "none"
        BY <2>1, <3>1
      <3> QED
        BY <3>1, <3>2 DEF WorkerTypes, ClaimsLeft
    <2> QED
      BY <2>2, <2>3, <2>4 DEF ClaimsLeft
  <1> QED
    BY <1>2, <1>3, FeedParts

(* The rows with one admitted that was not known.                          *)
AdmitsOnly(c, old) ==
    /\ old \in [FeedComments -> Keeping!Feed!States]
    /\ \A e \in FeedComments :
          \/ old[e] = state[e] /\ (state[e] # "none" => Keeping!Feed!Known(e)')
          \/ /\ e = c /\ state[e] = "none" /\ old[e] \in {"ready", "pending_parent"}
             /\ Keeping!Feed!Known(e)'

LEMMA AdmitFacts ==
    ASSUME DeliveryTypes, ObjectTypes, NEW c \in FeedComments,
           NEW p \in FeedComments \cup {Root},
           Keeping!Feed!AdmitCreate(c, p), UNCHANGED <<content, removed>>,
           NEW old, old = IF Keeping!Feed!Known(c) THEN state ELSE Keeping!Feed!Admitted(c, p)
    PROVE  ObjectTypes' /\ AdmitsOnly(c, old)
  <1>1. CASE Keeping!Feed!Known(c)
    BY <1>1
    DEF Keeping!Feed!AdmitCreate, ObjectTypes, DeliveryTypes, AdmitsOnly, DueFits,
        Keeping!Feed!Known
  <1>2. CASE ~Keeping!Feed!Known(c)
    <2>1. feedRows' = Append(feedRows, c) /\ parent' = [parent EXCEPT ![c] = p]
      BY <1>2 DEF Keeping!Feed!AdmitCreate
    <2>2. /\ feedRows' \in Seq(FeedComments) /\ Len(feedRows') = Len(feedRows) + 1
          /\ Len(feedRows) \in Nat
          /\ \A i \in 1..Len(feedRows) : feedRows'[i] = feedRows[i]
          /\ feedRows'[Len(feedRows) + 1] = c
      BY <2>1 DEF ObjectTypes
    <2>3. ObjectTypes'
      BY <2>1, <2>2 DEF ObjectTypes
    <2>4. \A e : Keeping!Feed!Known(e) \/ e = c => Keeping!Feed!Known(e)'
      <3>1. Len(feedRows) + 1 \in 1..Len(feedRows')
        BY <2>2
      <3>2. \A i \in 1..Len(feedRows) : i \in 1..Len(feedRows')
        BY <2>2
      <3> QED
        BY <2>2, <3>1, <3>2 DEF Keeping!Feed!Known
    <2>5. /\ state[c] = "none" /\ old \in [FeedComments -> Keeping!Feed!States]
          /\ old[c] \in {"ready", "pending_parent"}
          /\ \A e \in FeedComments \ {c} : old[e] = state[e]
      BY <1>2, FeedFacts DEF Keeping!Feed!Admitted, DeliveryTypes, DueFits
    <2>6. \A e \in FeedComments : state[e] # "none" => Keeping!Feed!Known(e)'
      BY <2>4 DEF DeliveryTypes, DueFits
    <2> QED
      BY <2>3, <2>4, <2>5, <2>6 DEF AdmitsOnly
  <1> QED
    BY <1>1, <1>2

LEMMA FeedEventStep == ASSUME FeedInv, Keeping!Feed!Events PROVE FeedInv'
  <1>1. DeliveryTypes /\ ObjectTypes /\ WorkerTypes /\ ThreadTypes
    BY FeedParts
  <1>2. CASE Keeping!Feed!ChangeBinding
    BY <1>1, <1>2, FeedParts
    DEF Keeping!Feed!ChangeBinding, Keeping!Feed!objectVars, Keeping!Feed!deliveryVars,
        Keeping!Feed!workerVars, DeliveryTypes, ObjectTypes, WorkerTypes, ThreadTypes,
        AttemptFits, DueFits, Keeping!Feed!Known
  <1>3. ASSUME NEW c \in FeedComments, Keeping!Feed!Known(c), UNCHANGED feedRows,
               \/ UNCHANGED <<state, feedAttempts>>
               \/ Keeping!Feed!Reopen(c)
               \/ state' = [state EXCEPT ![c] = "suppressed"] /\ UNCHANGED feedAttempts
        PROVE  /\ state' \in [FeedComments -> Keeping!Feed!States]
               /\ feedAttempts' \in [FeedComments -> 0..MaxFeedAttempts]
               /\ \A e \in FeedComments : DeliveryMoves(e)
    <2>1. /\ state' \in [FeedComments -> Keeping!Feed!States]
          /\ feedAttempts' \in [FeedComments -> 0..MaxFeedAttempts]
      BY <1>1, <1>3, FeedFacts DEF Keeping!Feed!Reopen, DeliveryTypes
    <2>2. \A e \in FeedComments : DeliveryMoves(e)
      BY <1>1, <1>3, FeedFacts
      DEF Keeping!Feed!Reopen, DeliveryTypes, DeliveryMoves, DueFits, Keeping!Feed!Known
    <2> QED
      BY <2>1, <2>2
  <1>4. ASSUME NEW c \in FeedComments, NEW v \in Keeping!Feed!Revisions,
               Keeping!Feed!HandleUpdate(c, v)
        PROVE  FeedInv'
    <2>1. ObjectTypes' /\ ThreadTypes' /\ ClaimsLeft
      BY <1>1, <1>4
      DEF Keeping!Feed!HandleUpdate, Keeping!Feed!workerVars, ObjectTypes, WorkerTypes,
          ThreadTypes, ClaimsLeft
    <2>2. /\ Keeping!Feed!Known(c) /\ UNCHANGED feedRows
          /\ UNCHANGED <<state, feedAttempts>> \/ Keeping!Feed!Reopen(c)
      BY <1>4 DEF Keeping!Feed!HandleUpdate
    <2> QED
      BY <1>3, <2>1, <2>2, FeedMoves
  <1>5. ASSUME NEW c \in FeedComments, Keeping!Feed!HandleDelete(c)
        PROVE  FeedInv'
    <2>1. ObjectTypes' /\ ThreadTypes' /\ ClaimsLeft
      BY <1>1, <1>5
      DEF Keeping!Feed!HandleDelete, Keeping!Feed!workerVars, ObjectTypes, WorkerTypes,
          ThreadTypes, ClaimsLeft
    <2>2. /\ Keeping!Feed!Known(c) /\ UNCHANGED feedRows
          /\ \/ state' = [state EXCEPT ![c] = "suppressed"] /\ UNCHANGED feedAttempts
             \/ Keeping!Feed!Reopen(c)
      BY <1>5 DEF Keeping!Feed!HandleDelete
    <2> QED
      BY <1>3, <2>1, <2>2, FeedMoves
  <1>6. ASSUME NEW c \in FeedComments, NEW p \in (FeedComments \ {c}) \cup {Root},
               Keeping!Feed!HandleCreate(c, p)
        PROVE  FeedInv'
    <2>1. ThreadTypes' /\ ClaimsLeft
      BY <1>1, <1>6
      DEF Keeping!Feed!HandleCreate, Keeping!Feed!workerVars, WorkerTypes, ThreadTypes,
          ClaimsLeft
    <2>2. Keeping!Feed!AdmitCreate(c, p) /\ UNCHANGED <<content, removed, feedAttempts>>
      BY <1>6 DEF Keeping!Feed!HandleCreate
    <2>3. PICK old : /\ old = IF Keeping!Feed!Known(c) THEN state
                              ELSE Keeping!Feed!Admitted(c, p)
                     /\ state' = Keeping!Feed!Woken(old, c)
      BY <1>6 DEF Keeping!Feed!HandleCreate
    <2>4. ObjectTypes' /\ AdmitsOnly(c, old)
      BY <1>1, <2>2, <2>3, AdmitFacts
    <2>5. /\ \A e \in FeedComments : state'[e] = old[e]
                 \/ (old[e] = "pending_parent" /\ state'[e] = "ready")
          /\ DOMAIN state' = FeedComments /\ state' = [e \in FeedComments |-> state'[e]]
      <3>1. state' = [e \in FeedComments |->
                         IF old[e] = "pending_parent" /\ parent[e] = c THEN "ready" ELSE old[e]]
        BY <2>3 DEF Keeping!Feed!Woken
      <3>2. /\ DOMAIN state' = FeedComments
            /\ \A e \in FeedComments :
                  state'[e] = IF old[e] = "pending_parent" /\ parent[e] = c THEN "ready"
                              ELSE old[e]
        BY <3>1
      <3>3. state' = [e \in FeedComments |-> state'[e]]
        BY <3>1, <3>2, Zenon
      <3>4. \A e \in FeedComments : state'[e] = old[e]
               \/ (old[e] = "pending_parent" /\ state'[e] = "ready")
        BY <3>2
      <3> QED
        BY <3>2, <3>3, <3>4, Zenon
    <2>6. state' \in [FeedComments -> Keeping!Feed!States]
      BY <2>4, <2>5, FeedFacts DEF AdmitsOnly
    <2>7. \A e \in FeedComments : DeliveryMoves(e)
      BY <1>1, <2>2, <2>4, <2>5, FeedFacts DEF AdmitsOnly, DeliveryMoves, DeliveryTypes
    <2> QED
      BY <1>1, <2>1, <2>2, <2>4, <2>6, <2>7, FeedMoves DEF DeliveryTypes
  <1> QED
    BY <1>2, <1>4, <1>5, <1>6 DEF Keeping!Feed!Events

(* The claims of a pass are of deliveries that are due.                    *)
LEMMA ClaimDueStep ==
    ASSUME FeedInv, NEW due \in SUBSET Keeping!Feed!Ready, Keeping!Feed!ClaimDue(due)
    PROVE  FeedInv'
  <1>1. DeliveryTypes /\ ObjectTypes /\ WorkerTypes /\ ThreadTypes
    BY FeedParts
  <1>2. PICK n \in 1..ClaimLimit : \E t \in [1..n -> due] :
           /\ batch' = [i \in 1..n |-> Keeping!Feed!Claim(t[i])]
           /\ state' = [c \in FeedComments |->
                           IF Keeping!Feed!Contains(t, c) THEN "dispatching" ELSE state[c]]
    BY DEF Keeping!Feed!ClaimDue
  <1> PICK taken \in [1..n -> due] :
           /\ batch' = [i \in 1..n |-> Keeping!Feed!Claim(taken[i])]
           /\ state' = [c \in FeedComments |->
                           IF Keeping!Feed!Contains(taken, c) THEN "dispatching" ELSE state[c]]
    BY <1>2
  <1>3. UNCHANGED <<feedRows, parent, content, removed, feedAttempts, message, shown, bound,
                    phase, unwoken, feedFaults>>
    BY DEF Keeping!Feed!ClaimDue, Keeping!Feed!objectVars
  <1>4. ObjectTypes' /\ ThreadTypes'
    BY <1>1, <1>3 DEF ObjectTypes, ThreadTypes
  <1>5. \A i \in 1..n : /\ taken[i] \in FeedComments /\ state[taken[i]] = "ready"
                        /\ Keeping!Feed!Contains(taken, taken[i])
    BY DEF Keeping!Feed!Ready, Keeping!Feed!Contains
  <1>6. DeliveryTypes'
    <2>1. \A c \in FeedComments : Keeping!Feed!Contains(taken, c) => state[c] = "ready"
      <3>1. n \in Nat /\ Len(taken) = n
        BY FeedFacts
      <3> QED
        BY <1>5, <3>1 DEF Keeping!Feed!Contains
    <2>2. state' \in [FeedComments -> Keeping!Feed!States]
      BY <1>1, <1>2, FeedFacts DEF DeliveryTypes
    <2>3. \A c \in FeedComments : DeliveryMoves(c)
      BY <1>1, <1>2, <1>3, <2>1, FeedFacts DEF DeliveryTypes, DeliveryMoves, DueFits,
         Keeping!Feed!Known
    <2> QED
      BY <1>1, <1>3, <2>2, <2>3, RowsHold DEF DeliveryTypes
  <1>7. WorkerTypes'
    <2>1. \A i \in 1..n : /\ Keeping!Feed!Claim(taken[i]) \in FeedClaims
                          /\ Keeping!Feed!Claim(taken[i]).comment = taken[i]
      BY <1>1, <1>5 DEF Keeping!Feed!Claim, FeedClaims, ObjectTypes, ThreadTypes
    <2>2. n \in Nat /\ n >= 1
      BY FeedFacts
    <2>3. /\ batch' \in Seq(FeedClaims) /\ Len(batch') = n
          /\ \A i \in 1..n : batch'[i].comment = taken[i]
      BY <1>2, <2>1, <2>2
    <2>4. batch' # <<>>
      BY <2>2, <2>3
    <2>5. \A i \in 1..n : state'[taken[i]] = "dispatching"
      BY <1>2, <1>5
    <2>6. \A i \in 1..Len(batch') : state'[batch'[i].comment] # "none"
      BY <2>3, <2>5
    <2>7. phase' \in Keeping!Feed!Phases
      BY <1>1, <1>3 DEF WorkerTypes
    <2> QED
      BY <2>3, <2>4, <2>6, <2>7 DEF WorkerTypes
  <1> QED
    BY <1>4, <1>6, <1>7, FeedParts

(* The comment of the first claim has a row and is due.                    *)
LEMMA CurrentFacts ==
    ASSUME FeedInv, batch # <<>>
    PROVE  /\ Keeping!Feed!Current \in FeedClaims
           /\ Keeping!Feed!Current.comment \in FeedComments
           /\ Keeping!Feed!Known(Keeping!Feed!Current.comment)
           /\ state[Keeping!Feed!Current.comment] # "none"
  <1>1. DeliveryTypes /\ WorkerTypes
    BY FeedParts
  <1>2. Keeping!Feed!Current = batch[1] /\ 1 \in 1..Len(batch) /\ batch[1] \in FeedClaims
    BY <1>1 DEF WorkerTypes, Keeping!Feed!Current
  <1>3. batch[1].comment \in FeedComments
    BY <1>2 DEF FeedClaims
  <1> QED
    BY <1>1, <1>2, <1>3 DEF WorkerTypes, DeliveryTypes, DueFits

(* What the worker makes of the row of its claim.                          *)
LEMMA RecordFacts ==
    ASSUME FeedInv, batch # <<>>, UNCHANGED feedRows,
           NEW c, c = Keeping!Feed!Current.comment,
           \/ /\ UNCHANGED <<feedAttempts, message>>
              /\ state' = state \/ state' = [state EXCEPT ![c] = "suppressed"]
           \/ \E ok \in BOOLEAN : Keeping!Feed!RecordAttempt(ok)
    PROVE  /\ state' \in [FeedComments -> Keeping!Feed!States]
           /\ feedAttempts' \in [FeedComments -> 0..MaxFeedAttempts]
           /\ message' \in [FeedComments -> Nat]
           /\ \A e \in FeedComments : DeliveryMoves(e)
  <1>1. DeliveryTypes /\ ThreadTypes
    BY FeedParts
  <1>2. c \in FeedComments /\ Keeping!Feed!Known(c) /\ state[c] # "none"
    BY CurrentFacts
  <1>3. \A e \in FeedComments : state[e] # "none" => Keeping!Feed!Known(e)'
    BY <1>1 DEF DeliveryTypes, DueFits, Keeping!Feed!Known
  <1>4. CASE /\ UNCHANGED <<feedAttempts, message>>
             /\ state' = state \/ state' = [state EXCEPT ![c] = "suppressed"]
    BY <1>1, <1>2, <1>3, <1>4, FeedFacts DEF DeliveryTypes, ThreadTypes, DeliveryMoves
  <1>5. ASSUME NEW ok \in BOOLEAN, Keeping!Feed!RecordAttempt(ok),
               state[c] \notin Keeping!Feed!Ended
        PROVE  /\ state' \in [FeedComments -> Keeping!Feed!States]
               /\ feedAttempts' \in [FeedComments -> 0..MaxFeedAttempts]
               /\ message' \in [FeedComments -> Nat]
               /\ \A e \in FeedComments : DeliveryMoves(e)
    <2>1. PICK n : n = feedAttempts[c] + 1
      OBVIOUS
    <2>2. n \in 0..MaxFeedAttempts
      BY <1>1, <1>2, <1>5, <2>1, FeedFacts DEF DeliveryTypes, AttemptFits
    <2>3. PICK s : /\ s = IF ok THEN "delivered"
                          ELSE IF Keeping!Feed!GivesUp(n) THEN "failed" ELSE "ready"
                   /\ state' = [state EXCEPT ![c] = s]
                   /\ feedAttempts' = [feedAttempts EXCEPT ![c] = n]
      BY <1>5, <2>1 DEF Keeping!Feed!RecordAttempt, Keeping!Feed!Ignored
    <2>4. s \in {"delivered", "failed"} \/ (s = "ready" /\ n < MaxFeedAttempts)
      BY <2>2, <2>3, FeedFacts DEF Keeping!Feed!GivesUp
    <2>5. message' = message \/ message' = [message EXCEPT ![c] = Len(shown[c])]
      BY <1>5 DEF Keeping!Feed!RecordAttempt, Keeping!Feed!Ignored
    <2>6. Len(shown[c]) \in Nat
      BY <1>1, <1>2 DEF ThreadTypes, Texts
    <2>7. message' \in [FeedComments -> Nat]
      BY <1>1, <2>5, <2>6 DEF ThreadTypes
    <2>8. /\ state' \in [FeedComments -> Keeping!Feed!States]
          /\ feedAttempts' \in [FeedComments -> 0..MaxFeedAttempts]
      BY <1>1, <2>2, <2>3, <2>4, FeedFacts DEF DeliveryTypes
    <2>9. ASSUME NEW e \in FeedComments PROVE DeliveryMoves(e)
      <3>1. CASE e = c
        <4>1. state'[e] = s /\ feedAttempts'[e] = n /\ Keeping!Feed!Known(e)'
          BY <1>1, <1>2, <1>3, <2>3, <3>1 DEF DeliveryTypes
        <4> QED
          BY <2>4, <4>1, FeedFacts DEF DeliveryMoves
      <3>2. CASE e # c
        <4>1. state'[e] = state[e] /\ feedAttempts'[e] = feedAttempts[e]
          BY <1>1, <2>3, <3>2 DEF DeliveryTypes
        <4> QED
          BY <1>3, <4>1 DEF DeliveryMoves
      <3> QED
        BY <3>1, <3>2
    <2> QED
      BY <2>7, <2>8, <2>9
  <1>6. ASSUME NEW ok \in BOOLEAN, Keeping!Feed!RecordAttempt(ok),
               state[c] \in Keeping!Feed!Ended
        PROVE  UNCHANGED <<feedAttempts, message>> /\ state' = state
    BY <1>6 DEF Keeping!Feed!RecordAttempt, Keeping!Feed!Ignored, Keeping!Feed!deliveryVars
  <1> QED
    BY <1>4, <1>5, <1>6

(* What Discord has of a comment after the call on claim b.                *)
LEMMA EffectFacts ==
    ASSUME ThreadTypes, NEW b \in FeedClaims
    PROVE  Keeping!Feed!Effect(b) \in [FeedComments -> Texts]
  <1>1. /\ b.comment \in FeedComments /\ b.body \in Keeping!Feed!Revisions
        /\ shown \in [FeedComments -> Texts]
    BY DEF FeedClaims, ThreadTypes
  <1>2. PICK old \in Texts : old = shown[b.comment]
    BY <1>1
  <1>3. PICK new \in Texts :
           Keeping!Feed!Effect(b) = [shown EXCEPT ![b.comment] = new]
    <2>1. CASE b.message = 0
      <3>1. Append(old, b.body) \in Texts
        BY <1>1 DEF Texts
      <3> QED
        BY <1>2, <2>1, <3>1 DEF Keeping!Feed!Effect
    <2>2. CASE b.message # 0
      <3>1. PICK t : t = IF b.deleted THEN Gone ELSE b.body
        OBVIOUS
      <3>2. PICK T : T = Keeping!Feed!Revisions \cup {Gone} /\ t \in T
        BY <1>1, <3>1
      <3>3. old \in Seq(T) /\ Texts = Seq(T)
        BY <3>2 DEF Texts
      <3>4. b.message \in 1..Len(old) => [old EXCEPT ![b.message] = t] \in Seq(T)
        BY <3>2, <3>3, ExceptSeq
      <3>5. b.message \notin 1..Len(old) => [old EXCEPT ![b.message] = t] = old
        BY <3>3
      <3>6. [old EXCEPT ![b.message] = t] \in Texts
        BY <3>3, <3>4, <3>5
      <3> QED
        BY <1>2, <2>2, <3>1, <3>6 DEF Keeping!Feed!Effect
    <2> QED
      BY <2>1, <2>2
  <1> QED
    BY <1>1, <1>3

LEMMA FeedWorkerStep == ASSUME FeedInv, Keeping!Feed!Worker PROVE FeedInv'
  <1>1. DeliveryTypes /\ ObjectTypes /\ WorkerTypes /\ ThreadTypes
    BY FeedParts
  <1>2. ASSUME batch # <<>>, UNCHANGED <<feedRows, parent, content, removed, bound, unwoken>>,
               \/ /\ UNCHANGED <<feedAttempts, message>>
                  /\ \/ state' = state
                     \/ state' = [state EXCEPT ![Keeping!Feed!Current.comment] = "suppressed"]
               \/ \E ok \in BOOLEAN : Keeping!Feed!RecordAttempt(ok),
               shown' \in [FeedComments -> Texts], feedFaults' \in 0..MaxFeedFaults,
               Keeping!Feed!NextClaim
                   \/ (batch' = batch /\ phase' \in Keeping!Feed!Phases)
        PROVE  FeedInv'
    <2>1. /\ state' \in [FeedComments -> Keeping!Feed!States]
          /\ feedAttempts' \in [FeedComments -> 0..MaxFeedAttempts]
          /\ message' \in [FeedComments -> Nat]
          /\ \A e \in FeedComments : DeliveryMoves(e)
      BY <1>2, RecordFacts
    <2>2. ObjectTypes' /\ ThreadTypes'
      BY <1>1, <1>2, <2>1 DEF ObjectTypes, ThreadTypes
    <2>3. ClaimsLeft
      BY <1>2 DEF ClaimsLeft, Keeping!Feed!NextClaim, Keeping!Feed!Phases
    <2> QED
      BY <2>1, <2>2, <2>3, FeedMoves
  <1>3. /\ shown \in [FeedComments -> Texts] /\ feedFaults \in 0..MaxFeedFaults
        /\ {"opening", "calling", "acted"} \subseteq Keeping!Feed!Phases
    BY <1>1 DEF ThreadTypes, Keeping!Feed!Phases
  <1>4. phase # "idle" => batch # <<>>
    BY <1>1 DEF WorkerTypes
  <1>5. CASE Keeping!Feed!StartDelivery \/ Keeping!Feed!OpenThread
    BY <1>2, <1>3, <1>4, <1>5
    DEF Keeping!Feed!StartDelivery, Keeping!Feed!OpenThread, Keeping!Feed!SuppressDelivery,
        Keeping!Feed!objectVars
  <1>6. CASE Keeping!Feed!DiscordActs
    <2>1. shown' \in [FeedComments -> Texts]
      BY <1>1, <1>4, <1>6, CurrentFacts, EffectFacts DEF Keeping!Feed!DiscordActs
    <2> QED
      BY <1>2, <1>3, <1>4, <1>6, <2>1
      DEF Keeping!Feed!DiscordActs, Keeping!Feed!objectVars, Keeping!Feed!deliveryVars
  <1>7. CASE Keeping!Feed!Succeed
    BY <1>2, <1>3, <1>4, <1>7 DEF Keeping!Feed!Succeed, Keeping!Feed!objectVars
  <1>8. CASE Keeping!Feed!Fail
    <2>1. feedFaults' \in 0..MaxFeedFaults
      BY <1>3, <1>8, FeedFacts DEF Keeping!Feed!Fail
    <2> QED
      BY <1>2, <1>3, <1>4, <1>8, <2>1 DEF Keeping!Feed!Fail, Keeping!Feed!objectVars
  <1> QED
    BY <1>5, <1>6, <1>7, <1>8, ClaimDueStep DEF Keeping!Feed!Worker

LEMMA FeedDiesStep == ASSUME FeedInv, Keeping!Feed!Dies PROVE FeedInv'
  <1>1. DeliveryTypes /\ ObjectTypes /\ WorkerTypes /\ ThreadTypes
    BY FeedParts
  <1>2. ASSUME Keeping!Feed!Restart
        PROVE  ClaimsLeft /\ feedFaults' \in 0..MaxFeedFaults
    BY <1>1, <1>2, FeedFacts
    DEF Keeping!Feed!Restart, ClaimsLeft, Keeping!Feed!Phases, ThreadTypes
  <1>3. ASSUME NEW old, state' = Keeping!Feed!Recovered(old)
        PROVE  /\ DOMAIN state' = FeedComments
               /\ state' = [e \in FeedComments |-> state'[e]]
               /\ \A e \in FeedComments :
                     state'[e] = old[e] \/ (old[e] = "dispatching" /\ state'[e] = "ready")
    <2>1. state' = [e \in FeedComments |-> IF old[e] = "dispatching" THEN "ready" ELSE old[e]]
      BY <1>3 DEF Keeping!Feed!Recovered
    <2> QED
      BY <2>1
  <1>4. ASSUME NEW acts \in BOOLEAN, Keeping!Feed!Crash(acts) PROVE FeedInv'
    <2>1. shown' \in [FeedComments -> Texts]
      <3>1. CASE acts
        BY <1>1, <1>4, <3>1, CurrentFacts, EffectFacts DEF Keeping!Feed!Crash
      <3>2. CASE ~acts
        BY <1>1, <1>4, <3>2 DEF Keeping!Feed!Crash, ThreadTypes
      <3> QED
        BY <3>1, <3>2
    <2>2. /\ Keeping!Feed!Restart /\ state' = Keeping!Feed!Recovered(state)
          /\ UNCHANGED <<feedRows, parent, content, removed, feedAttempts, message, bound,
                         unwoken>>
      BY <1>4 DEF Keeping!Feed!Crash, Keeping!Feed!objectVars
    <2>3. ObjectTypes' /\ ThreadTypes' /\ ClaimsLeft
      BY <1>1, <1>2, <2>1, <2>2 DEF ObjectTypes, ThreadTypes
    <2>4. state' \in [FeedComments -> Keeping!Feed!States]
      BY <1>1, <1>3, <2>2, FeedFacts DEF DeliveryTypes
    <2>5. \A e \in FeedComments : DeliveryMoves(e)
      BY <1>1, <1>3, <2>2, FeedFacts DEF DeliveryTypes, DueFits, Keeping!Feed!Known,
         DeliveryMoves
    <2> QED
      BY <1>1, <2>2, <2>3, <2>4, <2>5, FeedMoves DEF DeliveryTypes
  <1>5. ASSUME NEW c \in FeedComments, NEW p \in FeedComments \cup {Root},
               Keeping!Feed!CrashInCreate(c, p)
        PROVE  FeedInv'
    <2>1. /\ Keeping!Feed!Restart /\ Keeping!Feed!AdmitCreate(c, p)
          /\ unwoken' = unwoken \cup {c}
          /\ UNCHANGED <<content, removed, feedAttempts, message, shown, bound>>
      BY <1>5 DEF Keeping!Feed!CrashInCreate
    <2>2. PICK old : /\ old = IF Keeping!Feed!Known(c) THEN state
                              ELSE Keeping!Feed!Admitted(c, p)
                     /\ state' = Keeping!Feed!Recovered(old)
      BY <1>5 DEF Keeping!Feed!CrashInCreate
    <2>3. ObjectTypes' /\ AdmitsOnly(c, old)
      BY <1>1, <2>1, <2>2, AdmitFacts
    <2>4. ThreadTypes' /\ ClaimsLeft
      BY <1>1, <1>2, <2>1 DEF ThreadTypes
    <2>5. /\ DOMAIN state' = FeedComments
          /\ state' = [e \in FeedComments |-> state'[e]]
          /\ \A e \in FeedComments :
                state'[e] = old[e] \/ (old[e] = "dispatching" /\ state'[e] = "ready")
      BY <1>3, <2>2
    <2>6. state' \in [FeedComments -> Keeping!Feed!States]
      BY <2>3, <2>5, FeedFacts DEF AdmitsOnly
    <2>7. \A e \in FeedComments : DeliveryMoves(e)
      BY <1>1, <2>1, <2>3, <2>5, FeedFacts DEF AdmitsOnly, DeliveryMoves, DeliveryTypes
    <2> QED
      BY <1>1, <2>1, <2>3, <2>4, <2>6, <2>7, FeedMoves DEF DeliveryTypes
  <1> QED
    BY <1>4, <1>5 DEF Keeping!Feed!Dies

LEMMA FeedStep == ASSUME FeedInv, [Keeping!FeedSteps]_feedVars PROVE FeedInv'
  <1>1. CASE Keeping!FeedSteps
    BY <1>1, FeedEventStep, FeedWorkerStep, FeedDiesStep
    DEF Keeping!FeedSteps, Keeping!Feed!Next
  <1>2. CASE UNCHANGED feedVars
    BY <1>2, FeedParts
    DEF feedVars, DeliveryTypes, ObjectTypes, WorkerTypes, ThreadTypes, AttemptFits, DueFits,
        Keeping!Feed!Known
  <1> QED
    BY <1>1, <1>2

-----------------------------------------------------------------------------
(* The four of them in a behaviour of MCBridging, which takes the steps    *)
(* of one part at a time.                                                  *)

(* What the types say of the counters, and of what no step changes.        *)
BoundsInv ==
    /\ troubles <= MaxInviteTroubles
    /\ failures <= MaxFailures
    /\ personal \in BOOLEAN

KeepingInv == InvitesInv /\ UpgradeInv /\ RestoreInv /\ FeedInv /\ BoundsInv

LEMMA BoundsInit ==
    Keeping!Invites!Init /\ Keeping!Upgrade!Init => BoundsInv
  <1>1. MaxInviteTroubles \in Nat /\ MaxFailures \in Nat
    BY BridgingAssumption
    DEF Keeping!Invites!GuildInvitesAssumption, Keeping!Upgrade!MigrationsAssumption
  <1> SUFFICES ASSUME Keeping!Invites!Init, Keeping!Upgrade!Init PROVE BoundsInv
    OBVIOUS
  <1>2. troubles = 0 /\ failures = 0
    BY DEF Keeping!Invites!Init, Keeping!Upgrade!Init
  <1>3. personal \in BOOLEAN
    <2>1. PICK r : personal \in {FALSE, r = "stage7"}
      BY DEF Keeping!Upgrade!Init
    <2> QED
      BY <2>1
  <1> QED
    BY <1>1, <1>2, <1>3 DEF BoundsInv

LEMMA BoundsStep ==
    ASSUME InvitesInv, UpgradeInv, BoundsInv,
           [Keeping!Invites!Next]_inviteVars, [Keeping!Upgrade!Next]_upgradeVars
    PROVE  BoundsInv'
  <1>1. /\ MaxInviteTroubles \in Nat /\ MaxFailures \in Nat
        /\ troubles \in Nat /\ failures \in Nat
    BY BridgingAssumption
    DEF Keeping!Invites!GuildInvitesAssumption, Keeping!Upgrade!MigrationsAssumption,
        InvitesInv, UpgradeInv
  <1>2. UNCHANGED troubles \/ Keeping!Invites!Trouble
    BY DEF inviteVars, Keeping!Invites!Next, Keeping!Invites!StartPublish,
       Keeping!Invites!CreateFails, Keeping!Invites!ReplacePublication,
       Keeping!Invites!ReplaceFails, Keeping!Invites!Compensate, Keeping!Invites!FetchOld,
       Keeping!Invites!DeleteOld, Keeping!Invites!StartRemove, Keeping!Invites!Fetch,
       Keeping!Invites!Delete, Keeping!Invites!RemovePublication, Keeping!Invites!GivesUp,
       Keeping!Invites!CreateInvite, Keeping!Invites!Moderate, Keeping!Invites!Restart
  <1>3. \/ UNCHANGED failures
        \/ failures < MaxFailures /\ failures' = failures + 1
    BY DEF upgradeVars, Keeping!Upgrade!Next, Keeping!Upgrade!Start, Keeping!Upgrade!Skip,
       Keeping!Upgrade!Rename, Keeping!Upgrade!Create, Keeping!Upgrade!Copy,
       Keeping!Upgrade!Drop, Keeping!Upgrade!Backfill, Keeping!Upgrade!Commit,
       Keeping!Upgrade!Fail
  <1>4. UNCHANGED personal
    BY DEF upgradeVars, Keeping!Upgrade!Next, Keeping!Upgrade!Start, Keeping!Upgrade!Skip,
       Keeping!Upgrade!Rename, Keeping!Upgrade!Create, Keeping!Upgrade!Copy,
       Keeping!Upgrade!Drop, Keeping!Upgrade!Backfill, Keeping!Upgrade!Commit,
       Keeping!Upgrade!Fail
  <1> QED
    BY <1>1, <1>2, <1>3, <1>4 DEF BoundsInv, Keeping!Invites!Trouble

LEMMA KeepingSteps ==
    [AllNext]_allVars => /\ [Keeping!Invites!Next]_inviteVars
                         /\ [Keeping!Upgrade!Next]_upgradeVars
                         /\ [Keeping!Restore!Next]_restoreVars
                         /\ [Keeping!FeedSteps]_feedVars
  <1>1. ASSUME UNCHANGED keepingVars
        PROVE  UNCHANGED <<inviteVars, upgradeVars, restoreVars, feedVars>>
    BY <1>1 DEF keepingVars
  <1>2. InMedia \/ InFollow \/ InSubscription \/ InSync => UNCHANGED keepingVars
    BY DEF InMedia, InFollow, InSubscription, InSync
  <1>3. UNCHANGED allVars => UNCHANGED keepingVars
    BY DEF allVars
  <1>4. ASSUME Keeping!Next
        PROVE  /\ [Keeping!Invites!Next]_inviteVars
               /\ [Keeping!Upgrade!Next]_upgradeVars
               /\ [Keeping!Restore!Next]_restoreVars
               /\ [Keeping!FeedSteps]_feedVars
    BY <1>4 DEF Keeping!Next, Keeping!inviteVars, Keeping!upgradeVars, Keeping!restoreVars,
       Keeping!feedVars, inviteVars, upgradeVars, restoreVars, feedVars
  <1> QED
    BY <1>1, <1>2, <1>3, <1>4 DEF AllNext

LEMMA KeepingInvHolds == AllSpec => []KeepingInv
  <1>1. AllInit => KeepingInv
    <2> SUFFICES ASSUME AllInit PROVE KeepingInv
      OBVIOUS
    <2>1. /\ Keeping!Invites!Init /\ Keeping!Upgrade!Init /\ Keeping!Restore!Init
          /\ Keeping!Feed!Init
      BY DEF AllInit, Keeping!Init, Keeping!Rests
    <2> QED
      BY <2>1, InvitesInit, UpgradeInit, RestoreInit, FeedInit, BoundsInit DEF KeepingInv
  <1>2. KeepingInv /\ [AllNext]_allVars => KeepingInv'
    <2> SUFFICES ASSUME KeepingInv, [AllNext]_allVars PROVE KeepingInv'
      OBVIOUS
    <2>1. /\ [Keeping!Invites!Next]_inviteVars /\ [Keeping!Upgrade!Next]_upgradeVars
          /\ [Keeping!Restore!Next]_restoreVars /\ [Keeping!FeedSteps]_feedVars
      BY KeepingSteps
    <2>2. InvitesInv' /\ UpgradeInv' /\ RestoreInv' /\ FeedInv' /\ BoundsInv'
      BY <2>1, InvitesStep, UpgradeStep, RestoreStep, FeedStep, BoundsStep DEF KeepingInv
    <2> QED
      BY <2>2 DEF KeepingInv
  <1> QED
    BY <1>1, <1>2, PTL DEF AllSpec

(* However the invite commands of a server overlap and fail between the    *)
(* creation of an invite, its row and the deletion of the old one: once    *)
(* all are done, the invites that the dashboard does not show, and a shown *)
(* one that is dead, are no more than the failed calls, restarts and       *)
(* moderators there were (guild_invite_lock.py:10-14).                     *)
THEOREM InvitesArePaidFor == AllSpec => []InvitesAccountedFor
  BY InvitesPaid, KeepingInvHolds, PTL DEF KeepingInv

(* Once the bridge is up, a start that nothing interrupted has lost no row *)
(* of any release, nor one that refers to a rebuilt table; and however     *)
(* often starts died before, the tables rebuilt after the first UPDATE     *)
(* have theirs (migrate, migrations.py:82-273): from that UPDATE to the    *)
(* commit there is a transaction.                                          *)
THEOREM RowsSurviveUpgrades == AllSpec => []UpgradeKeepsRows
  BY UpgradeKept, KeepingInvHolds, PTL DEF KeepingInv

(* Wherever a restore or its recovery dies, the deployment ends up as one  *)
(* whole generation once the marker is gone, provided that nothing opened  *)
(* the database in between (db/backup.py:270-289): each part is at its     *)
(* place, moved aside or replaced, and the marker tells which of these a   *)
(* recovery takes back.                                                    *)
THEOREM RestoresAreWhole == AllSpec => []RecoversWhole
  BY RestoreWhole, KeepingInvHolds, PTL DEF KeepingInv

LEMMA KeepingTypes == KeepingInv => Keeping!TypeOK
  <1> SUFFICES ASSUME KeepingInv PROVE Keeping!TypeOK
    OBVIOUS
  <1>1. Keeping!Feed!TypeOK /\ Keeping!Restore!TypeOK
    BY DEF KeepingInv, FeedInv, RestoreInv, RestoreTypes
  <1>2. Keeping!Invites!TypeOK
    <2>1. troubles \in 0 .. MaxInviteTroubles
      BY BridgingAssumption
      DEF KeepingInv, InvitesInv, BoundsInv, Keeping!Invites!GuildInvitesAssumption
    <2> QED
      BY <2>1 DEF KeepingInv, InvitesInv, InviteRows, InviteStages, Keeping!Invites!TypeOK
  <1>3. Keeping!Upgrade!TypeOK
    <2>1. failures \in 0 .. MaxFailures
      BY BridgingAssumption
      DEF KeepingInv, UpgradeInv, BoundsInv, Keeping!Upgrade!MigrationsAssumption
    <2>2. at \in [table : 1 .. 6, next : Keeping!Upgrade!Statements]
                    \cup [table : {0, 2, 6}, next : {"start", "backfill", "end", "up"}]
      BY DEF KeepingInv, UpgradeInv, Positions
    <2> QED
      BY <2>1, <2>2, OrderFacts DEF KeepingInv, UpgradeInv, BoundsInv, Keeping!Upgrade!TypeOK
  <1> QED
    BY <1>1, <1>2, <1>3 DEF Keeping!TypeOK

(* Every part of a behaviour of MCBridging stays within its types, so that *)
(* no row, handler, claim, marker or counter of the bridge gets a value    *)
(* that its code has no case for: no copy waits for a thread there is not  *)
(* (runtime.py:435-450), no delivery is tried beyond the ceiling           *)
(* (record_discord_attempt), no upgrade goes past its last table.          *)
THEOREM BridgingIsTyped == AllSpec => []TypesOK
  <1>1. AllInit => Init
    BY DEF AllInit
  <1>2. [AllNext]_allVars => [Next]_vars
    BY DEF AllNext, allVars, InMedia, InFollow, InSubscription, InSync, InKeeping
  <1>3. AllSpec => Spec
    BY <1>1, <1>2, PTL DEF AllSpec, Spec
  <1>4. ProfileMediaAssumption
    BY BridgingAssumption
  <1>5. Spec => []TypeOK
    BY <1>4, MediaTypes
  <1>6. BridgingInv /\ KeepingInv /\ TypeOK => TypesOK
    BY BridgingTypes, KeepingTypes DEF TypesOK
  <1> QED
    BY <1>3, <1>5, <1>6, BridgingInvHolds, KeepingInvHolds, PTL
=============================================================================
