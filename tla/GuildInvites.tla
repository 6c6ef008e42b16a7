---------------------------- MODULE GuildInvites ----------------------------
(***************************************************************************)
(* The invite link of one Discord server on the public dashboard: commands *)
(* publish, replace and remove it (operations/publish_guild_invite.py,     *)
(* remove_guild_invite.py) while moderators may delete invites in Discord. *)
(*                                                                         *)
(* A command is a coroutine that holds the server's lock across its        *)
(* Discord calls.  A call is acted on and answered in one step, since only *)
(* commands and moderators touch invites; a failed call may have been      *)
(* acted on.  Reading the publication and replacing it have no await       *)
(* between them.                                                           *)
(***************************************************************************)
EXTENDS Naturals, FiniteSets

CONSTANTS
    Commands,       \* invocations of the two commands
    Codes,          \* invite codes of this bot that Discord may give out
    NoCode,
    MaxTroubles     \* bound: failed calls and transactions, deletions by
                    \*        moderators, and restarts

GuildInvitesAssumption ==
    /\ NoCode \notin Codes
    /\ MaxTroubles \in Nat

VARIABLES
    given,          \* codes that Discord has given out
    alive,          \* invites that lead into the server
    published,      \* the code on the dashboard
    command,        \* command -> where it is, and the codes it works with
    troubles

vars == <<given, alive, published, command, troubles>>

New == [at |-> "new", mine |-> NoCode, old |-> NoCode]
Ended == [New EXCEPT !.at = "ended"]

TypeOK ==
    /\ alive \subseteq given /\ given \subseteq Codes
    /\ published \in given \cup {NoCode}
    /\ command \in [Commands -> [at : {"new", "creating", "created", "fetching old",
                                       "deleting old", "compensating", "fetching",
                                       "deleting", "deleted", "ended"},
                                 mine : Codes \cup {NoCode},
                                 old : Codes \cup {NoCode}]]
    /\ troubles \in 0 .. MaxTroubles

Init ==
    /\ given = {} /\ alive = {}
    /\ published = NoCode
    /\ command = [c \in Commands |-> New]
    /\ troubles = 0

Trouble == troubles < MaxTroubles /\ troubles' = troubles + 1
Moves(c, at) == command' = [command EXCEPT ![c].at = at]
Ends(c) == command' = [command EXCEPT ![c] = Ended]

\* Variant: commands do not wait for each other.
Unlocked == TRUE

Quiet == \A c \in Commands : command[c].at \in {"new", "ended"}

\* guild_invite_lock: a command holds it to its end.
LockFree == Quiet

-----------------------------------------------------------------------------
(* publish_guild_invite *)

\* A channel that allows it was found.
StartPublish(c) ==
    /\ command[c].at = "new"
    /\ LockFree
    /\ Moves(c, "creating")
    /\ UNCHANGED <<given, alive, published, troubles>>

CreateInvite(c, code) ==
    /\ command[c].at = "creating"
    /\ code \notin given
    /\ given' = given \cup {code}
    /\ alive' = alive \cup {code}
    /\ command' = [command EXCEPT ![c].at = "created", ![c].mine = code]
    /\ UNCHANGED <<published, troubles>>

\* The call raises, and Discord may have created the invite all the same.
CreateFails(c) ==
    /\ command[c].at = "creating"
    /\ Trouble
    /\ \/ UNCHANGED <<given, alive>>
       \/ \E code \in Codes \ given : given' = given \cup {code} /\ alive' = alive \cup {code}
    /\ Ends(c)
    /\ UNCHANGED published

\* replace_guild_invite_publication, with the previous publication read first.
ReplacePublication(c) ==
    /\ command[c].at = "created"
    /\ published' = command[c].mine
    /\ IF published = NoCode THEN Ends(c)
       ELSE command' = [command EXCEPT ![c].at = "fetching old", ![c].old = published]
    /\ UNCHANGED <<given, alive, troubles>>

ReplaceFails(c) ==
    /\ command[c].at = "created"
    /\ Trouble
    /\ Moves(c, "compensating")
    /\ UNCHANGED <<given, alive, published>>

\* _delete_invite_best_effort of the invite that could not be stored.
Compensate(c) ==
    /\ command[c].at = "compensating"
    /\ alive' = alive \ {command[c].mine}
    /\ Ends(c)
    /\ UNCHANGED <<given, published, troubles>>

\* The replaced invite is fetched and deleted; one that is gone is nothing to do.
FetchOld(c) ==
    /\ command[c].at = "fetching old"
    /\ IF command[c].old \in alive THEN Moves(c, "deleting old") ELSE Ends(c)
    /\ UNCHANGED <<given, alive, published, troubles>>

DeleteOld(c) ==
    /\ command[c].at = "deleting old"
    /\ alive' = alive \ {command[c].old}
    /\ Ends(c)
    /\ UNCHANGED <<given, published, troubles>>

-----------------------------------------------------------------------------
(* remove_guild_invite *)

StartRemove(c) ==
    /\ command[c].at = "new"
    /\ LockFree
    /\ IF published = NoCode THEN Ends(c)
       ELSE command' = [command EXCEPT ![c].at = "fetching", ![c].old = published]
    /\ UNCHANGED <<given, alive, published, troubles>>

\* An invite that a moderator has deleted is as good as deleted.
Fetch(c) ==
    /\ command[c].at = "fetching"
    /\ Moves(c, IF command[c].old \in alive THEN "deleting" ELSE "deleted")
    /\ UNCHANGED <<given, alive, published, troubles>>

Delete(c) ==
    /\ command[c].at = "deleting"
    /\ alive' = alive \ {command[c].old}
    /\ Moves(c, "deleted")
    /\ UNCHANGED <<given, published, troubles>>

\* remove_guild_invite_publication deletes whatever row the server then has.
RemovePublication(c) ==
    /\ command[c].at = "deleted"
    /\ published' = NoCode
    /\ Ends(c)
    /\ UNCHANGED <<given, alive, troubles>>

-----------------------------------------------------------------------------
(* Troubles *)

\* A fetch, a deletion or the last transaction raises: the command gives up.  A
\* deletion may have been acted on.
GivesUp(c) ==
    /\ command[c].at \in {"compensating", "fetching old", "deleting old", "fetching",
                            "deleting", "deleted"}
    /\ Trouble
    /\ \/ UNCHANGED alive
       \/ command[c].at = "compensating" /\ alive' = alive \ {command[c].mine}
       \/ command[c].at \in {"deleting old", "deleting"} /\ alive' = alive \ {command[c].old}
    /\ Ends(c)
    /\ UNCHANGED <<given, published>>

\* A moderator deletes an invite of the bot.
Moderate(code) ==
    /\ code \in alive
    /\ Trouble
    /\ alive' = alive \ {code}
    /\ UNCHANGED <<given, published, command>>

\* The bridge restarts: the command that held the lock is gone.
Restart ==
    /\ ~Quiet
    /\ Trouble
    /\ command' = [c \in Commands |-> IF command[c].at = "new" THEN New ELSE Ended]
    /\ UNCHANGED <<given, alive, published>>

-----------------------------------------------------------------------------
Next ==
    \/ \E c \in Commands :
          \/ StartPublish(c) \/ CreateFails(c) \/ ReplacePublication(c)
          \/ ReplaceFails(c) \/ Compensate(c) \/ FetchOld(c) \/ DeleteOld(c)
          \/ StartRemove(c) \/ Fetch(c) \/ Delete(c) \/ RemovePublication(c)
          \/ GivesUp(c)
          \/ \E code \in Codes : CreateInvite(c, code)
    \/ \E code \in Codes : Moderate(code)
    \/ Restart

Spec == Init /\ [][Next]_vars

-----------------------------------------------------------------------------
(* Properties *)

\* When no command is under way, each way into the server that the dashboard
\* does not show, and a dashboard link that leads nowhere, is the trace of one
\* failed call, one restart or one moderator; commands that overlap leave none
\* (guild_invite_lock.py:10-14).
InvitesAccountedFor ==
    Quiet =>
        Cardinality((alive \ {published}) \cup ({published} \ (alive \cup {NoCode})))
            <= troubles
=============================================================================
