----------------------------- MODULE Migrations -----------------------------
(***************************************************************************)
(* The upgrade of an older database at the start of the bridge             *)
(* (db/migrations.py).  A table whose constraints have changed is renamed, *)
(* created anew, filled from its renamed copy, and the copy is dropped;    *)
(* one commit ends the whole upgrade.                                      *)
(*                                                                         *)
(* What the Python driver of SQLite makes of it: a statement that writes   *)
(* rows begins the transaction, and a statement that changes the schema    *)
(* does not, so whatever comes before the first row is written is          *)
(* permanent at once.  PRAGMA foreign_keys has no effect inside a          *)
(* transaction.  A renamed table takes the references to it along, unless  *)
(* foreign keys are off and legacy_alter_table is on; dropping a table     *)
(* first deletes its rows, with what foreign keys cascade to.              *)
(*                                                                         *)
(* Rows are all or none here: a table has its rows or not, and so does its *)
(* renamed copy.  Added columns and indexes, which a second run finds in   *)
(* place, are left out, and so is what the identity migration rewrites;    *)
(* the relationships it deletes are in InboundFollow, RemoteSubscription,  *)
(* CommunitySync and LocalCommunity.                                       *)
(***************************************************************************)
EXTENDS Naturals, Sequences

CONSTANTS
    Releases,       \* releases the database may come from
    MaxFailures     \* bound: starts that die or raise

VARIABLES
    db,             \* the database as the connection sees it
    saved,          \* the database on disk
    open,           \* a transaction is under way
    foreignKeys,    \* the connection enforces them
    at,             \* the next table, and the next statement about it
    personal,       \* there are personal-feed posts
    failures

vars == <<db, saved, open, foreignKeys, at, personal, failures>>

\* In the order of migrate: the rebuilds before its first UPDATE, and after it.
Early == <<"objects", "mappings">>
Late == <<"communities", "bans", "fields", "sources">>
Order == Early \o Late
Tables == {Order[i] : i \in DOMAIN Order}
LateTables == {Late[i] : i \in DOMAIN Late}

\* Tables that others refer to with ON DELETE CASCADE: mutations and sources
\* to authored objects, deliveries and media to sources.
Parents == {"objects", "sources"}

\* Tables that each release had in an older shape.
OldIn == [early |-> Tables \ {"sources"}, stage4 |-> {"objects", "mappings", "sources"},
          stage6 |-> {"objects", "mappings"}, stage7 |-> {"objects"}, current |-> {}]

MigrationsAssumption ==
    /\ Releases \subseteq DOMAIN OldIn
    /\ MaxFailures \in Nat

Databases == [shape : [Tables -> {"old", "missing", "new"}],
              filled : SUBSET Tables,       \* with their rows
              aside : SUBSET Tables,        \* with a renamed copy, and rows in it
              torn : SUBSET Parents,        \* whose children refer to the copy
              children : SUBSET Parents]    \* whose children are there

Statements == {"rename", "create", "copy", "drop"}

TypeOK ==
    /\ db \in Databases /\ saved \in Databases
    /\ open \in BOOLEAN /\ foreignKeys \in BOOLEAN
    /\ at \in [table : 1 .. Len(Order), next : Statements]
              \cup [table : {0, Len(Early), Len(Order)}, next : {"start", "backfill", "end", "up"}]
    /\ personal \in BOOLEAN
    /\ failures \in 0 .. MaxFailures

\* Stage 7 brought the first posts that belong to no community.
Init ==
    /\ \E r \in Releases :
          /\ db = [shape |-> [t \in Tables |-> IF t \in OldIn[r] THEN "old" ELSE "new"],
                   filled |-> Tables, aside |-> {}, torn |-> {}, children |-> Parents]
          /\ personal \in {FALSE, r = "stage7"}
    /\ saved = db
    /\ open = FALSE
    /\ foreignKeys = TRUE
    /\ at = [table |-> 0, next |-> "start"]
    /\ failures = 0

Table == Order[at.table]
Rebuilding(statement) == at.table # 0 /\ at.next = statement

\* What comes after table number i.
After(i) ==
    CASE i = Len(Order)                              -> [table |-> i, next |-> "end"]
      [] i = Len(Early) /\ at.next # "backfill"      -> [table |-> i, next |-> "backfill"]
      [] OTHER                                       -> [table |-> i + 1, next |-> "rename"]

\* A schema change: on disk at once, or with the transaction.
ChangeSchema(d) ==
    /\ db' = d
    /\ saved' = IF open THEN saved ELSE d

-----------------------------------------------------------------------------
(* One start *)

\* A new connection; create_all creates what is missing, empty.
Start ==
    /\ at.next = "start"
    /\ ChangeSchema([db EXCEPT !.shape = [t \in Tables |->
                        IF @[t] = "missing" THEN "new" ELSE @[t]]])
    /\ foreignKeys' = TRUE
    /\ at' = After(0)
    /\ UNCHANGED <<open, personal, failures>>

\* A table of the present shape is left alone, whatever else there is.
Skip ==
    /\ Rebuilding("rename")
    /\ db.shape[Table] = "new"
    /\ at' = After(at.table)
    /\ UNCHANGED <<db, saved, open, foreignKeys, personal, failures>>

\* Variant: nobody turns foreign keys off.
EnforcedStill == foreignKeys

\* PRAGMA foreign_keys=OFF, which bans and fields do without.
EnforcedDuringRebuild ==
    foreignKeys /\ (open \/ Table \in {"bans", "fields"})

Rename ==
    /\ Rebuilding("rename")
    /\ db.shape[Table] = "old"
    /\ foreignKeys' = EnforcedDuringRebuild
    /\ ChangeSchema([db EXCEPT !.shape[Table] = "missing",
                               !.filled = @ \ {Table}, !.aside = @ \cup {Table},
                               !.torn = IF foreignKeys' THEN @ \cup ({Table} \cap Parents)
                                        ELSE @])
    /\ at' = [at EXCEPT !.next = "create"]
    /\ UNCHANGED <<open, personal, failures>>

Create ==
    /\ Rebuilding("create")
    /\ ChangeSchema([db EXCEPT !.shape[Table] = "new"])
    /\ at' = [at EXCEPT !.next = "copy"]
    /\ UNCHANGED <<open, foreignKeys, personal, failures>>

\* Every object is copied as a community's, with no server: a personal-feed
\* post then fails the check that a community is named.
Copyable == Table = "objects" => ~personal

\* INSERT ... SELECT, which begins the transaction.
Copy ==
    /\ Rebuilding("copy")
    /\ Copyable
    /\ open' = TRUE
    /\ db' = [db EXCEPT !.filled = @ \cup {Table}]
    /\ at' = [at EXCEPT !.next = "drop"]
    /\ UNCHANGED <<saved, foreignKeys, personal, failures>>

\* The PRAGMA that turns foreign keys on again comes to nothing.
Drop ==
    /\ Rebuilding("drop")
    /\ ChangeSchema([db EXCEPT !.aside = @ \ {Table},
                               !.children = IF foreignKeys THEN @ \ (db.torn \cap {Table})
                                            ELSE @])
    /\ at' = After(at.table)
    /\ UNCHANGED <<open, foreignKeys, personal, failures>>

\* The UPDATE of conversation_root_object_id begins a transaction, whether or
\* not it finds a row.
Backfill ==
    /\ at.next = "backfill"
    /\ open' = TRUE
    /\ at' = After(at.table)
    /\ UNCHANGED <<db, saved, foreignKeys, personal, failures>>

\* The identity migration and its checks hold, and everything is committed.
Commit ==
    /\ at.next = "end"
    /\ saved' = db
    /\ open' = FALSE
    /\ at' = [at EXCEPT !.next = "up"]
    /\ UNCHANGED <<db, foreignKeys, personal, failures>>

\* The bridge dies; or a check of the migration or the copying raises, and what
\* the transaction did is rolled back.  Either way the container starts it again.
Fail ==
    /\ at.next \notin {"start", "up"}
    /\ failures < MaxFailures
    /\ failures' = failures + 1
    /\ db' = saved
    /\ open' = FALSE
    /\ at' = [table |-> 0, next |-> "start"]
    /\ UNCHANGED <<saved, foreignKeys, personal>>

Next ==
    \/ Start \/ Skip \/ Rename \/ Create \/ Copy \/ Drop
    \/ Backfill \/ Commit \/ Fail

Spec == Init /\ [][Next]_vars

-----------------------------------------------------------------------------
(* Properties *)

Up == at.next = "up"

\* A start that nothing interrupted keeps every row, also those that refer to a
\* rebuilt table; and a table rebuilt after the first UPDATE keeps its rows
\* whatever died before (migrate, migrations.py:82-273).
UpgradeKeepsRows ==
    Up => /\ LateTables \subseteq db.filled
          /\ failures = 0 => db.filled = Tables /\ db.children = Parents /\ db.torn = {}

\* "Existing community rows and public URLs survive migration unchanged", since
\* the rebuild is to "run inside the existing migration transaction"
\* (plans/141_user_actor_personal_feed_root_publication_stage7.md:213-222).
AuthoredRowsSurvive == Up => "objects" \in db.filled
=============================================================================
