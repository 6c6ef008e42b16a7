---------------------------- MODULE ProfileMedia ----------------------------
(***************************************************************************)
(* The avatar and header of a registered user: bytes in a directory, rows  *)
(* and references in the database.  An upload publishes its bytes before   *)
(* the transaction that refers to them (user_profiles.py); profile         *)
(* versions that are still to be rendered or sent own the media they name; *)
(* the cleanup command unlinks what nothing refers to inside its own       *)
(* transaction; a backup copies what its snapshot of the database refers   *)
(* to, file by file (db/backup.py).  Backup and cleanup exclude each other *)
(* by the media lock; uploads take no lock.                                *)
(*                                                                         *)
(* A restore, of the last backup, is one step here: RestoreJournal has its *)
(* steps.  Of the outbox there is only whether a version can still be sent *)
(* (UserActorDelivery!Transportable).                                      *)
(***************************************************************************)
EXTENDS Naturals, Sequences, FiniteSets

CONSTANTS
    Assets,         \* public ids of uploads, each used once
    None,           \* an empty slot
    MaxVersions,    \* bound: profile versions
    MaxStops        \* bound: processes that die or fail, and restores

ProfileMediaAssumption ==
    /\ None \notin Assets
    /\ MaxVersions \in Nat
    /\ MaxStops \in Nat

VARIABLES
    used,       \* assets whose id was drawn
    files,      \* assets whose bytes are in the media directory
    rows,       \* profile_media_assets
    slots,      \* users.avatar_media_id and header_media_id
    versions,   \* profile versions: the media rows each owns, and whether it
                \*     may still be rendered or sent
    uploads,    \* published bytes that no transaction refers to yet
    cleaner,    \* the cleanup command: its candidates left, and unlinked
    backup,     \* the running backup: its snapshot, and what is left to copy
    archive,    \* the snapshot in the last archive, with its media
    restored,   \* history: a backup was restored
    stops

vars == <<used, files, rows, slots, versions, uploads, cleaner, backup, archive,
          restored, stops>>
databaseVars == <<rows, slots, versions>>

Slots == {"avatar", "header"}
Free == [held |-> FALSE, todo |-> {}, gone |-> {}]
Snapshots == [rows : SUBSET Assets, slots : [Slots -> Assets \cup {None}],
              versions : Seq([owns : SUBSET Assets, open : BOOLEAN])]
EmptyDatabase == [rows |-> {}, slots |-> [s \in Slots |-> None], versions |-> <<>>]
NoBackup == [running |-> FALSE, snapshot |-> EmptyDatabase, todo |-> {}]

TypeOK ==
    /\ files \subseteq used /\ used \subseteq Assets
    /\ [rows |-> rows, slots |-> slots, versions |-> versions] \in Snapshots
    /\ Len(versions) <= MaxVersions
    /\ uploads \subseteq Assets \X Slots
    /\ cleaner \in [held : BOOLEAN, todo : SUBSET Assets, gone : SUBSET Assets]
    /\ backup \in [running : BOOLEAN, snapshot : Snapshots, todo : SUBSET Assets]
    /\ archive \in Snapshots
    /\ restored \in BOOLEAN
    /\ stops \in 0 .. MaxStops

Init ==
    /\ used = {} /\ files = {} /\ rows = {}
    /\ slots = [s \in Slots |-> None]
    /\ versions = <<>>
    /\ uploads = {}
    /\ cleaner = Free
    /\ backup = NoBackup
    /\ archive = EmptyDatabase
    /\ restored = FALSE
    /\ stops = 0

InSlots(sl) == {sl[s] : s \in Slots} \ {None}
Owned(vs) == UNION {v.owns : v \in {vs[i] : i \in DOMAIN vs}}
OwnedByOpen(vs) == UNION {v.owns : v \in {w \in {vs[i] : i \in DOMAIN vs} : w.open}}

Stops == stops < MaxStops /\ stops' = stops + 1

-----------------------------------------------------------------------------
(* The bridge: UserProfileService, each call in a thread of its own *)

\* stage_and_publish: the bytes are there under a fresh id, whichever it is.
Publish(s) ==
    /\ used # Assets
    /\ LET a == CHOOSE x \in Assets : x \notin used IN
          /\ used' = used \cup {a}
          /\ files' = files \cup {a}
          /\ uploads' = uploads \cup {<<a, s>>}
    /\ UNCHANGED <<databaseVars, cleaner, backup, archive, restored, stops>>

\* _mutate: the profile's next version, which owns the media of its snapshot.
\* BEGIN IMMEDIATE waits for a cleanup's transaction.
Mutate(sl) ==
    /\ ~cleaner.held
    /\ Len(versions) < MaxVersions
    /\ slots' = sl
    /\ versions' = Append(versions, [owns |-> InSlots(sl), open |-> TRUE])
    /\ UNCHANGED <<used, files, cleaner, backup, archive, restored, stops>>

Replace(a, s) ==
    /\ <<a, s>> \in uploads
    /\ Mutate([slots EXCEPT ![s] = a])
    /\ rows' = rows \cup {a}
    /\ uploads' = uploads \ {<<a, s>>}

\* clear_media, and updates of the text, which leave the slots as they are.
Clear(s) == Mutate([slots EXCEPT ![s] = None]) /\ UNCHANGED <<rows, uploads>>
UpdateText == Mutate(slots) /\ UNCHANGED <<rows, uploads>>

\* The transaction fails, or the bridge dies before it: the bytes stay, and no
\* row will ever name them.
UploadLost(u) ==
    /\ u \in uploads
    /\ Stops
    /\ uploads' = uploads \ {u}
    /\ UNCHANGED <<used, files, databaseVars, cleaner, backup, archive, restored>>

\* The last delivery of version i settles; its media rows are released with it
\* or left to the cleanup.
Settle(i) ==
    /\ ~cleaner.held
    /\ i \in DOMAIN versions
    /\ versions[i].open
    /\ \E owns \in {{}, versions[i].owns} :
          versions' = [versions EXCEPT ![i] = [owns |-> owns, open |-> FALSE]]
    /\ UNCHANGED <<used, files, rows, slots, uploads, cleaner, backup, archive,
                   restored, stops>>

-----------------------------------------------------------------------------
(* cleanup_orphans, in a process of its own *)

\* Variant: a version that can still be sent does not count.
ReferencedBySlot(a) == a \in InSlots(slots)

\* is_referenced
Referenced(a) == a \in InSlots(slots) \cup OwnedByOpen(versions)

\* Variant: the lock is not waited for.
MediaLockIgnored == TRUE

\* The media lock, exclusively: no backup holds it shared.
MediaLockExclusive == ~backup.running

\* The lock, the writer reservation, and the rows older than the grace period
\* that nothing refers to; nothing changes the database until it commits.
CleanupBegins ==
    /\ ~cleaner.held
    /\ MediaLockExclusive
    /\ \E aged \in SUBSET rows :
          cleaner' = [held |-> TRUE, gone |-> {},
                      todo |-> {a \in aged : ~Referenced(a)}]
    /\ UNCHANGED <<used, files, databaseVars, uploads, backup, archive, restored, stops>>

Unlink(a) ==
    /\ cleaner.held
    /\ a \in cleaner.todo
    /\ files' = files \ {a}
    /\ cleaner' = [cleaner EXCEPT !.todo = @ \ {a}, !.gone = @ \cup {a}]
    /\ UNCHANGED <<used, databaseVars, uploads, backup, archive, restored, stops>>

\* The unlinked rows go, and what versions that cannot be sent still owned.
CleanupCommits ==
    /\ cleaner.held
    /\ cleaner.todo = {}
    /\ rows' = rows \ cleaner.gone
    /\ versions' = [i \in DOMAIN versions |->
                        IF versions[i].open THEN versions[i]
                        ELSE [versions[i] EXCEPT !.owns = {}]]
    /\ cleaner' = Free
    /\ UNCHANGED <<used, files, slots, uploads, backup, archive, restored, stops>>

\* The transaction is rolled back, but not the unlinking.
CleanupDies ==
    /\ cleaner.held
    /\ Stops
    /\ cleaner' = Free
    /\ UNCHANGED <<used, files, databaseVars, uploads, backup, archive, restored>>

-----------------------------------------------------------------------------
(* create_complete_backup and restore, in processes of their own *)

Snapshot == [rows |-> rows, slots |-> slots, versions |-> versions]

\* Both locks shared; the snapshot's media are those in slots, whatever
\* versions still own (_referenced_assets).
BackupBegins ==
    /\ ~backup.running
    /\ ~cleaner.held
    /\ backup' = [running |-> TRUE, snapshot |-> Snapshot, todo |-> InSlots(slots)]
    /\ UNCHANGED <<used, files, databaseVars, uploads, cleaner, archive, restored, stops>>

Copy(a) ==
    /\ backup.running
    /\ a \in backup.todo \cap files
    /\ backup' = [backup EXCEPT !.todo = @ \ {a}]
    /\ UNCHANGED <<used, files, databaseVars, uploads, cleaner, archive, restored, stops>>

BackupPublished ==
    /\ backup.running
    /\ backup.todo = {}
    /\ archive' = backup.snapshot
    /\ backup' = NoBackup
    /\ UNCHANGED <<used, files, databaseVars, uploads, cleaner, restored, stops>>

\* It dies, or a referenced file is missing.
BackupFails ==
    /\ backup.running
    /\ IF backup.todo \subseteq files THEN Stops ELSE UNCHANGED stops
    /\ backup' = NoBackup
    /\ UNCHANGED <<used, files, databaseVars, uploads, cleaner, archive, restored>>

\* No other process holds the deployment lock: uploads under way are gone.
Restore ==
    /\ ~cleaner.held /\ ~backup.running
    /\ archive # EmptyDatabase
    /\ rows' = archive.rows
    /\ slots' = archive.slots
    /\ versions' = archive.versions
    /\ files' = InSlots(archive.slots)
    /\ uploads' = {}
    /\ restored' = TRUE
    /\ Stops
    /\ UNCHANGED <<used, cleaner, backup, archive>>

-----------------------------------------------------------------------------
Next ==
    \/ \E s \in Slots : Publish(s) \/ Clear(s)
    \/ \E a \in Assets, s \in Slots : Replace(a, s)
    \/ UpdateText
    \/ \E u \in uploads : UploadLost(u)
    \/ \E i \in 1 .. MaxVersions : Settle(i)
    \/ CleanupBegins \/ CleanupCommits \/ CleanupDies
    \/ \E a \in Assets : Unlink(a) \/ Copy(a)
    \/ BackupBegins \/ BackupPublished \/ BackupFails
    \/ Restore

Spec == Init /\ [][Next]_vars

-----------------------------------------------------------------------------
(* Properties *)

\* A picture that a profile shows, or that a version still to be sent names,
\* is there, whatever is replaced, cleaned up or interrupted; a restore
\* brings back those in slots only (user_profiles.py:133-167).
ReferencedHasBytes ==
    InSlots(slots) \cup (IF restored THEN {} ELSE OwnedByOpen(versions)) \subseteq files

\* "An asset referenced by the completed snapshot cannot disappear": a backup
\* finds every file that its snapshot refers to, though the pictures are
\* replaced and cleaned up meanwhile (backup.py:72-98).
BackupFindsMedia == backup.todo \subseteq files
=============================================================================
