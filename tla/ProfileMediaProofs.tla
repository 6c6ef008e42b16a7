------------------------- MODULE ProfileMediaProofs -------------------------
(***************************************************************************)
(* Theorems about ProfileMedia, for any set of assets and any bounds: the  *)
(* pictures that profiles and unsent versions refer to, and those a backup *)
(* still has to copy, are never unlinked.                                  *)
(***************************************************************************)
EXTENDS ProfileMedia, TLAPS

-----------------------------------------------------------------------------
(* The inductive invariant *)

\* Ids of uploads are drawn once, so published bytes have no row yet.
UploadInv ==
    /\ \A u \in uploads : u[1] \in files \ rows
    /\ \A u, v \in uploads : u[1] = v[1] => u = v
    /\ rows \subseteq used

\* The candidates of a cleanup are rows that nothing refers to, and nothing
\* will while it holds the writer reservation.
CleanerInv ==
    /\ cleaner.todo \subseteq rows
    /\ \A a \in cleaner.todo : ~Referenced(a)
    /\ ~cleaner.held => cleaner.todo = {}

\* Cleanup and backup exclude each other.
BackupInv ==
    /\ cleaner.held => ~backup.running
    /\ ~backup.running => backup.todo = {}

\* What a backup brings back is of the past, and names no later upload.
Past(db) ==
    /\ db.rows \cup InSlots(db.slots) \subseteq used
    /\ Len(db.versions) <= MaxVersions

ArchiveInv == Past(archive) /\ Past(backup.snapshot)

Inv == TypeOK /\ ArchiveInv /\ UploadInv /\ CleanerInv /\ BackupInv
           /\ ReferencedHasBytes /\ BackupFindsMedia

-----------------------------------------------------------------------------
(* What the slots and the versions own *)

LEMMA SlotsOwn ==
    ASSUME NEW sl \in [Slots -> Assets \cup {None}]
    PROVE  InSlots(sl) \subseteq Assets
BY DEF InSlots, Slots

\* A slot that is filled adds its asset, one that is cleared adds nothing.
LEMMA SlotChanged ==
    ASSUME NEW sl \in [Slots -> Assets \cup {None}], NEW s \in Slots,
           NEW a \in Assets \cup {None}
    PROVE  InSlots([sl EXCEPT ![s] = a]) \subseteq InSlots(sl) \cup ({a} \ {None})
BY DEF InSlots

VersionRecords == [owns : SUBSET Assets, open : BOOLEAN]

LEMMA AppendOwns ==
    ASSUME NEW vs \in Seq(VersionRecords), NEW v \in VersionRecords
    PROVE  OwnedByOpen(Append(vs, v)) \subseteq OwnedByOpen(vs) \cup v.owns
<1> DEFINE ws == Append(vs, v)
<1> SUFFICES ASSUME NEW i \in DOMAIN ws, ws[i].open, NEW a \in ws[i].owns
             PROVE  a \in OwnedByOpen(vs) \cup v.owns
  BY DEF OwnedByOpen
<1>1. CASE i = Len(vs) + 1
  BY <1>1
<1>2. CASE i # Len(vs) + 1
  <2>1. i \in DOMAIN vs /\ ws[i] = vs[i]
    BY <1>2
  <2> QED BY <2>1 DEF OwnedByOpen
<1> QED BY <1>1, <1>2

\* Closing a version, or releasing what a closed one owns, adds nothing.
LEMMA ShrinkOwns ==
    ASSUME NEW vs, NEW ws, DOMAIN ws = DOMAIN vs,
           \A i \in DOMAIN vs : ws[i].open => ws[i] = vs[i]
    PROVE  OwnedByOpen(ws) \subseteq OwnedByOpen(vs)
BY DEF OwnedByOpen

-----------------------------------------------------------------------------
(* The invariant holds at first *)

LEMMA InvInit == ASSUME ProfileMediaAssumption PROVE Init => Inv
<1> SUFFICES ASSUME Init PROVE Inv
  OBVIOUS
<1> USE DEF Init, Free, NoBackup, EmptyDatabase
<1>1. /\ InSlots(slots) = {} /\ OwnedByOpen(versions) = {}
      /\ InSlots(EmptyDatabase.slots) = {}
  BY DEF InSlots, OwnedByOpen
<1>2. TypeOK
  <2>1. <<>> \in Seq([owns : SUBSET Assets, open : BOOLEAN]) /\ Len(<<>>) = 0
    OBVIOUS
  <2>2. EmptyDatabase \in Snapshots
    BY <2>1 DEF Snapshots
  <2>3. NoBackup \in [running : BOOLEAN, snapshot : Snapshots, todo : SUBSET Assets]
    BY <2>2
  <2>4. Free \in [held : BOOLEAN, todo : SUBSET Assets, gone : SUBSET Assets]
    OBVIOUS
  <2>5. [rows |-> rows, slots |-> slots, versions |-> versions] \in Snapshots
    BY <2>2
  <2>6. Len(versions) <= MaxVersions /\ stops \in 0 .. MaxStops
    BY <2>1 DEF ProfileMediaAssumption
  <2> HIDE DEF Free, NoBackup, EmptyDatabase
  <2> QED BY <2>2, <2>3, <2>4, <2>5, <2>6 DEF TypeOK
<1>3. ArchiveInv /\ UploadInv /\ CleanerInv /\ BackupInv
  BY <1>1, <1>2 DEF TypeOK, ArchiveInv, Past, UploadInv, CleanerInv, BackupInv
<1>4. ReferencedHasBytes /\ BackupFindsMedia
  BY <1>1 DEF ReferencedHasBytes, BackupFindsMedia
<1> QED BY <1>2, <1>3, <1>4 DEF Inv

-----------------------------------------------------------------------------
(* Every step keeps it *)

LEMMA PublishKeeps ==
    ASSUME Inv, NEW s \in Slots, Publish(s)
    PROVE  Inv'
<1> DEFINE a == CHOOSE x \in Assets : x \notin used
<1>1. a \in Assets \ used
  BY DEF Inv, TypeOK, Publish
<1>2. /\ used' = used \cup {a} /\ files' = files \cup {a}
      /\ uploads' = uploads \cup {<<a, s>>}
      /\ UNCHANGED <<databaseVars, cleaner, backup, archive, restored, stops>>
  BY DEF Publish
<1> HIDE DEF a
<1>3. TypeOK'
  BY <1>1, <1>2 DEF Inv, TypeOK, databaseVars
<1>4. ArchiveInv' /\ UploadInv'
  <2>1. \A u \in uploads : u[1] \in used
    BY DEF Inv, UploadInv, TypeOK
  <2>2. a \in files' \ rows'
    BY <1>1, <1>2 DEF Inv, UploadInv, databaseVars
  <2> QED BY <1>1, <1>2, <2>1, <2>2 DEF Inv, ArchiveInv, Past, UploadInv, databaseVars
<1>5. CleanerInv' /\ BackupInv'
  BY <1>2 DEF Inv, CleanerInv, BackupInv, Referenced, databaseVars
<1>6. ReferencedHasBytes' /\ BackupFindsMedia'
  BY <1>2 DEF Inv, ReferencedHasBytes, BackupFindsMedia, databaseVars
<1> QED BY <1>3, <1>4, <1>5, <1>6 DEF Inv

\* A new version of the profile owns what is in the new slots.
LEMMA MutateKeeps ==
    ASSUME ProfileMediaAssumption, Inv,
           NEW sl \in [Slots -> Assets \cup {None}], InSlots(sl) \subseteq files,
           Mutate(sl),
           rows \subseteq rows', rows' \subseteq used,
           uploads' \subseteq uploads, \A u \in uploads' : u[1] \notin rows'
    PROVE  Inv'
<1> DEFINE v == [owns |-> InSlots(sl), open |-> TRUE]
<1>1. /\ ~cleaner.held /\ Len(versions) < MaxVersions
      /\ slots' = sl /\ versions' = Append(versions, v)
      /\ UNCHANGED <<used, files, cleaner, backup, archive, restored, stops>>
  BY DEF Mutate
<1>2. v \in VersionRecords
  BY SlotsOwn DEF VersionRecords
<1>3. versions \in Seq(VersionRecords)
  BY DEF Inv, TypeOK, Snapshots, VersionRecords
<1>4. OwnedByOpen(versions') \subseteq OwnedByOpen(versions) \cup InSlots(sl)
  BY <1>1, <1>2, <1>3, AppendOwns
<1>5. TypeOK'
  <2>1. versions' \in Seq(VersionRecords) /\ Len(versions') <= MaxVersions
    <3> HIDE DEF v
    <3> QED BY <1>1, <1>2, <1>3 DEF Inv, TypeOK, ProfileMediaAssumption
  <2>2. rows' \subseteq Assets /\ uploads' \subseteq Assets \X Slots
    BY DEF Inv, TypeOK
  <2> QED BY <1>1, <2>1, <2>2 DEF Inv, TypeOK, Snapshots, VersionRecords
<1>6. ArchiveInv' /\ UploadInv'
  BY <1>1 DEF Inv, ArchiveInv, Past, UploadInv
<1>7. CleanerInv' /\ BackupInv'
  BY <1>1 DEF Inv, CleanerInv, BackupInv
<1>8. ReferencedHasBytes'
  BY <1>1, <1>4 DEF Inv, ReferencedHasBytes
<1>9. BackupFindsMedia'
  BY <1>1 DEF Inv, BackupFindsMedia
<1> QED BY <1>5, <1>6, <1>7, <1>8, <1>9 DEF Inv

LEMMA EditKeeps ==
    ASSUME ProfileMediaAssumption, Inv,
           \/ \E s \in Slots : Clear(s)
           \/ \E a \in Assets, s \in Slots : Replace(a, s)
           \/ UpdateText
    PROVE  Inv'
<1>0. /\ slots \in [Slots -> Assets \cup {None}]
      /\ InSlots(slots) \subseteq files
      /\ rows \subseteq used
      /\ \A u \in uploads : u[1] \notin rows
  BY DEF Inv, TypeOK, Snapshots, UploadInv, ReferencedHasBytes
<1>1. ASSUME NEW s \in Slots, Clear(s) PROVE Inv'
  <2> DEFINE sl == [slots EXCEPT ![s] = None]
  <2>1. sl \in [Slots -> Assets \cup {None}] /\ InSlots(sl) \subseteq files
    BY <1>0, SlotChanged
  <2> QED BY <1>0, <1>1, <2>1, MutateKeeps DEF Clear
<1>2. ASSUME NEW a \in Assets, NEW s \in Slots, Replace(a, s) PROVE Inv'
  <2> DEFINE sl == [slots EXCEPT ![s] = a]
  <2>1. /\ <<a, s>> \in uploads /\ Mutate(sl)
        /\ rows' = rows \cup {a} /\ uploads' = uploads \ {<<a, s>>}
    BY <1>2 DEF Replace
  <2>2. a \in files /\ a \in used
    BY <2>1 DEF Inv, UploadInv, TypeOK
  <2>3. sl \in [Slots -> Assets \cup {None}] /\ InSlots(sl) \subseteq files
    <3>1. InSlots(sl) \subseteq InSlots(slots) \cup {a}
      BY <1>0, SlotChanged
    <3> QED BY <1>0, <2>2, <3>1
  <2>4. \A u \in uploads' : u[1] \notin rows'
    <3> SUFFICES ASSUME NEW u \in uploads' PROVE u[1] # a
      BY <1>0, <2>1
    <3>1. u \in uploads /\ u # <<a, s>>
      BY <2>1
    <3>2. u[1] # <<a, s>>[1]
      BY <2>1, <3>1 DEF Inv, UploadInv
    <3> QED BY <3>2
  <2>5. rows \subseteq rows' /\ rows' \subseteq used /\ uploads' \subseteq uploads
    BY <1>0, <2>1, <2>2
  <2> HIDE DEF sl
  <2> QED BY <2>1, <2>3, <2>4, <2>5, MutateKeeps
<1>3. ASSUME UpdateText PROVE Inv'
  BY <1>0, <1>3, MutateKeeps DEF UpdateText
<1> QED BY <1>1, <1>2, <1>3

\* What only forgets uploads, or settles versions, or lets the cleanup or the
\* backup go on, keeps every file.
LEMMA UploadLostKeeps ==
    ASSUME Inv, NEW u \in uploads, UploadLost(u), ProfileMediaAssumption
    PROVE  Inv'
<1> USE DEF UploadLost, Stops, databaseVars
<1>1. TypeOK'
  BY DEF Inv, TypeOK, ProfileMediaAssumption
<1>2. ArchiveInv' /\ UploadInv' /\ CleanerInv' /\ BackupInv'
  BY DEF Inv, ArchiveInv, Past, UploadInv, CleanerInv, BackupInv, Referenced
<1>3. ReferencedHasBytes' /\ BackupFindsMedia'
  BY DEF Inv, ReferencedHasBytes, BackupFindsMedia
<1> QED BY <1>1, <1>2, <1>3 DEF Inv

\* Versions close, or closed ones release what they own.
LEMMA ReleaseKeeps ==
    ASSUME Inv, versions' \in Seq(VersionRecords), Len(versions') = Len(versions),
           \A i \in DOMAIN versions : versions'[i].open => versions'[i] = versions[i],
           rows' \subseteq rows,
           cleaner' \in {cleaner, Free}, cleaner' = cleaner => ~cleaner.held,
           UNCHANGED <<used, files, slots, uploads, backup, archive, restored, stops>>
    PROVE  Inv'
<1>1. versions \in Seq(VersionRecords)
  BY DEF Inv, TypeOK, Snapshots, VersionRecords
<1>2. OwnedByOpen(versions') \subseteq OwnedByOpen(versions)
  BY <1>1, ShrinkOwns
<1>3. cleaner'.todo = {} /\ ~cleaner'.held
  BY DEF Inv, CleanerInv, Free
<1>4. TypeOK'
  <2>1. cleaner' \in [held : BOOLEAN, todo : SUBSET Assets, gone : SUBSET Assets]
    <3>1. Free \in [held : BOOLEAN, todo : SUBSET Assets, gone : SUBSET Assets]
      BY DEF Free
    <3>2. cleaner \in [held : BOOLEAN, todo : SUBSET Assets, gone : SUBSET Assets]
      BY DEF Inv, TypeOK
    <3> QED BY <3>1, <3>2
  <2>2. [rows |-> rows', slots |-> slots', versions |-> versions'] \in Snapshots
    BY DEF Inv, TypeOK, Snapshots, VersionRecords
  <2> QED BY <2>1, <2>2 DEF Inv, TypeOK
<1>5. ArchiveInv' /\ UploadInv' /\ CleanerInv' /\ BackupInv'
  BY <1>3 DEF Inv, ArchiveInv, Past, UploadInv, CleanerInv, BackupInv
<1>6. ReferencedHasBytes' /\ BackupFindsMedia'
  BY <1>2 DEF Inv, ReferencedHasBytes, BackupFindsMedia
<1> QED BY <1>4, <1>5, <1>6 DEF Inv

LEMMA SettleKeeps ==
    ASSUME Inv, NEW i, Settle(i)
    PROVE  Inv'
<1>1. versions \in Seq(VersionRecords)
  BY DEF Inv, TypeOK, Snapshots, VersionRecords
<1>2. PICK owns \in {{}, versions[i].owns} :
          versions' = [versions EXCEPT ![i] = [owns |-> owns, open |-> FALSE]]
  BY DEF Settle
<1>3. i \in DOMAIN versions /\ [owns |-> owns, open |-> FALSE] \in VersionRecords
  <2>1. i \in DOMAIN versions /\ versions[i] \in VersionRecords
    BY <1>1 DEF Settle
  <2> QED BY <1>2, <2>1 DEF VersionRecords
<1>4. versions' \in Seq(VersionRecords) /\ Len(versions') = Len(versions)
  BY <1>1, <1>2, <1>3
<1>5. \A j \in DOMAIN versions : versions'[j].open => versions'[j] = versions[j]
  BY <1>1, <1>2, <1>3
<1> QED BY <1>4, <1>5, ReleaseKeeps DEF Settle

LEMMA CleanupKeeps ==
    ASSUME Inv, ProfileMediaAssumption,
           \/ CleanupBegins \/ CleanupCommits \/ CleanupDies
           \/ \E a \in Assets : Unlink(a)
    PROVE  Inv'
<1> USE DEF databaseVars
<1>1. CASE CleanupBegins
  <2>1. PICK aged \in SUBSET rows :
            cleaner' = [held |-> TRUE, gone |-> {},
                        todo |-> {a \in aged : ~Referenced(a)}]
    BY <1>1 DEF CleanupBegins
  <2>2. TypeOK'
    BY <1>1, <2>1 DEF CleanupBegins, Inv, TypeOK, Snapshots
  <2>3. ArchiveInv' /\ UploadInv' /\ CleanerInv'
    BY <1>1, <2>1
    DEF CleanupBegins, Inv, ArchiveInv, Past, UploadInv, CleanerInv, Referenced
  <2>4. BackupInv' /\ ReferencedHasBytes' /\ BackupFindsMedia'
    BY <1>1, <2>1
    DEF CleanupBegins, MediaLockExclusive, Inv, BackupInv, ReferencedHasBytes,
        BackupFindsMedia
  <2> QED BY <2>2, <2>3, <2>4 DEF Inv
<1>2. ASSUME NEW a \in Assets, Unlink(a) PROVE Inv'
  <2>1. /\ a \in cleaner.todo /\ cleaner.held /\ files' = files \ {a}
        /\ cleaner' = [cleaner EXCEPT !.todo = @ \ {a}, !.gone = @ \cup {a}]
        /\ UNCHANGED <<used, rows, slots, versions, uploads, backup, archive,
                       restored, stops>>
    BY <1>2 DEF Unlink
  <2>2. cleaner \in [held : BOOLEAN, todo : SUBSET Assets, gone : SUBSET Assets]
    BY DEF Inv, TypeOK
  <2>3. /\ cleaner' \in [held : BOOLEAN, todo : SUBSET Assets, gone : SUBSET Assets]
        /\ cleaner'.held = cleaner.held /\ cleaner'.todo = cleaner.todo \ {a}
    BY <2>1, <2>2
  <2>4. ~Referenced(a) /\ a \in rows /\ backup.todo = {}
    BY <2>1 DEF Inv, CleanerInv, BackupInv
  <2>5. TypeOK'
    BY <2>1, <2>3 DEF Inv, TypeOK
  <2>6. ArchiveInv' /\ UploadInv'
    BY <2>1, <2>4 DEF Inv, ArchiveInv, Past, UploadInv
  <2>7. CleanerInv' /\ BackupInv'
    BY <2>1, <2>3 DEF Inv, CleanerInv, BackupInv, Referenced
  <2>8. ReferencedHasBytes' /\ BackupFindsMedia'
    BY <2>1, <2>4 DEF Inv, ReferencedHasBytes, BackupFindsMedia, Referenced
  <2> QED BY <2>5, <2>6, <2>7, <2>8 DEF Inv
<1>3. CASE CleanupCommits
  <2>1. versions \in Seq(VersionRecords)
    BY DEF Inv, TypeOK, Snapshots, VersionRecords
  <2>2. versions' = [i \in DOMAIN versions |->
                        IF versions[i].open THEN versions[i]
                        ELSE [versions[i] EXCEPT !.owns = {}]]
    BY <1>3 DEF CleanupCommits
  <2>3. \A i \in DOMAIN versions : versions'[i] \in VersionRecords
    <3> SUFFICES ASSUME NEW r \in VersionRecords
                 PROVE  [r EXCEPT !.owns = {}] \in VersionRecords
      BY <2>1, <2>2
    <3> QED BY DEF VersionRecords
  <2>4. versions' \in Seq(VersionRecords) /\ Len(versions') = Len(versions)
    BY <2>1, <2>2, <2>3
  <2>5. \A i \in DOMAIN versions : versions'[i].open => versions'[i] = versions[i]
    BY <2>1, <2>2 DEF VersionRecords
  <2>6. rows' \subseteq rows /\ cleaner' = Free /\ cleaner.held
    BY <1>3 DEF CleanupCommits
  <2>7. UNCHANGED <<used, files, slots, uploads, backup, archive, restored, stops>>
    BY <1>3 DEF CleanupCommits
  <2> QED BY <2>4, <2>5, <2>6, <2>7, ReleaseKeeps DEF Free
<1>4. CASE CleanupDies
  <2> USE <1>4 DEF CleanupDies, Stops, Free
  <2>1. TypeOK'
    BY DEF Inv, TypeOK, ProfileMediaAssumption
  <2>2. ArchiveInv' /\ UploadInv' /\ CleanerInv' /\ BackupInv'
    BY DEF Inv, ArchiveInv, Past, UploadInv, CleanerInv, BackupInv
  <2>3. ReferencedHasBytes' /\ BackupFindsMedia'
    BY DEF Inv, ReferencedHasBytes, BackupFindsMedia
  <2> QED BY <2>1, <2>2, <2>3 DEF Inv
<1> QED BY <1>1, <1>2, <1>3, <1>4

LEMMA BackupKeeps ==
    ASSUME Inv, ProfileMediaAssumption,
           \/ BackupBegins \/ BackupPublished \/ BackupFails \/ Restore
           \/ \E a \in Assets : Copy(a)
    PROVE  Inv'
<1> USE DEF databaseVars
<1>0. /\ slots \in [Slots -> Assets \cup {None}]
      /\ InSlots(slots) \subseteq Assets /\ InSlots(slots) \subseteq files
  BY SlotsOwn DEF Inv, TypeOK, Snapshots, ReferencedHasBytes
<1>1. CASE BackupBegins
  <2> DEFINE now == [rows |-> rows, slots |-> slots, versions |-> versions]
  <2>1. /\ backup' = [running |-> TRUE, snapshot |-> now, todo |-> InSlots(slots)]
        /\ ~cleaner.held
        /\ UNCHANGED <<used, files, rows, slots, versions, uploads, cleaner, archive,
                       restored, stops>>
    BY <1>1 DEF BackupBegins, Snapshot
  <2>2. now \in Snapshots
    BY DEF Inv, TypeOK
  <2>3. TypeOK'
    <3> HIDE DEF now
    <3> QED BY <1>0, <2>1, <2>2 DEF Inv, TypeOK, Snapshots
  <2>4. ArchiveInv' /\ UploadInv'
    BY <1>0, <2>1 DEF Inv, TypeOK, ArchiveInv, Past, UploadInv
  <2>5. CleanerInv' /\ BackupInv'
    BY <2>1 DEF Inv, CleanerInv, BackupInv
  <2>6. ReferencedHasBytes' /\ BackupFindsMedia'
    BY <1>0, <2>1 DEF Inv, ReferencedHasBytes, BackupFindsMedia
  <2> QED BY <2>3, <2>4, <2>5, <2>6 DEF Inv
<1>2. ASSUME NEW a \in Assets, Copy(a) PROVE Inv'
  <2> USE <1>2 DEF Copy
  <2>1. TypeOK'
    BY DEF Inv, TypeOK
  <2>2. ArchiveInv' /\ UploadInv' /\ CleanerInv' /\ BackupInv'
    BY DEF Inv, TypeOK, ArchiveInv, Past, UploadInv, CleanerInv, BackupInv, Referenced
  <2>3. ReferencedHasBytes' /\ BackupFindsMedia'
    BY DEF Inv, TypeOK, ReferencedHasBytes, BackupFindsMedia
  <2> QED BY <2>1, <2>2, <2>3 DEF Inv
<1>3. CASE BackupPublished \/ BackupFails
  <2>1. /\ archive' \in {archive, backup.snapshot} /\ backup' = NoBackup
        /\ stops' \in 0 .. MaxStops
        /\ UNCHANGED <<used, files, rows, slots, versions, uploads, cleaner, restored>>
    BY <1>3 DEF BackupPublished, BackupFails, Stops, Inv, TypeOK, ProfileMediaAssumption
  <2>2. /\ EmptyDatabase \in Snapshots /\ EmptyDatabase.rows = {}
        /\ InSlots(EmptyDatabase.slots) = {} /\ Len(EmptyDatabase.versions) = 0
    BY DEF EmptyDatabase, Snapshots, InSlots
  <2>3. TypeOK'
    BY <2>1, <2>2 DEF NoBackup, Inv, TypeOK
  <2>4. ArchiveInv' /\ UploadInv'
    BY <2>1, <2>2 DEF NoBackup, Inv, ArchiveInv, Past, UploadInv, ProfileMediaAssumption
  <2>5. CleanerInv' /\ BackupInv'
    BY <2>1 DEF NoBackup, Inv, CleanerInv, BackupInv, Referenced
  <2>6. ReferencedHasBytes' /\ BackupFindsMedia'
    BY <2>1 DEF NoBackup, Inv, ReferencedHasBytes, BackupFindsMedia
  <2> QED BY <2>3, <2>4, <2>5, <2>6 DEF Inv
<1>4. CASE Restore
  <2> USE <1>4 DEF Restore, Stops
  <2>1. archive \in Snapshots /\ InSlots(archive.slots) \subseteq Assets
    BY SlotsOwn DEF Inv, TypeOK, Snapshots
  <2>2. Past(archive) /\ backup.todo = {} /\ cleaner.todo = {}
    BY DEF Inv, ArchiveInv, BackupInv, CleanerInv
  <2>3. [rows |-> rows', slots |-> slots', versions |-> versions'] = archive
    BY <2>1 DEF Snapshots
  <2>4. TypeOK'
    BY <2>1, <2>2, <2>3 DEF Past, Inv, TypeOK, ProfileMediaAssumption
  <2>5. ArchiveInv' /\ UploadInv' /\ CleanerInv' /\ BackupInv'
    BY <2>2 DEF Inv, ArchiveInv, Past, UploadInv, CleanerInv, BackupInv
  <2>6. ReferencedHasBytes' /\ BackupFindsMedia'
    BY <2>2 DEF ReferencedHasBytes, BackupFindsMedia
  <2> QED BY <2>4, <2>5, <2>6 DEF Inv
<1> QED BY <1>1, <1>2, <1>3, <1>4

LEMMA InvStep == ASSUME ProfileMediaAssumption, Inv, [Next]_vars PROVE Inv'
<1>1. CASE UNCHANGED vars
  <2> USE <1>1 DEF vars, Inv
  <2>1. TypeOK'
    BY DEF TypeOK
  <2>2. ArchiveInv' /\ UploadInv' /\ CleanerInv' /\ BackupInv'
    BY DEF ArchiveInv, Past, UploadInv, CleanerInv, BackupInv, Referenced
  <2>3. ReferencedHasBytes' /\ BackupFindsMedia'
    BY DEF ReferencedHasBytes, BackupFindsMedia
  <2> QED BY <2>1, <2>2, <2>3
<1>2. ASSUME NEW s \in Slots, Publish(s) PROVE Inv'
  BY <1>2, PublishKeeps
<1>3. CASE \/ \E s \in Slots : Clear(s)
           \/ \E a \in Assets, s \in Slots : Replace(a, s)
           \/ UpdateText
  BY <1>3, EditKeeps
<1>4. ASSUME NEW u \in uploads, UploadLost(u) PROVE Inv'
  BY <1>4, UploadLostKeeps
<1>5. ASSUME NEW i \in 1 .. MaxVersions, Settle(i) PROVE Inv'
  BY <1>5, SettleKeeps
<1>6. CASE \/ CleanupBegins \/ CleanupCommits \/ CleanupDies
           \/ \E a \in Assets : Unlink(a)
  BY <1>6, CleanupKeeps
<1>7. CASE \/ BackupBegins \/ BackupPublished \/ BackupFails \/ Restore
           \/ \E a \in Assets : Copy(a)
  BY <1>7, BackupKeeps
<1> QED BY <1>1, <1>2, <1>3, <1>4, <1>5, <1>6, <1>7 DEF Next

-----------------------------------------------------------------------------
(* The theorems *)

\* Every variable keeps its type.
THEOREM MediaTypes == ASSUME ProfileMediaAssumption PROVE Spec => []TypeOK
<1>1. Init => Inv
  BY InvInit
<1>2. Inv /\ [Next]_vars => Inv'
  BY InvStep
<1>3. Inv => TypeOK
  BY DEF Inv
<1> QED BY <1>1, <1>2, <1>3, PTL DEF Spec

\* A picture that a profile shows, or an unsent version names, is there,
\* whatever uploads, cleanups, backups and crashes interleave.
THEOREM PicturesStay == ASSUME ProfileMediaAssumption PROVE Spec => []ReferencedHasBytes
<1>1. Init => Inv
  BY InvInit
<1>2. Inv /\ [Next]_vars => Inv'
  BY InvStep
<1>3. Inv => ReferencedHasBytes
  BY DEF Inv
<1> QED BY <1>1, <1>2, <1>3, PTL DEF Spec

\* A backup finds every file that its snapshot of the database refers to.
THEOREM BackupsComplete == ASSUME ProfileMediaAssumption PROVE Spec => []BackupFindsMedia
<1>1. Init => Inv
  BY InvInit
<1>2. Inv /\ [Next]_vars => Inv'
  BY InvStep
<1>3. Inv => BackupFindsMedia
  BY DEF Inv
<1> QED BY <1>1, <1>2, <1>3, PTL DEF Spec
=============================================================================
