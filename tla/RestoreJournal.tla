--------------------------- MODULE RestoreJournal ---------------------------
(***************************************************************************)
(* The database file and the profile-media directory of a deployment, and  *)
(* the complete restore that replaces both (db/backup.py).  No rename can  *)
(* switch them together, so a restore keeps a journal, the marker file:    *)
(* it moves the live parts aside one by one, installs the new ones one by  *)
(* one, verifies, commits and cleans up.  Whoever next holds the           *)
(* deployment lock exclusively, another restore or the bridge at its start *)
(* (app.py), rolls an interrupted restore back, or forward once it had     *)
(* committed.                                                              *)
(*                                                                         *)
(* The bridge holds the lock shared while it runs, and so does a backup    *)
(* while it reads.  SQLite's side file for an unfinished transaction, the  *)
(* hot journal, stays where it is: the next connection that may write      *)
(* rolls it back into whatever database it then finds.                     *)
(*                                                                         *)
(* The lists of parts moved and installed that the marker carries are read *)
(* by nobody and left out; -wal and -shm files do not exist in the journal *)
(* mode the bridge uses.                                                   *)
(***************************************************************************)
EXTENDS Naturals, FiniteSets

CONSTANTS
    Generations,    \* the deployment's first state and the archives restored
    Absent,         \* no such file
    Stray,          \* a database or directory of no generation
    MaxStops        \* bound: processes that die or fail

RestoreJournalAssumption ==
    /\ Absent \notin Generations
    /\ Stray \notin Generations \cup {Absent}
    /\ MaxStops \in Nat

VARIABLES
    live,       \* part -> the generation at its live path
    retained,   \* part -> what the restore moved into its old directory
    staged,     \* part -> what it extracted and has not installed
    marker,     \* the journal: phase, new generation, original presence
    stage,      \* process -> where it is
    todo,       \* process -> parts its present loop has not come to
    current,    \* history: the generation the deployment last agreed on
    has,        \* generation -> the parts it consists of
    used,       \* generations introduced so far
    hot,        \* generation of the unfinished transaction in the hot journal
    torn,       \* generations whose file has pages of that transaction
    opened,     \* history: a database was opened while a marker was there
    stops

vars == <<live, retained, staged, marker, stage, todo, current, has, used, hot,
          torn, opened, stops>>

Parts == {"database", "media"}
Processes == {"bridge", "restore"}
NoParts == [p \in Parts |-> Absent]
NoMarker == [phase |-> "none", new |-> Absent, presence |-> {}]
Exclusive == {"entered", "rollback", "cleaning", "ready", "moving", "installing",
              "verifying", "finishing"}

TypeOK ==
    /\ live \in [Parts -> Generations \cup {Absent, Stray}]
    /\ retained \in [Parts -> Generations \cup {Absent, Stray}]
    /\ staged \in [Parts -> Generations \cup {Absent}]
    /\ marker \in [phase : {"none", "prepared", "committed"},
                   new : Generations \cup {Absent}, presence : SUBSET Parts]
    /\ stage \in [Processes -> Exclusive \cup {"off", "gap", "up"}]
    /\ todo \in [Processes -> SUBSET Parts]
    /\ current \in Generations
    /\ has \in [Generations -> SUBSET Parts]
    /\ used \subseteq Generations
    /\ hot \in Generations \cup {Absent}
    /\ torn \subseteq Generations
    /\ opened \in BOOLEAN
    /\ stops \in 0 .. MaxStops

\* What generation g looks like at the live paths.
Image(g) == [p \in Parts |-> IF p \in has[g] THEN g ELSE Absent]

\* A clean directory, a deployment of before profile media, or a full one.
Init ==
    /\ current \in Generations
    /\ used = {current}
    /\ has \in [Generations -> SUBSET Parts]
    /\ has[current] \in {{}, {"database"}, Parts}
    /\ \A g \in Generations \ {current} : has[g] = {"database"}
    /\ live = Image(current)
    /\ retained = NoParts /\ staged = NoParts
    /\ marker = NoMarker
    /\ stage = [x \in Processes |-> "off"]
    /\ todo = [x \in Processes |-> {}]
    /\ hot = Absent /\ torn = {}
    /\ opened = FALSE
    /\ stops = 0

-----------------------------------------------------------------------------
(* The deployment lock *)

\* FileLock.acquire(exclusive=False) succeeds.
Shareable == \A x \in Processes : stage[x] \notin Exclusive

\* build_runtime and restore_complete_backup take the lock exclusively.
Acquire(x) ==
    /\ stage[x] = "off"
    /\ Shareable
    /\ \A y \in Processes : stage[y] # "up"
    /\ stage' = [stage EXCEPT ![x] = "entered"]
    /\ UNCHANGED <<live, retained, staged, marker, todo, current, has, used, hot,
                   torn, opened, stops>>

\* The database after a connection that may write was opened: a missing one is
\* created, and a hot journal is rolled back into whatever is there.
Opened ==
    IF live.database = Absent
    THEN IF marker = NoMarker THEN current ELSE Stray
    ELSE IF hot \in {Absent, live.database} THEN live.database ELSE Stray

Opens(parts) ==
    /\ hot' = Absent
    /\ torn' = IF hot = live.database THEN torn \ {hot} ELSE torn
    /\ has' = IF Opened \in Generations THEN [has EXCEPT ![Opened] = @ \cup parts] ELSE has
    /\ opened' = (opened \/ marker # NoMarker)

-----------------------------------------------------------------------------
(* recover_incomplete_restore, by either process *)

Recovered(x) ==
    stage' = [stage EXCEPT ![x] = IF x = "bridge" THEN "gap" ELSE "ready"]

NothingToRecover(x) ==
    /\ stage[x] = "entered"
    /\ marker = NoMarker
    /\ Recovered(x)
    /\ UNCHANGED <<live, retained, staged, marker, todo, current, has, used, hot,
                   torn, opened, stops>>

\* The database is the archive's and its media are there.  A hot journal fails
\* the check, which opens the database for reading only; so does, by the stored
\* hash, a database the bridge has written to (Stop).
Verified == live.database = marker.new /\ hot = Absent

RollForward(x) ==
    /\ stage[x] = "entered"
    /\ marker.phase = "committed"
    /\ Verified
    /\ stage' = [stage EXCEPT ![x] = "cleaning"]
    /\ UNCHANGED <<live, retained, staged, marker, todo, current, has, used, hot,
                   torn, opened, stops>>

RollBack(x) ==
    /\ stage[x] = "entered"
    /\ marker.phase = "prepared"
    /\ stage' = [stage EXCEPT ![x] = "rollback"]
    /\ todo' = [todo EXCEPT ![x] = Parts]
    /\ UNCHANGED <<live, retained, staged, marker, current, has, used, hot, torn,
                   opened, stops>>

\* The loops go through the parts in one order, the database first.
Turn(x, p) == p \in todo[x] /\ (p = "media" => "database" \notin todo[x])

\* Part p is dealt with; after the last one the process moves on.
Done(x, p, then) ==
    LET left == todo[x] \ {p} IN
    IF left # {} THEN todo' = [todo EXCEPT ![x] = left] /\ UNCHANGED stage
    ELSE /\ stage' = [stage EXCEPT ![x] = then.stage]
         /\ todo' = [todo EXCEPT ![x] = then.todo]

\* Variant: whether the old part was moved at all is not looked at.
RemovesAlways(p) == TRUE

\* _remove_path(live): before a retained part comes back, and for good where
\* there was none.
Removes(p) == retained[p] # Absent \/ p \notin marker.presence

RemoveLive(x, p) ==
    /\ stage[x] = "rollback"
    /\ Turn(x, p)
    /\ Removes(p)
    /\ live[p] # Absent
    /\ live' = [live EXCEPT ![p] = Absent]
    /\ UNCHANGED <<retained, staged, marker, stage, todo, current, has, used, hot,
                   torn, opened, stops>>

PutBack(x, p) ==
    /\ stage[x] = "rollback"
    /\ Turn(x, p)
    /\ IF ~Removes(p) THEN /\ p \in marker.presence => live[p] # Absent
                           /\ UNCHANGED <<live, retained>>
       ELSE /\ live[p] = Absent
            /\ live' = [live EXCEPT ![p] = retained[p]]
            /\ retained' = [retained EXCEPT ![p] = Absent]
    /\ Done(x, p, [stage |-> "cleaning", todo |-> {}])
    /\ UNCHANGED <<staged, marker, current, has, used, hot, torn, opened, stops>>

Cleaning(x) == stage[x] \in {"cleaning", "finishing"}

\* _cleanup_restore_generations: both directories go.
Clean(x) ==
    /\ Cleaning(x)
    /\ <<retained, staged>> # <<NoParts, NoParts>>
    /\ retained' = NoParts
    /\ staged' = NoParts
    /\ UNCHANGED <<live, marker, stage, todo, current, has, used, hot, torn, opened,
                   stops>>

Unlink(x) ==
    /\ Cleaning(x)
    /\ retained = NoParts /\ staged = NoParts
    /\ marker' = NoMarker
    /\ IF stage[x] = "finishing" THEN stage' = [stage EXCEPT ![x] = "off"]
       ELSE Recovered(x)
    /\ UNCHANGED <<live, retained, staged, todo, current, has, used, hot, torn,
                   opened, stops>>

-----------------------------------------------------------------------------
(* restore_complete_backup *)

\* The archive is damaged: nothing has been touched.
Refuse ==
    /\ stage["restore"] = "ready"
    /\ stage' = [stage EXCEPT !["restore"] = "off"]
    /\ UNCHANGED <<live, retained, staged, marker, todo, current, has, used, hot,
                   torn, opened, stops>>

\* The archive g is extracted and the marker written.
Publish(g) ==
    /\ stage["restore"] = "ready"
    /\ g \notin used
    /\ used' = used \cup {g}
    /\ \E parts \in {{"database"}, Parts} : has' = [has EXCEPT ![g] = parts]
    /\ staged' = [p \in Parts |-> IF p \in has'[g] THEN g ELSE Absent]
    /\ marker' = [phase |-> "prepared", new |-> g,
                  presence |-> {p \in Parts : live[p] # Absent}]
    /\ stage' = [stage EXCEPT !["restore"] = "moving"]
    /\ todo' = [todo EXCEPT !["restore"] = Parts]
    /\ UNCHANGED <<live, retained, current, hot, torn, opened, stops>>

MoveOld(p) ==
    /\ stage["restore"] = "moving"
    /\ Turn("restore", p)
    /\ live' = [live EXCEPT ![p] = Absent]
    /\ retained' = [retained EXCEPT ![p] = live[p]]
    /\ Done("restore", p, [stage |-> "installing", todo |-> Parts])
    /\ UNCHANGED <<staged, marker, current, has, used, hot, torn, opened, stops>>

InstallNew(p) ==
    /\ stage["restore"] = "installing"
    /\ Turn("restore", p)
    /\ live' = [live EXCEPT ![p] = staged[p]]
    /\ staged' = [staged EXCEPT ![p] = Absent]
    /\ Done("restore", p, [stage |-> "verifying", todo |-> {}])
    /\ UNCHANGED <<retained, marker, current, has, used, hot, torn, opened, stops>>

Commit ==
    /\ stage["restore"] = "verifying"
    /\ Verified
    /\ marker' = [marker EXCEPT !.phase = "committed"]
    /\ current' = marker.new
    /\ stage' = [stage EXCEPT !["restore"] = "finishing"]
    /\ UNCHANGED <<live, retained, staged, todo, has, used, hot, torn, opened, stops>>

-----------------------------------------------------------------------------
(* The bridge, and backups *)

\* The exclusive lock was released and the shared lease is there: the database
\* is opened and the media directories are created.
Start ==
    /\ stage["bridge"] = "gap"
    /\ Shareable
    /\ stage' = [stage EXCEPT !["bridge"] = "up"]
    /\ Opens(Parts)
    /\ live' = [live EXCEPT !.database = Opened, !.media = IF @ = Absent THEN Opened ELSE @]
    /\ UNCHANGED <<retained, staged, marker, todo, current, used, stops>>

Shutdown ==
    /\ stage["bridge"] = "up"
    /\ stage' = [stage EXCEPT !["bridge"] = "off"]
    /\ UNCHANGED <<live, retained, staged, marker, todo, current, has, used, hot,
                   torn, opened, stops>>

Stops == stops < MaxStops /\ stops' = stops + 1

\* The bridge dies in the middle of a transaction whose pages are on disk.
DieInTransaction ==
    /\ stage["bridge"] = "up"
    /\ live.database \in Generations
    /\ Stops
    /\ hot' = live.database
    /\ torn' = torn \cup {live.database}
    /\ stage' = [stage EXCEPT !["bridge"] = "off"]
    /\ UNCHANGED <<live, retained, staged, marker, todo, current, has, used, opened>>

\* A process that holds the lock exclusively dies, or a call of it raises, or
\* the bridge waits in vain for its lease.
Stop(x) ==
    /\ stage[x] \in Exclusive \cup {"gap"}
    /\ Stops
    /\ stage' = [stage EXCEPT ![x] = "off"]
    /\ todo' = [todo EXCEPT ![x] = {}]
    /\ UNCHANGED <<live, retained, staged, marker, current, has, used, hot, torn,
                   opened>>

\* create_complete_backup opens the database as the bridge does, and looks at
\* no marker.
Backup ==
    /\ Shareable
    /\ Opens({"database"})
    /\ live' = [live EXCEPT !.database = Opened]
    /\ UNCHANGED <<retained, staged, marker, stage, todo, current, used, stops>>

-----------------------------------------------------------------------------
Next ==
    \/ \E x \in Processes :
          \/ Acquire(x) \/ NothingToRecover(x) \/ RollForward(x) \/ RollBack(x)
          \/ \E p \in Parts : RemoveLive(x, p) \/ PutBack(x, p)
          \/ Clean(x) \/ Unlink(x) \/ Stop(x)
    \/ Refuse
    \/ \E g \in Generations : Publish(g)
    \/ \E p \in Parts : MoveOld(p) \/ InstallNew(p)
    \/ Commit
    \/ Start \/ Shutdown \/ DieInTransaction \/ Backup

Spec == Init /\ [][Next]_vars

-----------------------------------------------------------------------------
(* Properties *)

\* The deployment is one generation: every part of it and no other, and no
\* page of an unfinished transaction without the journal that takes it back.
Whole == live = Image(current) /\ torn \subseteq {hot} /\ hot \in {Absent, current}

\* Wherever a restore dies or fails, and wherever its recovery does, the
\* deployment ends up as the whole old generation or the whole new one,
\* provided nothing opened the database before the recovery was done
\* (recover_incomplete_restore, backup.py:270-289).
RecoversWhole == marker = NoMarker => Whole \/ opened

\* An unfinished transaction can still be taken back once recovery is done:
\* what comes back is the old state, not the old file alone.
UnfinishedIsUndone == marker = NoMarker => torn \subseteq {hot}
=============================================================================
