----------------------------- MODULE LegacyMigration -----------------------------
(***************************************************************************)
(* The offline migration of a legacy JSON state into a database: a         *)
(* temporary database is filled, read back, synced, and linked under the   *)
(* destination's name.  Several runs of the tool and the plugin itself may *)
(* work on one destination; processes die and the power fails.  Names are  *)
(* apart from StoreLifecycle's, so that one module can prove about both.   *)
(***************************************************************************)
CONSTANTS
    Runs,       \* runs of cpa-keyer-state-migrate
    Plugin,     \* the database that the plugin creates where there is none
    NoFile      \* no file

ASSUME FilesAssumption == Plugin \notin Runs /\ NoFile \notin Runs /\ NoFile # Plugin

VARIABLES
    dest,       \* the file that has the destination's name
    durable,    \* the file that has it in the directory on disk
    data,       \* what each temporary database holds, WAL included
    main,       \* what its database file holds without the WAL
    synced,     \* runs whose database file is on disk
    temp,       \* runs whose temporary files exist
    stuck,      \* history: runs whose files could not be removed
    doing,      \* what each run is doing
    outcome,    \* what it has reported
    plugin      \* what the plugin is doing with the destination

migrationVars == <<dest, durable, data, main, synced, temp, stuck, doing, outcome, plugin>>

files == <<dest, durable, data, main, synced, temp, stuck>>

--------------------------------------------------------------------------------

\* Nothing, the legacy state, something else, a file the power loss has damaged.
Contents == {"empty", "right", "wrong", "torn"}

Working == {"importing", "verifying", "checkpointing", "closing", "syncing", "linking", "publishing"}
States == {"idle", "preparing", "creating", "cleaning", "done", "dead"} \cup Working

MigrationTypeOK ==
    /\ dest \in Runs \cup {Plugin, NoFile}
    /\ durable \in Runs \cup {Plugin, NoFile}
    /\ data \in [Runs -> Contents]
    /\ main \in [Runs -> Contents]
    /\ synced \subseteq Runs
    /\ temp \subseteq Runs /\ stuck \subseteq Runs
    /\ doing \in [Runs -> States]
    /\ outcome \in [Runs -> {"none", "ok", "failed"}]
    /\ plugin \in {"off", "opening", "on"}

MigrationInit ==
    /\ dest = NoFile
    /\ durable = NoFile
    /\ data = [r \in Runs |-> "empty"]
    /\ main = [r \in Runs |-> "empty"]
    /\ synced = {}
    /\ temp = {} /\ stuck = {}
    /\ doing = [r \in Runs |-> "idle"]
    /\ outcome = [r \in Runs |-> "none"]
    /\ plugin = "off"

Proceeds(r, from, to) == doing[r] = from /\ doing' = [doing EXCEPT ![r] = to]

Reports(r, result) == outcome' = [outcome EXCEPT ![r] = result]

--------------------------------------------------------------------------------
(* migrateLegacyStateFile.                                                   *)

\* validateMigrationPaths: a destination that is there is refused at once.
Validate(r) ==
    /\ Proceeds(r, "idle", "preparing")
    /\ dest = NoFile
    /\ UNCHANGED <<files, outcome, plugin>>

Refuse(r) ==
    /\ Proceeds(r, "idle", "done")
    /\ dest # NoFile
    /\ Reports(r, "failed")
    /\ UNCHANGED <<files, plugin>>

\* LoadState and prepareLegacyState.
Prepare(r) ==
    /\ Proceeds(r, "preparing", "creating")
    /\ UNCHANGED <<files, outcome, plugin>>

CreateTemp(r) ==
    /\ Proceeds(r, "creating", "importing")
    /\ temp' = temp \cup {r}
    /\ UNCHANGED <<dest, durable, data, main, synced, stuck, outcome, plugin>>

\* Nothing is there to be removed.
FailsEarly(r) ==
    /\ doing[r] \in {"preparing", "creating"}
    /\ doing' = [doing EXCEPT ![r] = "done"]
    /\ Reports(r, "failed")
    /\ UNCHANGED <<files, plugin>>

\* openStateDatabase and importLegacyState: committed, to the WAL for now.  What
\* the tables give back need not be what was written.
Import(r) ==
    /\ Proceeds(r, "importing", "verifying")
    /\ \E content \in {"right", "wrong"} : data' = [data EXCEPT ![r] = content]
    /\ UNCHANGED <<dest, durable, main, synced, temp, stuck, outcome, plugin>>

\* verifyLegacyState.
Verify(r) ==
    /\ Proceeds(r, "verifying", "checkpointing")
    /\ data[r] = "right"
    /\ UNCHANGED <<files, outcome, plugin>>

Checkpoint(r) ==
    /\ Proceeds(r, "checkpointing", "closing")
    /\ main' = [main EXCEPT ![r] = data[r]]
    /\ UNCHANGED <<dest, durable, data, synced, temp, stuck, outcome, plugin>>

Close(r) ==
    /\ Proceeds(r, "closing", "syncing")
    /\ UNCHANGED <<files, outcome, plugin>>

\* Mutant of SyncFile: the file is opened and closed.
SyncNothing(r) ==
    /\ Proceeds(r, "syncing", "linking")
    /\ UNCHANGED <<files, outcome, plugin>>

SyncFile(r) ==
    /\ Proceeds(r, "syncing", "linking")
    /\ synced' = synced \cup {r}
    /\ UNCHANGED <<dest, durable, data, main, temp, stuck, outcome, plugin>>

\* Mutant of Link: rename.
RenameOver(r) ==
    /\ Proceeds(r, "linking", "publishing")
    /\ dest' = r
    /\ UNCHANGED <<durable, data, main, synced, temp, stuck, outcome, plugin>>

\* os.Link, which fails where the name is taken: FailsLate.
Link(r) ==
    /\ Proceeds(r, "linking", "publishing")
    /\ dest = NoFile
    /\ dest' = r
    /\ UNCHANGED <<durable, data, main, synced, temp, stuck, outcome, plugin>>

\* Mutant of SyncDirectory: success is reported with the name in memory only.
ReportUnsynced(r) ==
    /\ Proceeds(r, "publishing", "cleaning")
    /\ Reports(r, "ok")
    /\ UNCHANGED <<files, plugin>>

SyncDirectory(r) ==
    /\ Proceeds(r, "publishing", "cleaning")
    /\ durable' = dest
    /\ Reports(r, "ok")
    /\ UNCHANGED <<dest, data, main, synced, temp, stuck, plugin>>

\* Mutant of FailsLate: an error that leaves the temporary files.
FailsDirty(r) ==
    /\ doing[r] \in Working
    /\ doing' = [doing EXCEPT ![r] = "done"]
    /\ Reports(r, "failed")
    /\ UNCHANGED <<files, plugin>>

\* Any error once the temporary file is there; after Link the destination stays.
FailsLate(r) ==
    /\ doing[r] \in Working
    /\ doing' = [doing EXCEPT ![r] = "cleaning"]
    /\ Reports(r, "failed")
    /\ UNCHANGED <<files, plugin>>

\* removeSQLiteFiles: the name goes, the destination's name keeps the file.  An
\* error is ignored.
Clean(r) ==
    /\ Proceeds(r, "cleaning", "done")
    /\ \/ temp' = temp \ {r} /\ UNCHANGED stuck
       \/ stuck' = stuck \cup {r} /\ UNCHANGED temp
    /\ UNCHANGED <<dest, durable, data, main, synced, outcome, plugin>>

--------------------------------------------------------------------------------
(* The plugin, crashes and power failures.                                   *)

\* openStateDatabase creates a database where there is none.
PluginOpens ==
    /\ plugin = "off"
    /\ plugin' = "opening"
    /\ dest' = IF dest = NoFile THEN Plugin ELSE dest
    /\ UNCHANGED <<durable, data, main, synced, temp, stuck, doing, outcome>>

\* Its first transaction: SQLite makes the directory durable with the WAL.
PluginCommits ==
    /\ plugin = "opening"
    /\ plugin' = "on"
    /\ durable' = dest
    /\ UNCHANGED <<dest, data, main, synced, temp, stuck, doing, outcome>>

PluginStops ==
    /\ plugin # "off"
    /\ plugin' = "off"
    /\ UNCHANGED <<files, doing, outcome>>

Crash(r) ==
    /\ doing[r] \notin {"idle", "done", "dead"}
    /\ doing' = [doing EXCEPT ![r] = "dead"]
    /\ UNCHANGED <<files, outcome, plugin>>

\* A name and a file that were not synced may have reached the disk or not.
PowerFails ==
    /\ dest' \in {dest, durable}
    /\ durable' = dest'
    /\ main' \in [Runs -> Contents]
    /\ \A r \in Runs : main'[r] = main[r] \/ (r \notin synced /\ main'[r] = "torn")
    /\ doing' = [r \in Runs |-> IF doing[r] \in {"idle", "done"} THEN doing[r] ELSE "dead"]
    /\ plugin' = "off"
    /\ UNCHANGED <<data, synced, temp, stuck, outcome>>

--------------------------------------------------------------------------------

RunStep(r) ==
    \/ Validate(r) \/ Refuse(r) \/ Prepare(r) \/ CreateTemp(r) \/ FailsEarly(r)
    \/ Import(r) \/ Verify(r) \/ Checkpoint(r) \/ Close(r) \/ SyncFile(r)
    \/ Link(r) \/ SyncDirectory(r) \/ FailsLate(r) \/ Clean(r)

MigrationNext ==
    \/ \E r \in Runs : RunStep(r) \/ Crash(r)
    \/ PluginOpens \/ PluginCommits \/ PluginStops
    \/ PowerFails

MigrationSpec == MigrationInit /\ [][MigrationNext]_migrationVars

--------------------------------------------------------------------------------
(* Properties.                                                               *)

\* A migrated database that has the destination's name is the whole legacy state,
\* at every moment and after every power failure: whoever opens it finds no
\* half-written, unverified or damaged one (migrateLegacyStateFile).
VisibleComplete == dest \in Runs => main[dest] = "right"

\* A run that reported success has made its database the destination for good;
\* hence only one of several runs reports it (syncDirectory, os.Link).
SuccessDurable == \A r \in Runs : outcome[r] = "ok" => dest = r /\ durable = r

\* A run that came to its end, well or not, has removed its temporary files, or
\* tried to and could not (removeSQLiteFiles ignores errors); one that died may
\* leave them.
NoLitter == \A r \in Runs : doing[r] = "done" => r \notin temp \ stuck

\* "An existing destination is never overwritten" (state_migration.go 40), be it
\* another run's or the plugin's: only a power failure takes a name away, and only
\* one that was never made durable.
NeverReplaced ==
    [][dest # NoFile /\ dest' # dest => dest' = NoFile /\ durable = NoFile]_migrationVars

================================================================================
