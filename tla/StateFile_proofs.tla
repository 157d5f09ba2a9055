--------------------------- MODULE StateFile_proofs ---------------------------
(***************************************************************************)
(* StoreLifecycle for any numbers of threads, files and generations: no    *)
(* charge is lost or crosses from one ledger or database to another.  Then *)
(* LegacyMigration, which makes the state file that the store opens.       *)
(***************************************************************************)
EXTENDS StoreLifecycle, LegacyMigration, TLAPS

USE BoundsAssumption, ThreadsAssumption

--------------------------------------------------------------------------------
(* Type correctness.                                                         *)

\* What a flush writes is of the type of what the files hold.
LEMMA FlushedType ==
    ASSUME TypeOK
    PROVE  Flushed \in [Files -> Nat]
  BY DEF TypeOK, Flushed

LEMMA TypeInit ==
    ASSUME Init
    PROVE  TypeOK
  BY DEF Init, TypeOK, Gens, Threads, NothingSeen, RequestStates, ManagerStates, FlusherStates

LEMMA TypeStep ==
    ASSUME TypeOK, [Next]_vars
    PROVE  TypeOK'
  <1> USE DEF TypeOK, Goes, Locks, Unlocks, locks, store, flushing, charging, Threads,
              RequestStates, ManagerStates, FlusherStates
  <1>1. ASSUME NEW r \in Requests, RequestStep(r)
        PROVE  TypeOK'
    <2>1. CASE ReadDatabase(r)
      BY <2>1 DEF ReadDatabase
    <2>2. CASE ReadLedger(r)
      BY <2>2 DEF ReadLedger, NothingSeen
    <2>3. CASE LockCharge(r)
      BY <2>3 DEF LockCharge
    <2>4. CASE Charge(r)
      <3> DEFINE db == seen[r].database
                 ledger == seen[r].ledger
      <3>1. db \in Gens /\ file[db] \in Files
        BY <2>4 DEF Charge
      <3>2. ledger \in Gens => ledgers[ledger] + 1 \in Nat
        OBVIOUS
      <3>3. ledgers' \in [Gens -> Nat]
        BY <2>4, <3>2 DEF Charge
      <3> QED
        BY <2>4, <3>1, <3>3 DEF Charge, NothingSeen
    <2>5. CASE ChargeFails(r)
      BY <2>5 DEF ChargeFails, NothingSeen
    <2> QED
      BY <1>1, <2>1, <2>2, <2>3, <2>4, <2>5 DEF RequestStep
  <1>2. ASSUME NEW g \in Flushers, Tick(g) \/ FlusherStep(g)
        PROVE  TypeOK'
    BY <1>2, FlushedType DEF Tick, FlusherStep, LockFlush, FlusherSaves, FlusherExits
  <1>3. ASSUME NEW m \in Managers, BeginConfigure(m) \/ BeginClose(m) \/ ManagerStep(m)
        PROVE  TypeOK'
    <2>1. CASE BeginConfigure(m) \/ BeginClose(m)
      BY <2>1 DEF BeginConfigure, BeginClose
    <2>2. CASE TakeFlusher(m) \/ FlusherDone(m)
      BY <2>2 DEF TakeFlusher, FlusherDone
    <2>3. CASE LockFlush(m) \/ ManagerSaves(m) \/ ManagerSaveFails(m)
      BY <2>3, FlushedType DEF LockFlush, ManagerSaves, ManagerSaveFails
    <2>4. CASE LockReplace(m)
      BY <2>4 DEF LockReplace
    <2>5. CASE ReplaceFails(m)
      BY <2>5 DEF ReplaceFails
    <2>6. CASE EndClose(m)
      BY <2>6 DEF EndClose
    <2>7. CASE Replace(m)
      BY <2>7 DEF Replace
    <2>8. CASE StartFlusher(m) \/ FlusherThere(m)
      BY <2>8 DEF StartFlusher, FlusherThere
    <2> QED
      BY <1>3, <2>1, <2>2, <2>3, <2>4, <2>5, <2>6, <2>7, <2>8 DEF ManagerStep
  <1>4. CASE UNCHANGED vars
    BY <1>4 DEF vars
  <1> QED
    BY <1>1, <1>2, <1>3, <1>4 DEF Next

\* Every variable keeps its type.
THEOREM LifecycleTyped == Spec => []TypeOK
  BY TypeInit, TypeStep, PTL DEF Spec

--------------------------------------------------------------------------------
(* Charges stay home.                                                        *)

\* What a charge has read: a database at most as new as the ledger, none of
\* them newer than what is in force.
ReadInOrder(r) ==
    /\ pc[r] = "database" => seen[r].database <= opened
    /\ pc[r] \in {"ledger", "charging"} =>
          /\ seen[r].ledger \in Gens
          /\ seen[r].database <= seen[r].ledger
          /\ seen[r].ledger <= usage

\* The ledger in force is of the last generation, and so is the one database
\* that may be open.  Memory, disk and the history of charges are one.
HomeInv ==
    /\ usage = opened
    /\ database \in {0, opened}
    /\ open \subseteq {database}
    /\ database # 0 => ledgers[usage] = disk[file[database]]
    /\ disk = charged
    /\ \A r \in Requests : ReadInOrder(r)

\* A charge that finds its database open has read the ledger that goes with it.
LEMMA OpenIsCurrent ==
    ASSUME TypeOK, HomeInv, NEW r \in Requests, pc[r] = "charging", seen[r].database \in open
    PROVE  /\ database \in Gens /\ database = usage
           /\ seen[r].database = database
           /\ seen[r].ledger = usage
  <1>1. seen[r].database \in Gens /\ seen[r].database = database
    BY DEF HomeInv, TypeOK
  <1>2. database = usage
    BY <1>1 DEF HomeInv, Gens
  <1>3. seen[r].ledger \in Gens /\ database <= seen[r].ledger /\ seen[r].ledger <= usage
    BY <1>1 DEF HomeInv, ReadInOrder
  <1> QED
    BY <1>1, <1>2, <1>3 DEF Gens

\* A flush writes what is there.
LEMMA FlushedSame ==
    ASSUME TypeOK, HomeInv
    PROVE  Flushed = disk
  BY DEF TypeOK, HomeInv, Flushed

LEMMA HomeInit ==
    ASSUME Init
    PROVE  HomeInv
  BY DEF Init, HomeInv, ReadInOrder, Gens, Threads

LEMMA HomeStep ==
    ASSUME TypeOK, HomeInv, [Next]_vars
    PROVE  HomeInv'
  <1> USE DEF Goes, Locks, Unlocks, locks, store, flushing, charging
  <1>1. ASSUME NEW r \in Requests, RequestStep(r)
        PROVE  HomeInv'
    <2>1. ASSUME NEW other \in Requests, other # r,
                 seen'[other] = seen[other], pc'[other] = pc[other], UNCHANGED <<opened, usage>>
          PROVE  ReadInOrder(other)'
      BY <2>1 DEF HomeInv, ReadInOrder
    <2>2. \A other \in Requests \ {r} : seen'[other] = seen[other] /\ pc'[other] = pc[other]
      BY <1>1 DEF RequestStep, ReadDatabase, ReadLedger, LockCharge, Charge, ChargeFails, TypeOK, Threads
    <2>3. UNCHANGED <<opened, usage, database, open, file>>
      BY <1>1 DEF RequestStep, ReadDatabase, ReadLedger, LockCharge, Charge, ChargeFails
    <2>4. ReadInOrder(r)'
      <3>1. CASE ReadDatabase(r)
        <4>1. pc'[r] = "database" /\ seen'[r].database = database
          BY <3>1 DEF ReadDatabase, TypeOK, Threads
        <4> QED
          BY <2>3, <4>1 DEF ReadInOrder, HomeInv, TypeOK, Gens
      <3>2. CASE ReadLedger(r)
        <4>1. CASE seen[r].database = 0
          BY <3>2, <4>1 DEF ReadLedger, ReadInOrder, TypeOK, Threads
        <4>2. CASE seen[r].database # 0
          <5>1. pc'[r] = "ledger" /\ pc[r] = "database"
            BY <3>2, <4>2 DEF ReadLedger, TypeOK, Threads
          <5>2. seen'[r].database = seen[r].database /\ seen'[r].ledger = usage
            BY <3>2, <4>2 DEF ReadLedger, TypeOK
          <5> QED
            BY <2>3, <5>1, <5>2 DEF ReadInOrder, HomeInv, TypeOK, Gens
        <4> QED
          BY <4>1, <4>2
      <3>3. CASE LockCharge(r)
        BY <2>3, <3>3 DEF LockCharge, ReadInOrder, HomeInv, TypeOK, Threads
      <3>4. CASE Charge(r) \/ ChargeFails(r)
        BY <3>4 DEF Charge, ChargeFails, ReadInOrder, TypeOK, Threads
      <3> QED
        BY <1>1, <3>1, <3>2, <3>3, <3>4 DEF RequestStep
    <2>5. disk' = charged' /\ (database' # 0 => ledgers'[usage'] = disk'[file'[database']])
      <3>1. CASE Charge(r)
        <4> DEFINE f == file[database]
                   next == ledgers[usage] + 1
        <4>1. database \in Gens /\ seen[r].database = database /\ seen[r].ledger = usage
          BY <3>1, OpenIsCurrent DEF Charge
        <4>2. /\ disk' = [disk EXCEPT ![f] = next]
              /\ ledgers' = [ledgers EXCEPT ![usage] = next]
              /\ charged' = [charged EXCEPT ![f] = charged[f] + 1]
          BY <3>1, <4>1 DEF Charge
        <4>3. f \in Files /\ usage \in Gens /\ ledgers[usage] = disk[f] /\ disk = charged
          BY <4>1 DEF HomeInv, TypeOK, Gens
        <4>4. disk' = charged'
          BY <4>2, <4>3
        <4>5. ledgers'[usage] = next /\ disk'[f] = next
          BY <4>2, <4>3 DEF TypeOK
        <4> QED
          BY <2>3, <4>4, <4>5
      <3>2. CASE ~Charge(r)
        BY <1>1, <2>3, <3>2 DEF RequestStep, ReadDatabase, ReadLedger, LockCharge, ChargeFails, HomeInv
      <3> QED
        BY <3>1, <3>2
    <2> QED
      BY <2>1, <2>2, <2>3, <2>4, <2>5 DEF HomeInv
  <1>2. ASSUME NEW t \in Flushers \cup Managers,
               UNCHANGED <<usage, database, ledgers, opened, file, open, charging>>, disk' = disk,
               \A r \in Requests : pc'[r] = pc[r]
        PROVE  HomeInv'
    BY <1>2 DEF HomeInv, ReadInOrder
  <1>3. ASSUME NEW t \in Flushers \cup Managers, NEW to, Goes(t, pc[t], to)
        PROVE  \A r \in Requests : pc'[r] = pc[r]
    BY <1>3 DEF TypeOK, Threads
  <1>4. ASSUME NEW g \in Flushers, Tick(g) \/ FlusherStep(g)
        PROVE  HomeInv'
    BY <1>2, <1>3, <1>4, FlushedSame DEF Tick, FlusherStep, LockFlush, FlusherSaves, FlusherExits
  <1>5. ASSUME NEW m \in Managers, BeginConfigure(m) \/ BeginClose(m) \/ ManagerStep(m)
        PROVE  HomeInv'
    <2>1. CASE Replace(m)
      <3>1. PICK f \in Files : /\ file' = [file EXCEPT ![opened + 1] = f]
                               /\ ledgers' = [ledgers EXCEPT ![opened + 1] = disk[f]]
        BY <2>1 DEF Replace
      <3>2. /\ opened + 1 \in Gens /\ opened' = opened + 1 /\ usage' = opened + 1
            /\ database' = opened + 1 /\ open' = (open \ {database}) \cup {opened + 1}
            /\ UNCHANGED <<disk, charged, seen>>
        BY <2>1 DEF Replace
      <3>3. \A r \in Requests : pc'[r] = pc[r]
        BY <2>1 DEF Replace, TypeOK, Threads
      <3>4. \A r \in Requests : ReadInOrder(r)'
        BY <3>2, <3>3 DEF ReadInOrder, HomeInv, TypeOK, Gens
      <3>5. ledgers'[usage'] = disk'[file'[database']]
        BY <3>1, <3>2 DEF TypeOK
      <3> QED
        BY <3>2, <3>4, <3>5 DEF HomeInv
    <2>2. CASE EndClose(m)
      <3>1. \A r \in Requests : pc'[r] = pc[r]
        BY <2>2 DEF EndClose, TypeOK, Threads
      <3> QED
        BY <2>2, <3>1 DEF EndClose, HomeInv, ReadInOrder
    <2>3. CASE StartFlusher(m)
      <3>1. \A r \in Requests : pc'[r] = pc[r]
        BY <2>3 DEF StartFlusher, TypeOK, Threads
      <3> QED
        BY <2>3, <1>2, <3>1 DEF StartFlusher
    <2>4. CASE BeginConfigure(m) \/ BeginClose(m) \/ TakeFlusher(m) \/ FlusherDone(m)
      BY <2>4, <1>2, <1>3 DEF BeginConfigure, BeginClose, TakeFlusher, FlusherDone
    <2>5. CASE LockFlush(m) \/ ManagerSaves(m) \/ ManagerSaveFails(m)
      BY <2>5, <1>2, <1>3, FlushedSame DEF LockFlush, ManagerSaves, ManagerSaveFails
    <2>6. CASE LockReplace(m) \/ ReplaceFails(m) \/ FlusherThere(m)
      BY <2>6, <1>2, <1>3 DEF LockReplace, ReplaceFails, FlusherThere
    <2> QED
      BY <1>5, <2>1, <2>2, <2>3, <2>4, <2>5, <2>6 DEF ManagerStep
  <1>6. CASE UNCHANGED vars
    BY <1>6 DEF vars, HomeInv, ReadInOrder
  <1> QED
    BY <1>1, <1>4, <1>5, <1>6 DEF Next

\* The ledger in force is what its database's file holds: no charge crosses over
\* from one pair into another.
THEOREM ChargesStayHome == Spec => []LedgerIsDisk
  <1>1. Init => TypeOK /\ HomeInv
    BY TypeInit, HomeInit
  <1>2. TypeOK /\ HomeInv /\ [Next]_vars => TypeOK' /\ HomeInv'
    BY TypeStep, HomeStep
  <1>3. HomeInv => LedgerIsDisk
    BY DEF HomeInv, LedgerIsDisk
  <1> QED
    BY <1>1, <1>2, <1>3, PTL DEF Spec

\* Every file holds the charges that were committed to it.
THEOREM NoChargeLost == Spec => []ChargesKept
  <1>1. Init => TypeOK /\ HomeInv
    BY TypeInit, HomeInit
  <1>2. TypeOK /\ HomeInv /\ [Next]_vars => TypeOK' /\ HomeInv'
    BY TypeStep, HomeStep
  <1>3. HomeInv => ChargesKept
    BY DEF HomeInv, ChargesKept
  <1> QED
    BY <1>1, <1>2, <1>3, PTL DEF Spec

--------------------------------------------------------------------------------
(* Flushers.                                                                 *)

LEMMA StrayStep ==
    ASSUME TypeOK, NoStrayFlusher, [Next]_vars
    PROVE  NoStrayFlusher'
  <1> USE DEF Goes, locks, store, flushing, charging
  <1>1. ASSUME NEW r \in Requests, RequestStep(r)
        PROVE  NoStrayFlusher'
    BY <1>1 DEF RequestStep, ReadDatabase, ReadLedger, LockCharge, Charge, ChargeFails,
                NoStrayFlusher, TypeOK, Threads
  <1>2. ASSUME NEW g \in Flushers, Tick(g) \/ FlusherStep(g)
        PROVE  NoStrayFlusher'
    BY <1>2 DEF Tick, FlusherStep, LockFlush, FlusherSaves, FlusherExits, NoStrayFlusher, TypeOK, Threads
  <1>3. ASSUME NEW m \in Managers, BeginConfigure(m) \/ BeginClose(m) \/ ManagerStep(m)
        PROVE  NoStrayFlusher'
    <2>1. CASE TakeFlusher(m)
      BY <2>1 DEF TakeFlusher, NoStrayFlusher, TypeOK, Threads
    <2>2. CASE FlusherDone(m)
      BY <2>2 DEF FlusherDone, NoStrayFlusher, TypeOK, Threads
    <2>3. CASE StartFlusher(m)
      BY <2>3 DEF StartFlusher, NoStrayFlusher, TypeOK, Threads
    <2>4. CASE UNCHANGED <<flusher, stopped>> /\ \A g \in Flushers : pc'[g] = pc[g]
      BY <2>4 DEF NoStrayFlusher
    <2>5. ASSUME NEW to, Goes(m, pc[m], to)
          PROVE  \A g \in Flushers : pc'[g] = pc[g]
      BY <2>5 DEF TypeOK, Threads
    <2> QED
      BY <1>3, <2>1, <2>2, <2>3, <2>4, <2>5
         DEF ManagerStep, BeginConfigure, BeginClose, LockFlush, ManagerSaves, ManagerSaveFails,
             LockReplace, Replace, ReplaceFails, EndClose, FlusherThere
  <1>4. CASE UNCHANGED vars
    BY <1>4 DEF vars, NoStrayFlusher
  <1> QED
    BY <1>1, <1>2, <1>3, <1>4 DEF Next

\* A flusher that runs is the one the next Configure or Close will stop, or is
\* being stopped.
THEOREM FlushersAtHand == Spec => []NoStrayFlusher
  <1>1. Init => TypeOK /\ NoStrayFlusher
    BY TypeInit DEF Init, NoStrayFlusher, Threads
  <1>2. TypeOK /\ NoStrayFlusher /\ [Next]_vars => TypeOK' /\ NoStrayFlusher'
    BY TypeStep, StrayStep
  <1> QED
    BY <1>1, <1>2, PTL DEF Spec

--------------------------------------------------------------------------------
(* LegacyMigration, for any number of runs.  It makes the state file that    *)
(* the store is then configured with.                                        *)

LEMMA MigrationTypeInit ==
    ASSUME MigrationInit
    PROVE  MigrationTypeOK
  BY DEF MigrationInit, MigrationTypeOK, Contents, States, Working

LEMMA MigrationTypeStep ==
    ASSUME MigrationTypeOK, [MigrationNext]_migrationVars
    PROVE  MigrationTypeOK'
  <1> USE DEF MigrationTypeOK, Proceeds, Reports, files, Contents, States,
              Working
  <1>1. ASSUME NEW r \in Runs, RunStep(r)
        PROVE  MigrationTypeOK'
    <2>1. CASE Validate(r) \/ Refuse(r) \/ Prepare(r) \/ CreateTemp(r)
               \/ FailsEarly(r)
      BY <2>1 DEF Validate, Refuse, Prepare, CreateTemp, FailsEarly
    <2>2. CASE Import(r)
      BY <2>2 DEF Import
    <2>3. CASE Verify(r) \/ Checkpoint(r) \/ Close(r) \/ SyncFile(r)
      BY <2>3 DEF Verify, Checkpoint, Close, SyncFile
    <2>4. CASE Link(r) \/ SyncDirectory(r) \/ FailsLate(r) \/ Clean(r)
      BY <2>4 DEF Link, SyncDirectory, FailsLate, Clean
    <2> QED
      BY <1>1, <2>1, <2>2, <2>3, <2>4 DEF RunStep
  <1>2. ASSUME NEW r \in Runs, Crash(r)
        PROVE  MigrationTypeOK'
    BY <1>2 DEF Crash
  <1>3. CASE PluginOpens \/ PluginCommits \/ PluginStops
    BY <1>3 DEF PluginOpens, PluginCommits, PluginStops
  <1>4. CASE PowerFails
    BY <1>4 DEF PowerFails
  <1>5. CASE UNCHANGED migrationVars
    BY <1>5 DEF migrationVars
  <1> QED
    BY <1>1, <1>2, <1>3, <1>4, <1>5 DEF MigrationNext

\* Every variable keeps its type.
THEOREM MigrationTyped == MigrationSpec => []MigrationTypeOK
  BY MigrationTypeInit, MigrationTypeStep, PTL DEF MigrationSpec

--------------------------------------------------------------------------------
(* The destination of the migration.                                         *)

\* How far a run's file has got, by what the run is doing.
Progress(r) ==
    /\ doing[r] = "checkpointing" => data[r] = "right"
    /\ doing[r] \in {"closing", "syncing", "linking", "publishing"} => main[r] = "right"
    /\ doing[r] \in {"linking", "publishing"} => r \in synced
    /\ doing[r] = "publishing" => dest = r

\* The destination's file is past all of its steps; the name on disk is that in
\* memory or none.
DestInv ==
    /\ \A r \in Runs : Progress(r)
    /\ dest \in Runs =>
          /\ main[dest] = "right"
          /\ dest \in synced
          /\ doing[dest] \in {"publishing", "cleaning", "done", "dead"}
    /\ durable \in {NoFile, dest}
    /\ SuccessDurable

LEMMA DestInit ==
    ASSUME MigrationInit
    PROVE  DestInv
  BY FilesAssumption DEF MigrationInit, DestInv, Progress, SuccessDurable

LEMMA DestStep ==
    ASSUME MigrationTypeOK, DestInv, [MigrationNext]_migrationVars
    PROVE  DestInv'
  <1> USE FilesAssumption DEF MigrationTypeOK, DestInv, Progress, SuccessDurable, Proceeds,
              Reports, files
  <1>1. ASSUME NEW r \in Runs, RunStep(r)
        PROVE  DestInv'
    <2>1. CASE Validate(r) \/ Refuse(r) \/ Prepare(r) \/ CreateTemp(r)
               \/ FailsEarly(r)
      BY <2>1 DEF Validate, Refuse, Prepare, CreateTemp, FailsEarly
    <2>2. CASE Import(r)
      BY <2>2 DEF Import
    <2>3. CASE Verify(r)
      BY <2>3 DEF Verify
    <2>4. CASE Checkpoint(r)
      BY <2>4 DEF Checkpoint
    <2>5. CASE Close(r) \/ SyncFile(r)
      BY <2>5 DEF Close, SyncFile
    <2>6. CASE Link(r)
      BY <2>6 DEF Link
    <2>7. CASE SyncDirectory(r)
      BY <2>7 DEF SyncDirectory
    <2>8. CASE FailsLate(r) \/ Clean(r)
      BY <2>8 DEF FailsLate, Clean, Working
    <2> QED
      BY <1>1, <2>1, <2>2, <2>3, <2>4, <2>5, <2>6, <2>7, <2>8 DEF RunStep
  <1>2. ASSUME NEW r \in Runs, Crash(r)
        PROVE  DestInv'
    BY <1>2 DEF Crash
  <1>3. CASE PluginOpens \/ PluginCommits \/ PluginStops
    BY <1>3 DEF PluginOpens, PluginCommits, PluginStops
  <1>4. CASE PowerFails
    BY <1>4 DEF PowerFails
  <1>5. CASE UNCHANGED migrationVars
    BY <1>5 DEF migrationVars
  <1> QED
    BY <1>1, <1>2, <1>3, <1>4, <1>5 DEF MigrationNext

DestSafe == MigrationTypeOK /\ DestInv

LEMMA DestAlways == MigrationSpec => []DestSafe
  <1>1. MigrationInit => DestSafe
    BY MigrationTypeInit, DestInit DEF DestSafe
  <1>2. DestSafe /\ [MigrationNext]_migrationVars => DestSafe'
    BY MigrationTypeStep, DestStep DEF DestSafe
  <1> QED
    BY <1>1, <1>2, PTL DEF MigrationSpec

\* Whoever opens the destination finds the whole legacy state.
THEOREM MigratedWhole == MigrationSpec => []VisibleComplete
  <1>1. DestSafe => VisibleComplete
    BY DEF DestSafe, DestInv, VisibleComplete
  <1> QED
    BY <1>1, DestAlways, PTL

\* A reported success survives power failures and other runs.
THEOREM SuccessLasts == MigrationSpec => []SuccessDurable
  <1>1. DestSafe => SuccessDurable
    BY DEF DestSafe, DestInv
  <1> QED
    BY <1>1, DestAlways, PTL

\* No step gives the destination's name to another file.
LEMMA NameKept ==
    ASSUME MigrationTypeOK, DestInv, [MigrationNext]_migrationVars, dest # NoFile, dest' # dest
    PROVE  dest' = NoFile /\ durable = NoFile
  <1>1. CASE PowerFails
    BY <1>1 DEF PowerFails, DestInv
  <1>2. CASE \E r \in Runs : RunStep(r) \/ Crash(r)
    BY <1>2 DEF RunStep, Crash, Validate, Refuse, Prepare,
                CreateTemp, FailsEarly, Import, Verify,
                Checkpoint, Close, SyncFile, Link, SyncDirectory,
                FailsLate, Clean, files
  <1>3. CASE PluginOpens \/ PluginCommits \/ PluginStops
    BY <1>3 DEF PluginOpens, PluginCommits, PluginStops, files
  <1> QED
    BY <1>1, <1>2, <1>3 DEF MigrationNext, migrationVars

\* An existing destination is never overwritten.
THEOREM NeverOverwritten == MigrationSpec => NeverReplaced
  <1>1. DestSafe /\ [MigrationNext]_migrationVars =>
            [dest # NoFile /\ dest' # dest => dest' = NoFile /\ durable = NoFile]_migrationVars
    BY NameKept DEF DestSafe
  <1> QED
    BY <1>1, DestAlways, PTL DEF MigrationSpec, NeverReplaced

--------------------------------------------------------------------------------
(* Temporary files of the migration.                                         *)

\* But for files that could not be removed, only a run at work, cleaning up or
\* dead has temporary files.
TempInv == \A r \in temp \ stuck : doing[r] \in Working \cup {"cleaning", "dead"}

LEMMA TempStep ==
    ASSUME MigrationTypeOK, TempInv, [MigrationNext]_migrationVars
    PROVE  TempInv'
  <1> USE DEF MigrationTypeOK, TempInv, Proceeds, Reports, files, Working
  <1>1. ASSUME NEW r \in Runs, RunStep(r)
        PROVE  TempInv'
    <2>1. CASE Validate(r) \/ Refuse(r) \/ Prepare(r) \/ CreateTemp(r)
               \/ FailsEarly(r)
      BY <2>1 DEF Validate, Refuse, Prepare, CreateTemp, FailsEarly
    <2>2. CASE Import(r) \/ Verify(r) \/ Checkpoint(r) \/ Close(r)
               \/ SyncFile(r)
      BY <2>2 DEF Import, Verify, Checkpoint, Close, SyncFile
    <2>3. CASE Link(r) \/ SyncDirectory(r) \/ FailsLate(r) \/ Clean(r)
      BY <2>3 DEF Link, SyncDirectory, FailsLate, Clean
    <2> QED
      BY <1>1, <2>1, <2>2, <2>3 DEF RunStep
  <1>2. ASSUME NEW r \in Runs, Crash(r)
        PROVE  TempInv'
    BY <1>2 DEF Crash
  <1>3. CASE PluginOpens \/ PluginCommits \/ PluginStops
    BY <1>3 DEF PluginOpens, PluginCommits, PluginStops
  <1>4. CASE PowerFails
    BY <1>4 DEF PowerFails
  <1>5. CASE UNCHANGED migrationVars
    BY <1>5 DEF migrationVars
  <1> QED
    BY <1>1, <1>2, <1>3, <1>4, <1>5 DEF MigrationNext

\* A run that has come to its end has removed its temporary files, but for those
\* whose removal failed.
THEOREM TempRemoved == MigrationSpec => []NoLitter
  <1>1. MigrationInit => MigrationTypeOK /\ TempInv
    BY MigrationTypeInit DEF MigrationInit, TempInv
  <1>2. MigrationTypeOK /\ TempInv /\ [MigrationNext]_migrationVars => MigrationTypeOK' /\ TempInv'
    BY MigrationTypeStep, TempStep
  <1>3. MigrationTypeOK /\ TempInv => NoLitter
    BY DEF MigrationTypeOK, TempInv, NoLitter, Working
  <1> QED
    BY <1>1, <1>2, <1>3, PTL DEF MigrationSpec

================================================================================
