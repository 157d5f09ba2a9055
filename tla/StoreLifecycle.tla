----------------------------- MODULE StoreLifecycle -----------------------------
(***************************************************************************)
(* Configure, Close and the background flusher against charges under way.  *)
(*                                                                         *)
(* Configure replaces the usage ledger and the database together, on the   *)
(* same file or on another.  A charge reads the two one after the other,   *)
(* before it holds persistMu, and may find them replaced when it does.     *)
(* Keys and budgets are UsageStore's and KeyStore's business: a ledger is  *)
(* the number of charges it counts.                                        *)
(***************************************************************************)
EXTENDS Naturals

CONSTANTS
    Files,          \* state files
    Requests,       \* threads that charge
    Managers,       \* threads that call configure or Shutdown
    Flushers,       \* flusher goroutines
    None,           \* no thread, no flusher
    MaxGen,         \* bound: how often Configure gets to open a database
    MaxCharges      \* bound: how many charges begin

Gens == 1 .. MaxGen
Threads == Requests \cup Managers \cup Flushers

ASSUME BoundsAssumption == MaxGen \in Nat \ {0} /\ MaxCharges \in Nat
ASSUME ThreadsAssumption ==
    /\ None \notin Threads
    /\ Requests \cap Managers = {} /\ Requests \cap Flushers = {} /\ Managers \cap Flushers = {}

VARIABLES
    updateMu, persistMu,    \* their holders
    usage,                  \* s.usage: the generation of the ledger in force
    database,               \* s.database: that of the database, 0 for nil
    flusher,                \* s.flusher
    ledgers,                \* the ledger of each generation
    opened,                 \* how many databases have been opened
    file,                   \* the file of each database
    open,                   \* the databases that are not closed
    disk,                   \* what each file holds
    pc,                     \* what each thread is doing
    seen,                   \* database and ledger a charge has read
    awaited,                \* the flusher a manager waits for
    stopped,                \* flushers whose stopCh is closed
    begun,                  \* number of charges begun
    charged                 \* history: charges committed to each file

vars == <<updateMu, persistMu, usage, database, flusher, ledgers, opened, file, open, disk, pc,
          seen, awaited, stopped, begun, charged>>

locks == <<updateMu, persistMu>>
store == <<usage, database, ledgers, opened, file, open>>
flushing == <<flusher, awaited, stopped>>
charging == <<seen, begun, charged>>

--------------------------------------------------------------------------------

NothingSeen == [database |-> 0, ledger |-> 0]

RequestStates == {"idle", "database", "ledger", "charging"}
ManagerStates == {"idle", "stopping", "awaiting", "flush", "flushing", "replace", "replacing", "starting"}
FlusherStates == {"off", "ticking", "flush", "flushing"}

TypeOK ==
    /\ updateMu \in Managers \cup {None}
    /\ persistMu \in Threads \cup {None}
    /\ usage \in Gens
    /\ database \in Gens \cup {0}
    /\ flusher \in Flushers \cup {None}
    /\ ledgers \in [Gens -> Nat]
    /\ opened \in Gens
    /\ file \in [Gens -> Files]
    /\ open \subseteq Gens
    /\ disk \in [Files -> Nat]
    /\ pc \in [Threads -> RequestStates \cup ManagerStates \cup FlusherStates]
    /\ \A r \in Requests : pc[r] \in RequestStates
    /\ \A m \in Managers : pc[m] \in ManagerStates
    /\ \A g \in Flushers : pc[g] \in FlusherStates
    /\ seen \in [Requests -> [database : Gens \cup {0}, ledger : Gens \cup {0}]]
    /\ awaited \in [Managers -> Flushers \cup {None}]
    /\ stopped \subseteq Flushers
    /\ begun \in Nat
    /\ charged \in [Files -> Nat]

\* NewApp has configured the store on some file; no flusher runs yet.
Init ==
    /\ updateMu = None
    /\ persistMu = None
    /\ usage = 1
    /\ database = 1
    /\ flusher = None
    /\ ledgers = [g \in Gens |-> 0]
    /\ opened = 1
    /\ \E f \in Files : file = [g \in Gens |-> f]
    /\ open = {1}
    /\ disk = [f \in Files |-> 0]
    /\ pc = [t \in Threads |-> IF t \in Flushers THEN "off" ELSE "idle"]
    /\ seen = [r \in Requests |-> NothingSeen]
    /\ awaited = [m \in Managers |-> None]
    /\ stopped = {}
    /\ begun = 0
    /\ charged = [f \in Files |-> 0]

Goes(t, from, to) == pc[t] = from /\ pc' = [pc EXCEPT ![t] = to]

Locks(t) == persistMu = None /\ persistMu' = t

Unlocks(t) == persistMu = t /\ persistMu' = None

--------------------------------------------------------------------------------
(* A charge: RecordUsage and persistUsageCost.                               *)

ReadDatabase(r) ==
    /\ Goes(r, "idle", "database")
    /\ begun < MaxCharges
    /\ begun' = begun + 1
    /\ seen' = [seen EXCEPT ![r].database = database]
    /\ UNCHANGED <<locks, store, flushing, disk, charged>>

\* Without a database there is nothing to charge.
ReadLedger(r) ==
    /\ Goes(r, "database", IF seen[r].database = 0 THEN "idle" ELSE "ledger")
    /\ seen' = [seen EXCEPT ![r] = IF @.database = 0 THEN NothingSeen
                                   ELSE [@ EXCEPT !.ledger = usage]]
    /\ UNCHANGED <<locks, store, flushing, disk, begun, charged>>

\* Mutant of LockCharge: the database is looked up again, the ledger is not.
LockChargeRereading(r) ==
    /\ Goes(r, "ledger", "charging")
    /\ Locks(r)
    /\ seen' = [seen EXCEPT ![r].database = database]
    /\ UNCHANGED <<updateMu, store, flushing, disk, begun, charged>>

LockCharge(r) ==
    /\ Goes(r, "ledger", "charging")
    /\ Locks(r)
    /\ UNCHANGED <<updateMu, store, flushing, disk, charging>>

\* recordCost: the ledger's next state is committed, then published.
Charge(r) ==
    LET db == seen[r].database
        ledger == seen[r].ledger
        next == ledgers[ledger] + 1
    IN  /\ Goes(r, "charging", "idle")
        /\ db \in open
        /\ disk' = [disk EXCEPT ![file[db]] = next]
        /\ ledgers' = [ledgers EXCEPT ![ledger] = next]
        /\ charged' = [charged EXCEPT ![file[db]] = @ + 1]
        /\ seen' = [seen EXCEPT ![r] = NothingSeen]
        /\ Unlocks(r)
        /\ UNCHANGED <<updateMu, usage, database, opened, file, open, flushing, begun>>

\* The transaction fails, for one because the database is closed.
ChargeFails(r) ==
    /\ Goes(r, "charging", "idle")
    /\ seen' = [seen EXCEPT ![r] = NothingSeen]
    /\ Unlocks(r)
    /\ UNCHANGED <<updateMu, store, flushing, disk, begun, charged>>

--------------------------------------------------------------------------------
(* FlushUsage, by the flusher or by StopUsageFlusher.                        *)

LockFlush(t) ==
    /\ Goes(t, "flush", "flushing")
    /\ Locks(t)
    /\ UNCHANGED <<updateMu, store, flushing, disk, charging>>

Flushed ==
    IF database = 0 THEN disk ELSE [disk EXCEPT ![file[database]] = ledgers[usage]]

Tick(g) ==
    /\ Goes(g, "ticking", "flush")
    /\ UNCHANGED <<locks, store, flushing, disk, charging>>

FlusherSaves(g) ==
    /\ Goes(g, "flushing", "ticking")
    /\ disk' \in {disk, Flushed}
    /\ Unlocks(g)
    /\ UNCHANGED <<updateMu, store, flushing, charging>>

\* Mutant of FlusherExits: only the flusher at hand obeys, and a stopped one is
\* not at hand any more.
FlusherExitsAtHand(g) ==
    /\ Goes(g, "ticking", "off")
    /\ g \in stopped /\ g = flusher
    /\ UNCHANGED <<locks, store, flushing, disk, charging>>

FlusherExits(g) ==
    /\ Goes(g, "ticking", "off")
    /\ g \in stopped
    /\ UNCHANGED <<locks, store, flushing, disk, charging>>

--------------------------------------------------------------------------------
(* configure and Shutdown.                                                   *)

\* A thread that holds updateMu runs Configure, one that does not runs Close.
BeginConfigure(m) ==
    /\ Goes(m, "idle", "stopping")
    /\ updateMu = None
    /\ updateMu' = m
    /\ UNCHANGED <<persistMu, store, flushing, disk, charging>>

BeginClose(m) ==
    /\ Goes(m, "idle", "stopping")
    /\ UNCHANGED <<locks, store, flushing, disk, charging>>

\* Mutant of TakeFlusher: no flusher is stopped as if it were one.
TakeNoFlusher(m) ==
    /\ Goes(m, "stopping", "awaiting")
    /\ awaited' = [awaited EXCEPT ![m] = flusher]
    /\ stopped' = stopped \cup {flusher}
    /\ flusher' = None
    /\ UNCHANGED <<locks, store, disk, charging>>

\* StopUsageFlusher.
TakeFlusher(m) ==
    /\ Goes(m, "stopping", "awaiting")
    /\ awaited' = [awaited EXCEPT ![m] = flusher]
    /\ stopped' = stopped \cup ({flusher} \ {None})
    /\ flusher' = None
    /\ UNCHANGED <<locks, store, disk, charging>>

FlusherDone(m) ==
    /\ Goes(m, "awaiting", "flush")
    /\ awaited[m] # None => pc[awaited[m]] = "off"
    /\ awaited' = [awaited EXCEPT ![m] = None]
    /\ stopped' = stopped \ {awaited[m]}
    /\ UNCHANGED <<locks, store, flusher, disk, charging>>

ManagerSaves(m) ==
    /\ Goes(m, "flushing", "replace")
    /\ disk' = Flushed
    /\ Unlocks(m)
    /\ UNCHANGED <<updateMu, store, flushing, charging>>

\* Configure gives up, Close goes on.
ManagerSaveFails(m) ==
    /\ Goes(m, "flushing", IF updateMu = m THEN "idle" ELSE "replace")
    /\ updateMu' = IF updateMu = m THEN None ELSE updateMu
    /\ Unlocks(m)
    /\ UNCHANGED <<store, flushing, disk, charging>>

LockReplace(m) ==
    /\ Goes(m, "replace", "replacing")
    /\ Locks(m)
    /\ UNCHANGED <<updateMu, store, flushing, disk, charging>>

\* Mutant of Replace: every database is taken for a new one and seeded.
ReplaceSeeding(m) ==
    LET gen == opened + 1
    IN  /\ Goes(m, "replacing", "starting")
        /\ updateMu = m
        /\ gen \in Gens
        /\ \E f \in Files :
              /\ file' = [file EXCEPT ![gen] = f]
              /\ ledgers' = [ledgers EXCEPT ![gen] = 0]
              /\ disk' = [disk EXCEPT ![f] = 0]
        /\ opened' = gen
        /\ usage' = gen
        /\ database' = gen
        /\ open' = (open \ {database}) \cup {gen}
        /\ updateMu' = None
        /\ Unlocks(m)
        /\ UNCHANGED <<flushing, charging>>

\* The database is opened, loaded and written back, both pointers are replaced
\* and the old database is closed.  Nobody else writes while persistMu is held.
Replace(m) ==
    LET gen == opened + 1
    IN  /\ Goes(m, "replacing", "starting")
        /\ updateMu = m
        /\ gen \in Gens
        /\ \E f \in Files :
              /\ file' = [file EXCEPT ![gen] = f]
              /\ ledgers' = [ledgers EXCEPT ![gen] = disk[f]]
        /\ opened' = gen
        /\ usage' = gen
        /\ database' = gen
        /\ open' = (open \ {database}) \cup {gen}
        /\ updateMu' = None
        /\ Unlocks(m)
        /\ UNCHANGED <<flushing, disk, charging>>

\* The old database and ledger stay in force, the flusher stays stopped.
ReplaceFails(m) ==
    /\ Goes(m, "replacing", "idle")
    /\ updateMu = m
    /\ updateMu' = None
    /\ Unlocks(m)
    /\ UNCHANGED <<store, flushing, disk, charging>>

EndClose(m) ==
    /\ Goes(m, "replacing", "idle")
    /\ updateMu # m
    /\ database' = 0
    /\ open' = open \ {database}
    /\ Unlocks(m)
    /\ UNCHANGED <<updateMu, usage, ledgers, opened, file, flushing, disk, charging>>

\* Mutant of StartFlusher: it does not look whether there is one.
StartAnotherFlusher(m) ==
    /\ pc[m] = "starting"
    /\ \E g \in Flushers :
          /\ pc[g] = "off" /\ g \notin stopped
          /\ flusher' = g
          /\ pc' = [pc EXCEPT ![m] = "idle", ![g] = "ticking"]
    /\ UNCHANGED <<locks, store, awaited, stopped, disk, charging>>

\* StartUsageFlusher, after Configure has returned.
StartFlusher(m) ==
    /\ pc[m] = "starting"
    /\ flusher = None
    /\ \E g \in Flushers :
          /\ pc[g] = "off" /\ g \notin stopped
          /\ flusher' = g
          /\ pc' = [pc EXCEPT ![m] = "idle", ![g] = "ticking"]
    /\ UNCHANGED <<locks, store, awaited, stopped, disk, charging>>

FlusherThere(m) ==
    /\ Goes(m, "starting", "idle")
    /\ flusher # None
    /\ UNCHANGED <<locks, store, flushing, disk, charging>>

--------------------------------------------------------------------------------

RequestStep(r) ==
    ReadDatabase(r) \/ ReadLedger(r) \/ LockCharge(r) \/ Charge(r) \/ ChargeFails(r)

FlusherStep(g) == LockFlush(g) \/ FlusherSaves(g) \/ FlusherExits(g)

ManagerStep(m) ==
    \/ TakeFlusher(m) \/ FlusherDone(m)
    \/ LockFlush(m) \/ ManagerSaves(m) \/ ManagerSaveFails(m)
    \/ LockReplace(m) \/ Replace(m) \/ ReplaceFails(m) \/ EndClose(m)
    \/ StartFlusher(m) \/ FlusherThere(m)

Next ==
    \/ \E r \in Requests : RequestStep(r)
    \/ \E g \in Flushers : Tick(g) \/ FlusherStep(g)
    \/ \E m \in Managers : BeginConfigure(m) \/ BeginClose(m) \/ ManagerStep(m)

Spec == Init /\ [][Next]_vars

\* Whoever holds persistMu goes on, and so does a thread inside Configure or
\* Close.  A mutex is handed to a waiter that starves; a select whose stopCh is
\* closed takes that branch sooner or later.  Of the flushers only the stopped
\* ones are assumed to get that far.
FairSpec ==
    /\ Spec
    /\ WF_vars(\E r \in Requests : Charge(r) \/ ChargeFails(r))
    /\ WF_vars(\E g \in Flushers : FlusherSaves(g))
    /\ SF_vars(\E g \in stopped : LockFlush(g))
    /\ SF_vars(\E g \in stopped : FlusherExits(g))
    /\ \A m \in Managers :
          /\ WF_vars(ManagerStep(m))
          /\ SF_vars(LockFlush(m) \/ LockReplace(m))

--------------------------------------------------------------------------------
(* Properties.                                                               *)

\* Whenever persistMu is free the ledger in force is what the file of the
\* database in force holds: a Configure crosses no charge over from the old pair
\* into the new one (Configure's comment, store.go 70; persistUsageCost).
LedgerIsDisk ==
    persistMu = None /\ database # 0 => ledgers[usage] = disk[file[database]]

\* Each file holds exactly the charges that were committed to it, whichever
\* flush, Configure or Close came in between and in whatever order the files
\* were in force.
ChargesKept == disk = charged

\* A running flusher can be stopped by the next Configure or Close, or has been
\* (StartUsageFlusher, StopUsageFlusher).
NoStrayFlusher == \A g \in Flushers : pc[g] # "off" => g = flusher \/ g \in stopped

\* Configure and Close come to an end: they wait for the flusher, which may wait
\* for persistMu, and for persistMu (store.go 901, 911).
OperationsEnd == \A m \in Managers : []<>(pc[m] = "idle")

================================================================================
