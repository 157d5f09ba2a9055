------------------------------- MODULE UsageStore -------------------------------
(***************************************************************************)
(* How the Store charges requests and keeps the budget ledger in memory    *)
(* and the usage_state table of the SQLite database together.              *)
(*                                                                         *)
(* Actors: the host's request threads (authenticate, intercept, report     *)
(* usage), one management operation at a time (updateMu serialises them),  *)
(* the background flusher, and a process that may stop and start again at  *)
(* any moment.  They interleave at the code's own lock boundaries.  The    *)
(* request limiter is left to chance here: a request may always be turned  *)
(* away by it.  A transaction may fail, and then changes nothing.          *)
(***************************************************************************)
EXTENDS UsageWindows, FiniteSets

CONSTANTS
    Keys,           \* key ids
    NoKey,          \* the key of a thread that serves no request
    Requests,       \* host threads that serve requests
    Traffic,        \* the kinds of request the host sends
    MaxCost,        \* the most one request costs
    Limit,          \* the budget of each window; 0 is no limit
    MaxNow          \* bound of the clock

\* A "tokens" request is forwarded once admitted and charged when the host
\* reports its usage; a "per_call" one is charged by the interceptor before it
\* is forwarded; a "query_call" one, whose key is in the query string, is
\* charged while it is authenticated.
Kinds == {"tokens", "per_call", "query_call"}

ASSUME TrafficAssumption == Traffic \subseteq Kinds
ASSUME KeysAssumption == IsFiniteSet(Requests) /\ NoKey \notin Keys
ASSUME CostAssumption == MaxCost \in Nat \ {0}
ASSUME LimitAssumption == Limit \in [Windows -> Nat]
ASSUME MaxNowAssumption == MaxNow \in Nat \ {0}
ASSUME HolderAssumption == Requests \cap {"free", "admin", "flusher"} = {}

VARIABLES
    now, day,       \* the clock every time.Now() reads, never set back
    keys,           \* s.keys: status of each key id in memory
    ledger,         \* s.usage.entries
    historyErr,     \* s.historyErr is not nil
    persistMu,      \* who holds s.persistMu
    diskKeys,       \* table key_configs
    diskUsage,      \* table usage_state
    pc, req,        \* where each request thread is, and what it carries
    admin,          \* the management operation under way (updateMu)
    flusher,        \* the background flush under way
    unsaved         \* history: deleted keys whose stored usage still stands

clockVars == <<now, day>>
diskVars == <<diskKeys, diskUsage>>
vars == <<now, day, keys, ledger, historyErr, persistMu, diskKeys, diskUsage,
          pc, req, admin, flusher, unsaved>>

Clock == [now |-> now, day |-> day]

--------------------------------------------------------------------------------
(* What the state is made of.                                                *)

KeyStatus == {"absent", "disabled", "enabled"}

Idle == [key |-> NoKey, kind |-> "tokens", clock |-> [now |-> 1, day |-> 1],
         billed |-> FALSE, cost |-> 0, usage |-> NoUsage, failed |-> FALSE]

Request == [key : Keys \cup {NoKey}, kind : Kinds, clock : Instants,
            billed : BOOLEAN, cost : 0..MaxCost, usage : UsageState, failed : BOOLEAN]

Locations == {"idle", "authenticated", "checking", "admitted", "upstream", "resolved",
              "prepared", "committed", "recorded", "reply", "forwarded"}

NoAdmin == [op |-> "none", key |-> NoKey, usage |-> [k \in Keys |-> NoUsage]]

NoFlush == [busy |-> FALSE, usage |-> [k \in Keys |-> NoUsage]]

TypeOK ==
    /\ now \in Nat \ {0} /\ day \in Nat \ {0}
    /\ keys \in [Keys -> KeyStatus]
    /\ ledger \in [Keys -> UsageState]
    /\ historyErr \in BOOLEAN
    /\ persistMu \in Requests \cup {"free", "admin", "flusher"}
    /\ diskKeys \in [Keys -> KeyStatus]
    /\ diskUsage \in [Keys -> UsageState]
    /\ pc \in [Requests -> Locations]
    /\ req \in [Requests -> Request]
    /\ \A r \in Requests : pc[r] # "idle" => req[r].key \in Keys
    /\ admin \in [op : {"none", "reset", "delete", "upsert"}, key : Keys \cup {NoKey},
                  usage : [Keys -> UsageState]]
    /\ flusher \in [busy : BOOLEAN, usage : [Keys -> UsageState]]
    /\ unsaved \subseteq Keys

Init ==
    /\ now = 1 /\ day = 1
    /\ keys = [k \in Keys |-> "enabled"]
    /\ ledger = [k \in Keys |-> NoUsage]
    /\ historyErr = FALSE
    /\ persistMu = "free"
    /\ diskKeys = keys
    /\ diskUsage = ledger
    /\ pc = [r \in Requests |-> "idle"]
    /\ req = [r \in Requests |-> Idle]
    /\ admin = NoAdmin
    /\ flusher = NoFlush
    /\ unsaved = {}

Goto(r, location) == pc' = [pc EXCEPT ![r] = location]

\* Mutant of Leave: a refused request goes on without an identity.
LeaveOnlyIdentity(r) == req' = [req EXCEPT ![r] = Idle] /\ UNCHANGED pc

Leave(r) ==
    /\ pc' = [pc EXCEPT ![r] = "idle"]
    /\ req' = [req EXCEPT ![r] = Idle]

Storage == <<keys, ledger, historyErr, persistMu, diskKeys, diskUsage, admin, flusher, unsaved>>

--------------------------------------------------------------------------------
(* The policy a request passes before it is forwarded.                       *)

\* AuthenticateKey: identity and the enabled flag, nothing else.
Authenticate(r) ==
    /\ pc[r] = "idle"
    /\ \E k \in Keys, kind \in Traffic \ {"query_call"} :
          /\ keys[k] = "enabled"
          /\ req' = [req EXCEPT ![r].key = k, ![r].kind = kind]
    /\ Goto(r, "authenticated")
    /\ UNCHANGED <<clockVars, Storage>>

\* Authenticate, for a key in the query string: the whole policy at once.
AuthenticateQuery(r) ==
    /\ pc[r] = "idle" /\ "query_call" \in Traffic
    /\ \E k \in Keys :
          /\ keys[k] = "enabled"
          /\ req' = [req EXCEPT ![r] = [Idle EXCEPT !.key = k, !.kind = "query_call",
                                                     !.clock = Clock]]
    /\ Goto(r, "checking")
    /\ UNCHANGED <<clockVars, Storage>>

\* interceptRequestBefore, up to where OverLimit has read the clock.
AuthorizeKnown(r) ==
    /\ pc[r] = "authenticated"
    /\ keys[req[r].key] = "enabled"
    /\ req' = [req EXCEPT ![r].clock = Clock]
    /\ Goto(r, "checking")
    /\ UNCHANGED <<clockVars, Storage>>

\* The key is gone by now: the interceptor lets the request through as one
\* that is not the plugin's business.
AuthorizeUnknown(r) ==
    /\ pc[r] = "authenticated"
    /\ keys[req[r].key] = "absent"
    /\ Goto(r, IF req[r].kind = "tokens" THEN "upstream" ELSE "forwarded")
    /\ UNCHANGED <<clockVars, Storage, req>>

AuthorizeDisabled(r) ==
    /\ pc[r] = "authenticated"
    /\ keys[req[r].key] = "disabled"
    /\ Leave(r)
    /\ UNCHANGED <<clockVars, Storage>>

\* OverLimit, with the clock it read before it had the ledger's lock.  That
\* lock is held from the moment a charge is prepared until it is published.
LedgerUnlocked == \A r \in Requests :
    pc[r] \in {"prepared", "committed"} => ~req[r].billed

WithinBudget(r) == ~OverLimit(ledger[req[r].key], Limit, req[r].clock)

Admit(r) ==
    /\ pc[r] = "checking"
    /\ LedgerUnlocked
    /\ WithinBudget(r)
    /\ Goto(r, IF req[r].kind = "tokens" THEN "upstream" ELSE "admitted")
    /\ req' = [req EXCEPT ![r].clock = Idle.clock]
    /\ UNCHANGED <<clockVars, Storage>>

\* Turned away by the limiter, or by the budget.
Deny(r) ==
    /\ pc[r] = "checking"
    /\ Leave(r)
    /\ UNCHANGED <<clockVars, Storage>>

--------------------------------------------------------------------------------
(* RecordUsage, called by the interceptor, by Authenticate, or when the host *)
(* reports the usage of a forwarded request.                                 *)

\* The key is still there and enabled.  A request whose price is known is
\* billed, maybe for nothing; one that failed, carried no tokens or whose model
\* has no price or left the key's list meanwhile is only noted as an event.
Resolve(r) ==
    /\ pc[r] \in {"admitted", "upstream"}
    /\ keys[req[r].key] = "enabled"
    /\ \E billed \in BOOLEAN, cost \in 0..MaxCost :
          /\ ~billed => cost = 0
          /\ req' = [req EXCEPT ![r].billed = billed, ![r].cost = cost]
    /\ Goto(r, "resolved")
    /\ UNCHANGED <<clockVars, Storage>>

\* RecordUsage is over for the request: what it was billed is forgotten.
Decided(r, failed) ==
    req' = [req EXCEPT ![r] = [Idle EXCEPT !.key = req[r].key, !.kind = req[r].kind,
                                           !.failed = failed]]

\* Where RecordUsage returns to.
Returned(r) == IF req[r].kind = "query_call" THEN "forwarded" ELSE "reply"

\* The key was deleted or disabled meanwhile: RecordUsage returns at once,
\* with no charge, no event and no error.
ResolveUnknown(r) ==
    /\ pc[r] \in {"admitted", "upstream"}
    /\ keys[req[r].key] # "enabled"
    /\ Goto(r, Returned(r))
    /\ UNCHANGED <<clockVars, Storage, req>>

\* persistUsageCost up to the transaction: persistMu and the ledger's lock
\* are taken and the next usage state of the key is built beside the ledger.
Prepare(r) ==
    /\ pc[r] = "resolved"
    /\ persistMu = "free"
    /\ persistMu' = r
    /\ req' = IF ~req[r].billed THEN req
              ELSE [req EXCEPT ![r].usage = AddCost(ledger[req[r].key], req[r].cost, Clock)]
    /\ Goto(r, "prepared")
    /\ UNCHANGED <<clockVars, keys, ledger, historyErr, diskVars, admin, flusher, unsaved>>

\* persistUsageEntry commits the key's state together with the event.
CommitCharge(r) ==
    /\ pc[r] = "prepared" /\ req[r].billed
    /\ diskUsage' = [diskUsage EXCEPT ![req[r].key] = req[r].usage]
    /\ unsaved' = unsaved \ {req[r].key}
    /\ Goto(r, "committed")
    /\ UNCHANGED <<clockVars, keys, ledger, historyErr, persistMu, diskKeys, req, admin, flusher>>

\* The ledger takes the committed state and both locks are released.
Publish(r) ==
    /\ pc[r] = "committed"
    /\ ledger' = [ledger EXCEPT ![req[r].key] = req[r].usage]
    /\ persistMu' = "free"
    /\ Decided(r, FALSE)
    /\ Goto(r, "recorded")
    /\ UNCHANGED <<clockVars, keys, historyErr, diskVars, admin, flusher, unsaved>>

\* persistUsageEvent: the event alone is inserted, no usage changes.
CommitEvent(r) ==
    /\ pc[r] = "prepared" /\ ~req[r].billed
    /\ persistMu' = "free"
    /\ Decided(r, FALSE)
    /\ Goto(r, "recorded")
    /\ UNCHANGED <<clockVars, keys, ledger, historyErr, diskVars, admin, flusher, unsaved>>

\* Mutant of CommitFails: recordCost publishes what it could not persist.
CommitFailsPublishing(r) ==
    /\ pc[r] = "prepared" /\ req[r].billed
    /\ ledger' = [ledger EXCEPT ![req[r].key] = req[r].usage]
    /\ persistMu' = "free"
    /\ Decided(r, TRUE)
    /\ Goto(r, "recorded")
    /\ UNCHANGED <<clockVars, keys, historyErr, diskVars, admin, flusher, unsaved>>

\* Mutant of CommitFails: the error path returns with persistMu locked.
CommitFailsLocked(r) ==
    /\ pc[r] = "prepared"
    /\ Decided(r, TRUE)
    /\ Goto(r, "recorded")
    /\ UNCHANGED <<clockVars, keys, ledger, historyErr, persistMu, diskVars, admin,
                   flusher, unsaved>>

\* The transaction, or the pruning before it, fails.
CommitFails(r) ==
    /\ pc[r] = "prepared"
    /\ persistMu' = "free"
    /\ Decided(r, TRUE)
    /\ Goto(r, "recorded")
    /\ UNCHANGED <<clockVars, keys, ledger, historyErr, diskVars, admin, flusher, unsaved>>

\* setHistoryError, once persistMu is released.
SetHistoryError(r) ==
    /\ pc[r] = "recorded"
    /\ historyErr' = req[r].failed
    /\ Goto(r, Returned(r))
    /\ UNCHANGED <<clockVars, keys, ledger, persistMu, diskVars, req, admin, flusher, unsaved>>

\* UsageStoreError: the interceptor forwards the request if it sees no error;
\* the usage report only answers the host.
ReadHistoryError(r) ==
    /\ pc[r] = "reply"
    /\ IF req[r].kind = "per_call" /\ ~historyErr
       THEN Goto(r, "forwarded") /\ UNCHANGED req
       ELSE Leave(r)
    /\ UNCHANGED <<clockVars, Storage>>

Finish(r) ==
    /\ pc[r] = "forwarded"
    /\ Leave(r)
    /\ UNCHANGED <<clockVars, Storage>>

--------------------------------------------------------------------------------
(* Management.  Each operation holds updateMu from start to end and          *)
(* persistMu across its two steps.                                           *)

AdminIdle == admin.op = "none" /\ persistMu = "free"

\* ResetAllUsage: the empty state is saved first.  If that fails nothing
\* changes, so only its success is a step.
ResetSave ==
    /\ AdminIdle
    /\ diskUsage' = [k \in Keys |-> NoUsage]
    /\ unsaved' = {}
    /\ persistMu' = "admin"
    /\ admin' = [NoAdmin EXCEPT !.op = "reset"]
    /\ UNCHANGED <<clockVars, keys, ledger, historyErr, diskKeys, pc, req, flusher>>

ResetMemory ==
    /\ admin.op = "reset"
    /\ ledger' = [k \in Keys |-> NoUsage]
    /\ persistMu' = "free"
    /\ admin' = NoAdmin
    /\ UNCHANGED <<clockVars, keys, historyErr, diskVars, pc, req, flusher, unsaved>>

\* DeleteKey drops the key and its usage from memory before it saves what is
\* left: a snapshot taken here.
DeleteMemory(k) ==
    /\ AdminIdle
    /\ keys[k] # "absent"
    /\ keys' = [keys EXCEPT ![k] = "absent"]
    /\ ledger' = [ledger EXCEPT ![k] = NoUsage]
    /\ admin' = [op |-> "delete", key |-> k, usage |-> ledger']
    /\ unsaved' = unsaved \cup {k}
    /\ persistMu' = "admin"
    /\ UNCHANGED <<clockVars, historyErr, diskVars, pc, req, flusher>>

\* UpsertKey creates a key, or enables or disables one, in memory and then
\* saves.  A key created under a deleted key's id starts on what the ledger
\* holds for that id.
UpsertMemory(k, status) ==
    /\ AdminIdle
    /\ keys' = [keys EXCEPT ![k] = status]
    /\ admin' = [op |-> "upsert", key |-> k, usage |-> ledger]
    /\ persistMu' = "admin"
    /\ UNCHANGED <<clockVars, ledger, historyErr, diskVars, pc, req, flusher, unsaved>>

\* saveStateWithPlans replaces the keys and every usage state at once.
AdminSave ==
    /\ admin.op \in {"delete", "upsert"}
    /\ diskKeys' = keys
    /\ diskUsage' = admin.usage
    /\ unsaved' = {}
    /\ persistMu' = "free"
    /\ admin' = NoAdmin
    /\ UNCHANGED <<clockVars, keys, ledger, historyErr, pc, req, flusher>>

\* The operation reports its error; what it changed in memory stays changed.
AdminSaveFails ==
    /\ admin.op \in {"delete", "upsert"}
    /\ persistMu' = "free"
    /\ admin' = NoAdmin
    /\ UNCHANGED <<clockVars, keys, ledger, historyErr, diskVars, pc, req, flusher, unsaved>>

--------------------------------------------------------------------------------
(* The background flusher, the clock and the process itself.                 *)

\* Mutant of FlushBegin: the snapshot is taken outside persistMu.
FlushBeginUnlocked ==
    /\ ~flusher.busy
    /\ flusher' = [busy |-> TRUE, usage |-> ledger]
    /\ UNCHANGED <<clockVars, keys, ledger, historyErr, persistMu, diskVars, pc, req,
                   admin, unsaved>>

\* FlushUsage takes its snapshot under persistMu.
FlushBegin ==
    /\ ~flusher.busy
    /\ persistMu = "free"
    /\ persistMu' = "flusher"
    /\ flusher' = [busy |-> TRUE, usage |-> ledger]
    /\ UNCHANGED <<clockVars, keys, ledger, historyErr, diskVars, pc, req, admin, unsaved>>

\* Mutant of FlushSave: the rows of the snapshot are upserted and no row goes.
FlushSaveUpserting ==
    /\ flusher.busy
    /\ diskUsage' = [k \in Keys |-> IF k \in unsaved THEN diskUsage[k] ELSE flusher.usage[k]]
    /\ persistMu' = "free"
    /\ flusher' = NoFlush
    /\ UNCHANGED <<clockVars, keys, ledger, historyErr, diskKeys, pc, req, admin, unsaved>>

\* saveUsage replaces the table usage_state, and nothing else.
FlushSave ==
    /\ flusher.busy
    /\ diskUsage' = flusher.usage
    /\ unsaved' = {}
    /\ persistMu' = "free"
    /\ flusher' = NoFlush
    /\ UNCHANGED <<clockVars, keys, ledger, historyErr, diskKeys, pc, req, admin>>

FlushFails ==
    /\ flusher.busy
    /\ persistMu' = "free"
    /\ flusher' = NoFlush
    /\ UNCHANGED <<clockVars, keys, ledger, historyErr, diskVars, pc, req, admin, unsaved>>

\* External: time passes.  RateLimiter has a wall clock that is set at will.
Tick ==
    /\ now < MaxNow
    /\ now' = now + 1
    /\ day' \in {day, day + 1}
    /\ UNCHANGED <<Storage, pc, req>>

\* The process dies and Configure loads what the database holds.
Restart ==
    /\ keys' = diskKeys
    /\ ledger' = diskUsage
    /\ historyErr' = FALSE
    /\ persistMu' = "free"
    /\ pc' = [r \in Requests |-> "idle"]
    /\ req' = [r \in Requests |-> Idle]
    /\ admin' = NoAdmin
    /\ flusher' = NoFlush
    /\ unsaved' = {}
    /\ UNCHANGED <<clockVars, diskVars>>

RequestStep(r) ==
    \/ Authenticate(r) \/ AuthenticateQuery(r)
    \/ AuthorizeKnown(r) \/ AuthorizeUnknown(r) \/ AuthorizeDisabled(r)
    \/ Admit(r) \/ Deny(r)
    \/ Resolve(r) \/ ResolveUnknown(r)
    \/ Prepare(r) \/ CommitCharge(r) \/ Publish(r)
    \/ CommitEvent(r) \/ CommitFails(r)
    \/ SetHistoryError(r) \/ ReadHistoryError(r) \/ Finish(r)

AdminStep ==
    \/ ResetSave \/ ResetMemory
    \/ \E k \in Keys : DeleteMemory(k)
    \/ \E k \in Keys, status \in {"enabled", "disabled"} : UpsertMemory(k, status)
    \/ AdminSave \/ AdminSaveFails

Next ==
    \/ \E r \in Requests : RequestStep(r)
    \/ AdminStep
    \/ FlushBegin \/ FlushSave \/ FlushFails
    \/ Tick
    \/ Restart

Spec == Init /\ [][Next]_vars

\* Threads run on; Go's mutex hands itself to a waiter that has waited long,
\* so a thread that keeps finding persistMu free at times gets it; the 15s
\* ticker keeps calling FlushUsage; and storage errors are transient.
Fairness ==
    /\ \A r \in Requests :
          /\ SF_vars(Prepare(r))
          /\ WF_vars(CommitCharge(r) \/ CommitEvent(r) \/ CommitFails(r))
          /\ WF_vars(Publish(r))
          /\ WF_vars(SetHistoryError(r))
          /\ WF_vars(ReadHistoryError(r))
    /\ WF_vars(ResetMemory)
    /\ WF_vars(AdminSave \/ AdminSaveFails)
    /\ SF_vars(FlushBegin)
    /\ WF_vars(FlushSave \/ FlushFails)
    /\ SF_vars(FlushSave)

FairSpec == Spec /\ Fairness

--------------------------------------------------------------------------------
(* Properties.                                                               *)

\* Whenever no critical section of persistMu is open, the ledger that budgets
\* are judged by is what the database holds, except that a key whose deletion
\* could not be saved has no usage left in memory (usage.go 125, store.go 840).
LiveUsageDurable ==
    persistMu = "free" =>
        \A k \in Keys :
            ledger[k] = IF k \in unsaved THEN NoUsage ELSE diskUsage[k]

\* Requests that may still be charged to k without another look at this
\* window: those past the check, those let through while the key was gone, and
\* for the daily window those whose check uses a clock of a day that is over.
Exposed(k, w) ==
    {r \in Requests :
        /\ req[r].key = k
        /\ \/ pc[r] \in {"admitted", "upstream", "resolved", "prepared", "committed"}
           \/ pc[r] = "authenticated" /\ keys[k] = "absent"
           \/ pc[r] = "checking" /\ w = "daily" /\ req[r].clock.day < day}

MostSpent(w) == Limit[w] - 1 + MaxCost * Cardinality(Requests)

\* The budget check and the charge are far apart, so a window can run over its
\* limit, but by less than one request per thread, whatever is deleted, reset,
\* flushed or restarted meanwhile (authorize, store.go 319-329; recordCost).
OverspendBounded ==
    \A k \in Keys, w \in Windows :
        Limit[w] > 0 => /\ TotalAt(diskUsage[k], w, Clock) <= MostSpent(w)
                        /\ TotalAt(ledger[k], w, Clock) <= MostSpent(w)

\* The database, seen alone, is the abstract durable usage of DurableUsage:
\* no charge is lost, doubled or torn by flushes, resets, deletions, failed
\* transactions and crashes.
Durable == INSTANCE DurableUsage WITH usage <- diskUsage, retired <- unsaved

DurableSpec == Durable!Spec

\* A charge that reached RecordUsage is decided, one way or the other, however
\* the other threads, management and the flusher compete for persistMu.
ChargesDecided ==
    \A r \in Requests : pc[r] = "resolved" ~> pc[r] \in {"forwarded", "idle"}

\* What a key had spent whose deletion could not be saved does not stay in
\* usage_state for ever: a flush erases it, unless a restart takes it back
\* into memory first (store.go 824-838).  The key's row in key_configs stays
\* until keys are saved again, flushed or not.
ErasureReachesDisk == \A k \in Keys : k \in unsaved ~> diskUsage[k] = ledger[k]

\* What app.go 162 says of interceptRequestBefore: a per-call request is
\* forwarded only when its own charge was committed, so never when it failed.
FailedChargeNotForwarded ==
    \A r \in Requests :
        pc[r] = "forwarded" /\ req[r].kind = "per_call" => ~req[r].failed

================================================================================
