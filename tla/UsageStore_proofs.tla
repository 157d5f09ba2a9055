---------------------------- MODULE UsageStore_proofs ----------------------------
(***************************************************************************)
(* Proofs about UsageStore for every set of keys and of request threads,   *)
(* every cost, every budget and every bound of the clock.                  *)
(***************************************************************************)
EXTENDS UsageStore, TLAPS, FiniteSetTheorems

--------------------------------------------------------------------------------
(* The inductive invariant, one conjunct per reason the store is correct.    *)

\* Each critical section of persistMu has one owner.
Locking ==
    /\ \A r \in Requests : pc[r] \in {"prepared", "committed"} <=> persistMu = r
    /\ persistMu = "admin" <=> admin.op # "none"
    /\ persistMu = "flusher" <=> flusher.busy

\* What is about to be saved is still what memory holds.
Snapshots ==
    /\ flusher.busy => flusher.usage = ledger
    /\ admin.op \in {"delete", "upsert"} => admin.usage = ledger

\* A state under construction is the live one plus this request's cost, at an
\* instant that is not in the future.
Charged(r) ==
    \E n \in 1..now, d \in 1..day :
        req[r].usage = AddCost(ledger[req[r].key], req[r].cost, [now |-> n, day |-> d])

Built ==
    \A r \in Requests :
        /\ pc[r] = "committed" => /\ req[r].billed
                                 /\ diskUsage[req[r].key] = req[r].usage
                                 /\ req[r].key \notin unsaved
        /\ pc[r] \in {"prepared", "committed"} /\ req[r].billed => Charged(r)

\* Memory and disk agree except on the one key whose charge is committed and
\* not yet published, and while a saved reset has not reached memory.
Stored(k) == IF k \in unsaved THEN NoUsage ELSE diskUsage[k]

Agree ==
    admin.op # "reset" =>
        \A k \in Keys :
            \/ ledger[k] = Stored(k)
            \/ \E r \in Requests : pc[r] = "committed" /\ req[r].key = k

\* While a reset runs, the disk has it already.
Resetting ==
    admin.op = "reset" => unsaved = {} /\ diskUsage = [k \in Keys |-> NoUsage]

Consistent == Locking /\ Snapshots /\ Built /\ Agree /\ Resetting

\* No window starts in the future, no clock was read in the future.
Past(u) == u["daily"].start <= day /\ u["weekly"].start <= now

NothingAhead ==
    /\ \A k \in Keys : Past(ledger[k]) /\ Past(diskUsage[k])
    /\ \A r \in Requests : req[r].clock.day <= day /\ req[r].clock.now <= now

\* What is spent plus what may still be spent unchecked stays within reach.
Spending ==
    \A k \in Keys, w \in Windows :
        Limit[w] > 0 =>
            /\ TotalAt(diskUsage[k], w, Clock) <= MostSpent(w)
            /\ TotalAt(ledger[k], w, Clock) + MaxCost * Cardinality(Exposed(k, w))
                 <= MostSpent(w)

IInv == TypeOK /\ Consistent /\ NothingAhead /\ Spending

--------------------------------------------------------------------------------
(* Facts about the windows.                                                  *)

LEMMA NoUsageType == NoUsage \in UsageState
  BY DEF NoUsage, UsageState, UsageWindow, Windows

LEMMA AddCostType ==
  ASSUME NEW u \in UsageState, NEW cost \in Nat, NEW t \in Instants
  PROVE  AddCost(u, cost, t) \in UsageState
<1>1. ASSUME NEW w \in Windows
      PROVE  [CurrentWindow(w, u[w], t) EXCEPT !.total = @ + cost] \in UsageWindow
  BY <1>1 DEF UsageState, UsageWindow, Instants, CurrentWindow, StartAt
<1>2. QED
  BY <1>1 DEF AddCost, UsageState

\* What a window reports is a natural number.
LEMMA TotalType ==
  ASSUME NEW u \in UsageState, NEW w \in Windows, NEW t \in Instants
  PROVE  TotalAt(u, w, t) \in Nat
  BY DEF TotalAt, CurrentWindow, StartAt, UsageState, UsageWindow, Instants

\* A key without usage has spent nothing.
LEMMA NothingSpent ==
  ASSUME NEW w \in Windows, NEW t \in Instants
  PROVE  TotalAt(NoUsage, w, t) = 0
  BY DEF TotalAt, CurrentWindow, Elapsed, StartAt, NoUsage

\* A charge stamped at an earlier instant raises what a window reports now by
\* its cost at most.
LEMMA ChargeRaisesByCost ==
  ASSUME NEW u \in UsageState, NEW w \in Windows, NEW cost \in Nat,
         NEW t \in Instants, NEW s \in Instants, s.now <= t.now, s.day <= t.day
  PROVE  TotalAt(AddCost(u, cost, s), w, t) <= TotalAt(u, w, t) + cost
<1> DEFINE win == u[w]
           new == AddCost(u, cost, s)[w]
<1>1. win \in UsageWindow
  BY DEF UsageState
<1>2. new = [CurrentWindow(w, win, s) EXCEPT !.total = @ + cost]
  BY DEF AddCost
<1>3. CASE Elapsed(w, win, s)
  <2>1. new = [start |-> StartAt(w, s), total |-> cost]
    BY <1>2, <1>3 DEF CurrentWindow
  <2>2. CurrentWindow(w, new, t).total \in {0, cost}
    BY <2>1 DEF CurrentWindow
  <2>3. TotalAt(u, w, t) \in Nat
    BY TotalType
  <2>4. QED
    BY <2>2, <2>3 DEF TotalAt
<1>4. CASE ~Elapsed(w, win, s)
  <2>1. new.start = win.start /\ new.total = win.total + cost
    BY <1>1, <1>2, <1>4 DEF CurrentWindow, UsageWindow
  <2>2. Elapsed(w, new, t) <=> Elapsed(w, win, t)
    BY <2>1 DEF Elapsed
  <2>3. CASE Elapsed(w, win, t)
    BY <2>2, <2>3 DEF TotalAt, CurrentWindow
  <2>4. CASE ~Elapsed(w, win, t)
    BY <2>1, <2>2, <2>4, <1>1 DEF TotalAt, CurrentWindow, UsageWindow
  <2>5. QED
    BY <2>3, <2>4
<1>5. QED
  BY <1>3, <1>4

--------------------------------------------------------------------------------
(* Type correctness.                                                         *)

LEMMA IdleType == Idle \in Request
  BY NoUsageType, CostAssumption DEF Idle, Request, Kinds, Instants

\* A request whose usage is decided keeps its key and no charge.
LEMMA DecidedType ==
  ASSUME TypeOK, NEW r \in Requests, NEW failed \in BOOLEAN, Decided(r, failed)
  PROVE  /\ req' \in [Requests -> Request]
         /\ req'[r].key = req[r].key /\ req'[r].clock = Idle.clock
         /\ \A q \in Requests \ {r} : req'[q] = req[q]
<1> DEFINE keyed == [Idle EXCEPT !.key = req[r].key]
           kinded == [keyed EXCEPT !.kind = req[r].kind]
           kept == [kinded EXCEPT !.failed = failed]
<1>1. req' = [req EXCEPT ![r] = kept]
  BY DEF Decided
<1>2. req[r].key \in Keys \cup {NoKey} /\ req[r].kind \in Kinds
  BY DEF TypeOK, Request
<1>3. keyed \in Request /\ keyed.key = req[r].key /\ keyed.clock = Idle.clock
  BY <1>2, IdleType DEF Request
<1> HIDE DEF keyed
<1>4. kinded \in Request /\ kinded.key = req[r].key /\ kinded.clock = Idle.clock
  BY <1>2, <1>3 DEF Request
<1> HIDE DEF kinded
<1>5. kept \in Request /\ kept.key = req[r].key /\ kept.clock = Idle.clock
  BY <1>4 DEF Request
<1> HIDE DEF kept
<1>6. QED
  BY <1>1, <1>5 DEF TypeOK

LEMMA InitTypeOK == Init => TypeOK
<1> SUFFICES ASSUME Init PROVE TypeOK
  OBVIOUS
<1> USE DEF Init
<1>1. req \in [Requests -> Request] /\ pc \in [Requests -> Locations]
  BY IdleType DEF Locations
<1>2. \A r \in Requests : pc[r] = "idle"
  OBVIOUS
<1>3. ledger \in [Keys -> UsageState] /\ diskUsage \in [Keys -> UsageState]
  BY NoUsageType
<1>4. keys \in [Keys -> KeyStatus] /\ diskKeys \in [Keys -> KeyStatus]
  BY DEF KeyStatus
<1>5. NoAdmin \in [op : {"none", "reset", "delete", "upsert"}, key : Keys \cup {NoKey},
                   usage : [Keys -> UsageState]]
  BY NoUsageType DEF NoAdmin
<1>6. NoFlush \in [busy : BOOLEAN, usage : [Keys -> UsageState]]
  BY NoUsageType DEF NoFlush
<1>7. admin = NoAdmin /\ flusher = NoFlush /\ historyErr = FALSE /\ unsaved = {}
  OBVIOUS
<1>8. now \in Nat \ {0} /\ day \in Nat \ {0} /\ persistMu = "free"
  OBVIOUS
<1> HIDE DEF Init
<1>9. QED
  BY <1>1, <1>2, <1>3, <1>4, <1>5, <1>6, <1>7, <1>8 DEF TypeOK

LEMMA RequestStepTypeOK ==
  ASSUME TypeOK, NEW r \in Requests, RequestStep(r)
  PROVE  TypeOK'
<1> USE DEF TypeOK, clockVars, diskVars, Storage
<1>0. Clock \in Instants
  BY DEF Clock, Instants
<1>1. CASE Authenticate(r)
  <2>1. PICK k \in Keys, kind \in Traffic \ {"query_call"} :
           req' = [req EXCEPT ![r].key = k, ![r].kind = kind]
    BY <1>1 DEF Authenticate
  <2> DEFINE keyed == [req[r] EXCEPT !.key = k]
  <2>2. req'[r] = [keyed EXCEPT !.kind = kind]
    BY <2>1
  <2>a. keyed \in Request /\ keyed.key = k
    BY DEF Request
  <2>b. kind \in Kinds
    BY TrafficAssumption
  <2> HIDE DEF keyed
  <2>3. req'[r] \in Request /\ req'[r].key = k
    BY <2>2, <2>a, <2>b DEF Request
  <2>4. req' \in [Requests -> Request] /\ \A q \in Requests \ {r} : req'[q] = req[q]
    BY <2>1, <2>3
  <2>5. QED
    BY <1>1, <2>3, <2>4 DEF Authenticate, Goto, Locations
<1>2. CASE AuthenticateQuery(r)
  <2>1. PICK k \in Keys :
           req' = [req EXCEPT ![r] = [Idle EXCEPT !.key = k, !.kind = "query_call",
                                                  !.clock = Clock]]
    BY <1>2 DEF AuthenticateQuery
  <2>2. req'[r] \in Request /\ req'[r].key = k
    BY <1>0, <2>1, IdleType DEF Request, Kinds
  <2>3. req' \in [Requests -> Request] /\ \A q \in Requests \ {r} : req'[q] = req[q]
    BY <2>1, <2>2
  <2>4. QED
    BY <1>2, <2>2, <2>3 DEF AuthenticateQuery, Goto, Locations
<1>3. CASE AuthorizeKnown(r)
  BY <1>0, <1>3 DEF AuthorizeKnown, Goto, Request, Locations
<1>4. CASE AuthorizeUnknown(r)
  BY <1>4 DEF AuthorizeUnknown, Goto, Locations
<1>5. CASE AuthorizeDisabled(r)
  BY <1>5, IdleType DEF AuthorizeDisabled, Leave, Locations
<1>6. CASE Admit(r)
  BY <1>6, IdleType DEF Admit, Goto, Request, Locations
<1>7. CASE Deny(r)
  BY <1>7, IdleType DEF Deny, Leave, Locations
<1>8. CASE Resolve(r)
  <2>1. PICK billed \in BOOLEAN, cost \in 0..MaxCost :
           req' = [req EXCEPT ![r].billed = billed, ![r].cost = cost]
    BY <1>8 DEF Resolve
  <2> DEFINE marked == [req[r] EXCEPT !.billed = billed]
  <2>2. req'[r] = [marked EXCEPT !.cost = cost]
    BY <2>1
  <2>a. marked \in Request /\ marked.key = req[r].key
    BY DEF Request
  <2> HIDE DEF marked
  <2>3. req'[r] \in Request /\ req'[r].key = req[r].key
    BY <2>2, <2>a DEF Request
  <2>4. req' \in [Requests -> Request] /\ \A q \in Requests \ {r} : req'[q] = req[q]
    BY <2>1, <2>3
  <2>5. QED
    BY <1>8, <2>3, <2>4 DEF Resolve, Goto, Locations
<1>9. CASE ResolveUnknown(r)
  BY <1>9 DEF ResolveUnknown, Goto, Returned, Locations
<1>10. CASE Prepare(r)
  <2>1. req[r].key \in Keys /\ req[r].cost \in Nat
    BY <1>10, CostAssumption DEF Prepare, Request
  <2>2. AddCost(ledger[req[r].key], req[r].cost, Clock) \in UsageState
    BY <1>0, <2>1, AddCostType
  <2>3. QED
    BY <1>10, <2>2 DEF Prepare, Goto, Request, Locations
<1>11. CASE CommitCharge(r)
  BY <1>11 DEF CommitCharge, Goto, Request, Locations
<1>12. CASE Publish(r)
  <2>1. Decided(r, FALSE)
    BY <1>12 DEF Publish
  <2>2. QED
    BY <1>12, <2>1, DecidedType DEF Publish, Goto, Request, Locations
<1>13. CASE CommitEvent(r)
  <2>1. Decided(r, FALSE)
    BY <1>13 DEF CommitEvent
  <2>2. QED
    BY <1>13, <2>1, DecidedType DEF CommitEvent, Goto, Locations
<1>14. CASE CommitFails(r)
  <2>1. Decided(r, TRUE)
    BY <1>14 DEF CommitFails
  <2>2. QED
    BY <1>14, <2>1, DecidedType DEF CommitFails, Goto, Locations
<1>15. CASE SetHistoryError(r)
  BY <1>15 DEF SetHistoryError, Goto, Returned, Request, Locations
<1>16. CASE ReadHistoryError(r)
  BY <1>16, IdleType DEF ReadHistoryError, Goto, Leave, Locations
<1>17. CASE Finish(r)
  BY <1>17, IdleType DEF Finish, Leave, Locations
<1>18. QED
  BY <1>1, <1>2, <1>3, <1>4, <1>5, <1>6, <1>7, <1>8, <1>9, <1>10, <1>11, <1>12,
     <1>13, <1>14, <1>15, <1>16, <1>17 DEF RequestStep

LEMMA OtherStepTypeOK ==
  ASSUME TypeOK, AdminStep \/ FlushBegin \/ FlushSave \/ FlushFails \/ Tick \/ Restart
  PROVE  TypeOK'
<1> USE DEF TypeOK, clockVars, diskVars, Storage
<1>1. CASE ResetSave
  BY <1>1, NoUsageType DEF ResetSave, AdminIdle, NoAdmin
<1>2. CASE ResetMemory
  BY <1>2, NoUsageType DEF ResetMemory, NoAdmin
<1>3. ASSUME NEW k \in Keys, DeleteMemory(k)
      PROVE  TypeOK'
  BY <1>3, NoUsageType DEF DeleteMemory, KeyStatus
<1>4. ASSUME NEW k \in Keys, NEW status \in {"enabled", "disabled"}, UpsertMemory(k, status)
      PROVE  TypeOK'
  BY <1>4 DEF UpsertMemory, KeyStatus
<1>5. CASE AdminSave
  BY <1>5, NoUsageType DEF AdminSave, NoAdmin
<1>6. CASE AdminSaveFails
  BY <1>6, NoUsageType DEF AdminSaveFails, NoAdmin
<1>7. CASE FlushBegin
  BY <1>7 DEF FlushBegin
<1>8. CASE FlushSave
  BY <1>8, NoUsageType DEF FlushSave, NoFlush
<1>9. CASE FlushFails
  BY <1>9, NoUsageType DEF FlushFails, NoFlush
<1>10. CASE Tick
  BY <1>10 DEF Tick
<1>11. CASE Restart
  BY <1>11, NoUsageType, IdleType DEF Restart, NoAdmin, NoFlush, Locations
<1>12. QED
  BY <1>1, <1>2, <1>3, <1>4, <1>5, <1>6, <1>7, <1>8, <1>9, <1>10, <1>11 DEF AdminStep

LEMMA StepTypeOK == TypeOK /\ [Next]_vars => TypeOK'
<1> SUFFICES ASSUME TypeOK, [Next]_vars
             PROVE  TypeOK'
  OBVIOUS
<1>1. CASE Next
  BY <1>1, RequestStepTypeOK, OtherStepTypeOK DEF Next
<1>2. CASE UNCHANGED vars
  BY <1>2 DEF TypeOK, vars
<1>3. QED
  BY <1>1, <1>2

\* Every variable keeps its type, and only an idle thread has no key.
THEOREM TypeCorrect == Spec => []TypeOK
  BY InitTypeOK, StepTypeOK, PTL DEF Spec

--------------------------------------------------------------------------------
(* Memory and disk stay consistent.                                          *)

\* The steps of a request outside its critical section: none touches memory,
\* disk, a lock or another thread's request.
Unlocked(r) ==
    \/ Authenticate(r) \/ AuthenticateQuery(r)
    \/ AuthorizeKnown(r) \/ AuthorizeUnknown(r) \/ AuthorizeDisabled(r)
    \/ Admit(r) \/ Deny(r) \/ Resolve(r) \/ ResolveUnknown(r)
    \/ SetHistoryError(r) \/ ReadHistoryError(r) \/ Finish(r)

Critical == {"prepared", "committed"}

LEMMA UnlockedFrame ==
  ASSUME TypeOK, NEW r \in Requests, Unlocked(r)
  PROVE  /\ UNCHANGED <<now, day, keys, ledger, persistMu, diskKeys, diskUsage,
                        admin, flusher, unsaved>>
         /\ pc[r] \notin Critical /\ pc'[r] \notin Critical
         /\ \A q \in Requests \ {r} : pc'[q] = pc[q] /\ req'[q] = req[q]
<1> USE DEF TypeOK, clockVars, diskVars, Storage, Goto, Leave, Critical
<1>1. CASE Authenticate(r)
  BY <1>1 DEF Authenticate
<1>2. CASE AuthenticateQuery(r)
  BY <1>2 DEF AuthenticateQuery
<1>3. CASE AuthorizeKnown(r)
  BY <1>3 DEF AuthorizeKnown
<1>4. CASE AuthorizeUnknown(r)
  BY <1>4 DEF AuthorizeUnknown
<1>5. CASE AuthorizeDisabled(r)
  BY <1>5 DEF AuthorizeDisabled
<1>6. CASE Admit(r)
  BY <1>6 DEF Admit
<1>7. CASE Deny(r)
  BY <1>7 DEF Deny
<1>8. CASE Resolve(r)
  BY <1>8 DEF Resolve
<1>9. CASE ResolveUnknown(r)
  BY <1>9 DEF ResolveUnknown, Returned
<1>10. CASE SetHistoryError(r)
  BY <1>10 DEF SetHistoryError, Returned
<1>11. CASE ReadHistoryError(r)
  BY <1>11 DEF ReadHistoryError
<1>12. CASE Finish(r)
  BY <1>12 DEF Finish
<1>13. QED
  BY <1>1, <1>2, <1>3, <1>4, <1>5, <1>6, <1>7, <1>8, <1>9, <1>10, <1>11, <1>12
     DEF Unlocked

LEMMA UnlockedConsistent ==
  ASSUME TypeOK, TypeOK', Consistent, NEW r \in Requests, Unlocked(r)
  PROVE  Consistent'
<1>1. /\ UNCHANGED <<now, day, keys, ledger, persistMu, diskKeys, diskUsage,
                     admin, flusher, unsaved>>
      /\ pc[r] \notin Critical /\ pc'[r] \notin Critical
      /\ \A q \in Requests \ {r} : pc'[q] = pc[q] /\ req'[q] = req[q]
  BY UnlockedFrame
<1>2. Locking'
  BY <1>1 DEF Consistent, Locking, Critical
<1>3. Snapshots' /\ Resetting'
  BY <1>1 DEF Consistent, Snapshots, Resetting
<1>4. Built'
  BY <1>1 DEF Consistent, Built, Charged, Critical
<1>5. Agree'
  BY <1>1 DEF Consistent, Agree, Stored, Critical
<1>6. QED
  BY <1>2, <1>3, <1>4, <1>5 DEF Consistent

\* With persistMu free no charge, save or flush is under way.
LEMMA FreeMeansQuiet ==
  ASSUME TypeOK, Locking, persistMu = "free"
  PROVE  /\ \A r \in Requests : pc[r] \notin Critical
         /\ admin.op = "none" /\ ~flusher.busy
  BY HolderAssumption DEF TypeOK, Locking, Critical

\* The thread in its critical section is the only one there.
LEMMA OwnerAlone ==
  ASSUME TypeOK, Locking, NEW r \in Requests, pc[r] \in Critical
  PROVE  /\ persistMu = r
         /\ \A q \in Requests \ {r} : pc[q] \notin Critical
         /\ admin.op = "none" /\ ~flusher.busy
  BY HolderAssumption DEF TypeOK, Locking, Critical

LEMMA AdminAlone ==
  ASSUME TypeOK, Locking, admin.op # "none"
  PROVE  /\ persistMu = "admin"
         /\ \A r \in Requests : pc[r] \notin Critical
         /\ ~flusher.busy
  BY HolderAssumption DEF TypeOK, Locking, Critical

LEMMA FlusherAlone ==
  ASSUME TypeOK, Locking, flusher.busy
  PROVE  /\ persistMu = "flusher"
         /\ \A r \in Requests : pc[r] \notin Critical
         /\ admin.op = "none"
  BY HolderAssumption DEF TypeOK, Locking, Critical

LEMMA PrepareConsistent ==
  ASSUME TypeOK, TypeOK', Consistent, NEW r \in Requests, Prepare(r)
  PROVE  Consistent'
<1> USE DEF Prepare, clockVars, diskVars, Goto
<1>1. /\ \A q \in Requests : pc[q] \notin Critical
      /\ admin.op = "none" /\ ~flusher.busy
  BY FreeMeansQuiet DEF Consistent
<1>2. pc' = [pc EXCEPT ![r] = "prepared"] /\ persistMu' = r
  OBVIOUS
<1>3. Locking'
  BY <1>1, <1>2, HolderAssumption DEF Locking, TypeOK, Critical
<1>4. Snapshots' /\ Resetting'
  BY <1>1 DEF Snapshots, Resetting
<1>5. Agree'
  BY <1>1, <1>2 DEF Consistent, Agree, Stored, TypeOK, Critical
<1>6. \A q \in Requests \ {r} : pc'[q] \notin Critical
  BY <1>1, <1>2 DEF TypeOK
<1>7. req[r].billed => Charged(r)'
  <2>1. req[r].billed =>
           /\ req'[r] = [req[r] EXCEPT !.usage = AddCost(ledger[req[r].key], req[r].cost, Clock)]
           /\ ledger' = ledger /\ now' = now /\ day' = day
    BY DEF TypeOK, Request
  <2>2. now \in 1..now /\ day \in 1..day
    BY DEF TypeOK
  <2>3. QED
    BY <2>1, <2>2 DEF TypeOK, Request, Charged, Clock
<1>8. req'[r].cost = req[r].cost /\ req'[r].billed = req[r].billed
  BY DEF TypeOK, Request
<1>9. Built'
  BY <1>2, <1>6, <1>7, <1>8 DEF Built, TypeOK, Critical
<1>10. QED
  BY <1>3, <1>4, <1>5, <1>9 DEF Consistent

LEMMA CommitChargeConsistent ==
  ASSUME TypeOK, TypeOK', Consistent, NEW r \in Requests, CommitCharge(r)
  PROVE  Consistent'
<1> USE DEF CommitCharge, clockVars, diskVars, Goto
<1>1. /\ persistMu = r
      /\ \A q \in Requests \ {r} : pc[q] \notin Critical
      /\ admin.op = "none" /\ ~flusher.busy
  BY OwnerAlone DEF Consistent, Critical
<1>2. pc' = [pc EXCEPT ![r] = "committed"]
  OBVIOUS
<1>3. Locking'
  BY <1>1, <1>2 DEF Consistent, Locking, TypeOK, Critical
<1>4. Snapshots' /\ Resetting'
  BY <1>1 DEF Snapshots, Resetting
<1>5. Built'
  BY <1>1, <1>2 DEF Consistent, Built, Charged, TypeOK, Critical
<1>6. ASSUME NEW k \in Keys
      PROVE  \/ ledger'[k] = Stored(k)'
             \/ \E q \in Requests : pc'[q] = "committed" /\ req'[q].key = k
  <2>1. CASE k = req[r].key
    BY <1>2, <2>1 DEF TypeOK
  <2>2. CASE k # req[r].key
    BY <1>1, <2>2 DEF Consistent, Agree, Stored, TypeOK, Critical
  <2>3. QED
    BY <2>1, <2>2
<1>7. Agree'
  BY <1>6 DEF Agree
<1>8. QED
  BY <1>3, <1>4, <1>5, <1>7 DEF Consistent

LEMMA PublishConsistent ==
  ASSUME TypeOK, TypeOK', Consistent, NEW r \in Requests, Publish(r)
  PROVE  Consistent'
<1> USE DEF Publish, clockVars, diskVars, Goto
<1>1. /\ persistMu = r
      /\ \A q \in Requests \ {r} : pc[q] \notin Critical
      /\ admin.op = "none" /\ ~flusher.busy
  BY OwnerAlone DEF Consistent, Critical
<1>2. \A q \in Requests : pc'[q] \notin Critical
  BY <1>1 DEF TypeOK, Critical
<1>3. Locking'
  BY <1>1, <1>2, HolderAssumption DEF Locking, TypeOK, Critical
<1>4. Snapshots' /\ Resetting' /\ Built'
  BY <1>1, <1>2 DEF Snapshots, Resetting, Built, Critical
<1>5. ASSUME NEW k \in Keys
      PROVE  ledger'[k] = Stored(k)'
  <2>1. CASE k = req[r].key
    BY <1>1, <2>1 DEF Consistent, Built, Stored, TypeOK
  <2>2. CASE k # req[r].key
    BY <1>1, <2>2 DEF Consistent, Agree, Stored, TypeOK, Critical
  <2>3. QED
    BY <2>1, <2>2
<1>6. Agree'
  BY <1>5 DEF Agree
<1>7. QED
  BY <1>3, <1>4, <1>6 DEF Consistent

\* A request leaves its critical section without having charged anything.
LEMMA NoChargeConsistent ==
  ASSUME TypeOK, TypeOK', Consistent, NEW r \in Requests, CommitEvent(r) \/ CommitFails(r)
  PROVE  Consistent'
<1> USE DEF CommitEvent, CommitFails, clockVars, diskVars, Goto
<1>1. /\ persistMu = r
      /\ \A q \in Requests \ {r} : pc[q] \notin Critical
      /\ admin.op = "none" /\ ~flusher.busy
  BY OwnerAlone DEF Consistent, Critical
<1>2. \A q \in Requests : pc'[q] \notin Critical
  BY <1>1 DEF TypeOK, Critical
<1>3. Locking'
  BY <1>1, <1>2, HolderAssumption DEF Locking, TypeOK, Critical
<1>4. Snapshots' /\ Resetting' /\ Built'
  BY <1>1, <1>2 DEF Snapshots, Resetting, Built, Critical
<1>5. Agree'
  BY <1>1 DEF Consistent, Agree, Stored, Critical
<1>6. QED
  BY <1>3, <1>4, <1>5 DEF Consistent

\* Management and the flusher change neither the requests nor the clock.
ManagementStep == AdminStep \/ FlushBegin \/ FlushSave \/ FlushFails

LEMMA ManagementFrame ==
  ASSUME ManagementStep
  PROVE  UNCHANGED <<now, day, pc, req>>
  BY DEF ManagementStep, AdminStep, ResetSave, ResetMemory, DeleteMemory, UpsertMemory,
         AdminSave, AdminSaveFails, FlushBegin, FlushSave, FlushFails, clockVars

\* None of them runs while a request is in its critical section.
LEMMA ManagementQuiet ==
  ASSUME TypeOK, Locking, ManagementStep
  PROVE  \A r \in Requests : pc[r] \notin Critical /\ pc'[r] \notin Critical
<1>1. CASE persistMu = "free"
  BY <1>1, FreeMeansQuiet, ManagementFrame
<1>2. CASE admin.op # "none"
  BY <1>2, AdminAlone, ManagementFrame
<1>3. CASE flusher.busy
  BY <1>3, FlusherAlone, ManagementFrame
<1>4. persistMu = "free" \/ admin.op # "none" \/ flusher.busy
  BY DEF ManagementStep, AdminStep, AdminIdle, ResetSave, ResetMemory, DeleteMemory,
         UpsertMemory, AdminSave, AdminSaveFails, FlushBegin, FlushSave, FlushFails
<1>5. QED
  BY <1>1, <1>2, <1>3, <1>4

LEMMA ManagementLocking ==
  ASSUME TypeOK, Locking, ManagementStep
  PROVE  Locking'
<1> USE HolderAssumption DEF TypeOK, Locking, Critical
<1>0. \A r \in Requests : pc[r] \notin Critical /\ pc'[r] \notin Critical
  BY ManagementQuiet
<1>1. CASE ResetSave
  BY <1>0, <1>1, FreeMeansQuiet DEF ResetSave, AdminIdle, NoAdmin
<1>2. CASE ResetMemory
  BY <1>0, <1>2, AdminAlone DEF ResetMemory, NoAdmin
<1>3. ASSUME NEW k \in Keys, DeleteMemory(k)
      PROVE  Locking'
  BY <1>0, <1>3, FreeMeansQuiet DEF DeleteMemory, AdminIdle
<1>4. ASSUME NEW k \in Keys, NEW status \in {"enabled", "disabled"}, UpsertMemory(k, status)
      PROVE  Locking'
  BY <1>0, <1>4, FreeMeansQuiet DEF UpsertMemory, AdminIdle
<1>5. CASE AdminSave \/ AdminSaveFails
  BY <1>0, <1>5, AdminAlone DEF AdminSave, AdminSaveFails, NoAdmin
<1>6. CASE FlushBegin
  BY <1>0, <1>6, FreeMeansQuiet DEF FlushBegin
<1>7. CASE FlushSave \/ FlushFails
  BY <1>0, <1>7, FlusherAlone DEF FlushSave, FlushFails, NoFlush
<1>8. QED
  BY <1>1, <1>2, <1>3, <1>4, <1>5, <1>6, <1>7 DEF ManagementStep, AdminStep

\* What Agree comes to when no charge is between its commit and its publishing.
Matched == admin.op # "reset" => \A k \in Keys : ledger[k] = Stored(k)

LEMMA ManagementMatched ==
  ASSUME TypeOK, Consistent, ManagementStep
  PROVE  Matched' /\ Snapshots' /\ Resetting'
<1> USE DEF Matched, Snapshots, Resetting
<1>0. Locking /\ Matched /\ Snapshots /\ Resetting
  BY ManagementQuiet DEF Consistent, Agree, Critical
<1> USE <1>0 DEF TypeOK, Stored, diskVars
<1>1. CASE ResetSave
  BY <1>1, FreeMeansQuiet DEF ResetSave, AdminIdle, NoAdmin
<1>2. CASE ResetMemory
  BY <1>2, AdminAlone DEF ResetMemory, NoAdmin
<1>3. ASSUME NEW k \in Keys, DeleteMemory(k)
      PROVE  Matched' /\ Snapshots' /\ Resetting'
  BY <1>3, FreeMeansQuiet DEF DeleteMemory, AdminIdle
<1>4. ASSUME NEW k \in Keys, NEW status \in {"enabled", "disabled"}, UpsertMemory(k, status)
      PROVE  Matched' /\ Snapshots' /\ Resetting'
  BY <1>4, FreeMeansQuiet DEF UpsertMemory, AdminIdle
<1>5. CASE AdminSave
  BY <1>5, AdminAlone DEF AdminSave, NoAdmin
<1>6. CASE AdminSaveFails
  BY <1>6, AdminAlone DEF AdminSaveFails, NoAdmin
<1>7. CASE FlushBegin
  BY <1>7, FreeMeansQuiet DEF FlushBegin
<1>8. CASE FlushSave
  BY <1>8, FlusherAlone DEF FlushSave, NoFlush
<1>9. CASE FlushFails
  BY <1>9, FlusherAlone DEF FlushFails, NoFlush
<1>10. QED
  BY <1>1, <1>2, <1>3, <1>4, <1>5, <1>6, <1>7, <1>8, <1>9 DEF ManagementStep, AdminStep

LEMMA ManagementConsistent ==
  ASSUME TypeOK, Consistent, ManagementStep
  PROVE  Consistent'
<1>1. Locking'
  BY ManagementLocking DEF Consistent
<1>2. Matched' /\ Snapshots' /\ Resetting'
  BY ManagementMatched
<1>3. \A r \in Requests : pc'[r] \notin Critical
  BY ManagementQuiet DEF Consistent
<1>4. Built' /\ Agree'
  BY <1>2, <1>3 DEF Built, Agree, Matched, Critical
<1>5. QED
  BY <1>1, <1>2, <1>4 DEF Consistent

LEMMA TickConsistent ==
  ASSUME TypeOK, Consistent, Tick
  PROVE  Consistent'
<1> USE DEF Tick, Storage
<1>1. Locking' /\ Snapshots' /\ Agree' /\ Resetting'
  BY DEF Consistent, Locking, Snapshots, Agree, Stored, Resetting
<1>2. \A r \in Requests : Charged(r) => Charged(r)'
  BY DEF Charged, TypeOK
<1>3. Built'
  BY <1>2 DEF Consistent, Built
<1>4. QED
  BY <1>1, <1>3 DEF Consistent

LEMMA RestartConsistent ==
  ASSUME TypeOK, Restart
  PROVE  Consistent'
<1> USE DEF Restart, diskVars, NoAdmin, NoFlush
<1>1. Locking'
  BY HolderAssumption DEF Locking
<1>2. Snapshots' /\ Built' /\ Agree' /\ Resetting'
  BY DEF Snapshots, Built, Agree, Stored, Resetting
<1>3. QED
  BY <1>1, <1>2 DEF Consistent

LEMMA InitConsistent == Init => Consistent
<1> SUFFICES ASSUME Init PROVE Consistent
  OBVIOUS
<1> USE DEF Init, NoAdmin, NoFlush
<1>1. Locking
  BY HolderAssumption DEF Locking
<1>2. Snapshots /\ Built /\ Agree /\ Resetting
  BY DEF Snapshots, Built, Agree, Stored, Resetting
<1>3. QED
  BY <1>1, <1>2 DEF Consistent

\* The steps of Next, grouped as the lemmas are.
LEMMA NextCases ==
  ASSUME Next
  PROVE  \/ \E r \in Requests : \/ Unlocked(r) \/ Prepare(r) \/ CommitCharge(r)
                                \/ Publish(r) \/ CommitEvent(r) \/ CommitFails(r)
         \/ ManagementStep \/ Tick \/ Restart
  BY DEF Next, RequestStep, Unlocked, ManagementStep

LEMMA StepConsistent == TypeOK /\ TypeOK' /\ Consistent /\ [Next]_vars => Consistent'
<1> SUFFICES ASSUME TypeOK, TypeOK', Consistent, [Next]_vars
             PROVE  Consistent'
  OBVIOUS
<1>1. ASSUME NEW r \in Requests, Unlocked(r)
      PROVE  Consistent'
  BY <1>1, UnlockedConsistent
<1>2. ASSUME NEW r \in Requests, Prepare(r)
      PROVE  Consistent'
  BY <1>2, PrepareConsistent
<1>3. ASSUME NEW r \in Requests, CommitCharge(r)
      PROVE  Consistent'
  BY <1>3, CommitChargeConsistent
<1>4. ASSUME NEW r \in Requests, Publish(r)
      PROVE  Consistent'
  BY <1>4, PublishConsistent
<1>5. ASSUME NEW r \in Requests, CommitEvent(r) \/ CommitFails(r)
      PROVE  Consistent'
  BY <1>5, NoChargeConsistent
<1>6. CASE ManagementStep
  BY <1>6, ManagementConsistent
<1>7. CASE Tick
  BY <1>7, TickConsistent
<1>8. CASE Restart
  BY <1>8, RestartConsistent
<1>9. CASE UNCHANGED vars
  BY <1>9 DEF vars, Consistent, Locking, Snapshots, Built, Charged, Agree, Stored, Resetting
<1>10. QED
  BY <1>1, <1>2, <1>3, <1>4, <1>5, <1>6, <1>7, <1>8, <1>9, NextCases

(* In every reachable state the ledger, the database, the snapshots in      *)
(* flight and the lock agree (recordUsage, flush and reset between them).   *)
THEOREM ConsistentAlways == Spec => []Consistent
<1>1. Init => TypeOK /\ Consistent
  BY InitTypeOK, InitConsistent
<1>2. TypeOK /\ Consistent /\ [Next]_vars => (TypeOK /\ Consistent)'
  BY StepTypeOK, StepConsistent
<1>3. QED
  BY <1>1, <1>2, PTL DEF Spec

\* The live ledger is what the database holds whenever persistMu is free.
THEOREM LedgerDurable == Spec => []LiveUsageDurable
<1>1. TypeOK /\ Consistent => LiveUsageDurable
  <2> SUFFICES ASSUME TypeOK, Consistent, persistMu = "free", NEW k \in Keys
               PROVE  ledger[k] = Stored(k)
    BY DEF LiveUsageDurable, Stored
  <2>1. (\A r \in Requests : pc[r] \notin Critical) /\ admin.op = "none"
    BY FreeMeansQuiet DEF Consistent
  <2>2. QED
    BY <2>1 DEF Consistent, Agree, Critical
<1>2. QED
  BY <1>1, TypeCorrect, ConsistentAlways, PTL

--------------------------------------------------------------------------------
(* Nothing lies in the future.                                               *)

LEMMA ChargePast ==
  ASSUME TypeOK, NEW u \in UsageState, Past(u), NEW cost \in Nat,
         NEW n \in 1..now, NEW d \in 1..day
  PROVE  Past(AddCost(u, cost, [now |-> n, day |-> d]))
<1> DEFINE t == [now |-> n, day |-> d]
<1>1. \A w \in Windows :
         /\ AddCost(u, cost, t)[w].start = CurrentWindow(w, u[w], t).start
         /\ CurrentWindow(w, u[w], t).start \in {u[w].start, StartAt(w, t)}
  <2> SUFFICES ASSUME NEW w \in Windows
               PROVE  /\ AddCost(u, cost, t)[w].start = CurrentWindow(w, u[w], t).start
                      /\ CurrentWindow(w, u[w], t).start \in {u[w].start, StartAt(w, t)}
    OBVIOUS
  <2>1. AddCost(u, cost, t)[w] = [CurrentWindow(w, u[w], t) EXCEPT !.total = @ + cost]
    BY DEF AddCost
  <2>2. CurrentWindow(w, u[w], t) \in [start : Nat, total : Nat]
    BY DEF CurrentWindow, StartAt, UsageState, UsageWindow, TypeOK
  <2>3. CurrentWindow(w, u[w], t).start \in {u[w].start, StartAt(w, t)}
    BY DEF CurrentWindow
  <2>4. QED
    BY <2>1, <2>2, <2>3
<1>2. StartAt("daily", t) = d /\ StartAt("weekly", t) = n
  BY DEF StartAt
<1>3. {"daily", "weekly"} \subseteq Windows
  BY DEF Windows
<1>4. u["daily"].start \in Nat /\ u["weekly"].start \in Nat
  BY DEF UsageState, UsageWindow, Windows
<1>5. QED
  BY <1>1, <1>2, <1>3, <1>4 DEF Past, TypeOK

LEMMA NoUsagePast == TypeOK => Past(NoUsage)
  BY DEF Past, NoUsage, Windows, TypeOK

\* The instant a request last read is now or before.
Heard(r) == req[r].clock.day <= day /\ req[r].clock.now <= now

LEMMA RequestClocks ==
  ASSUME TypeOK, NEW r \in Requests, Heard(r), RequestStep(r)
  PROVE  Heard(r)'
<1> USE DEF TypeOK, clockVars, diskVars, Storage, Heard, Request, Instants
<1>0. Idle.clock.day <= day /\ Idle.clock.now <= now
  BY DEF Idle
<1>1. CASE Authenticate(r)
  BY <1>1 DEF Authenticate
<1>2. CASE AuthenticateQuery(r)
  BY <1>2 DEF AuthenticateQuery, Clock, Idle
<1>3. CASE AuthorizeKnown(r)
  BY <1>3 DEF AuthorizeKnown, Clock
<1>4. CASE AuthorizeUnknown(r)
  BY <1>4 DEF AuthorizeUnknown
<1>5. CASE AuthorizeDisabled(r) \/ Deny(r) \/ Finish(r)
  BY <1>0, <1>5 DEF AuthorizeDisabled, Deny, Finish, Leave
<1>6. CASE Admit(r)
  BY <1>0, <1>6 DEF Admit
<1>7. CASE Resolve(r)
  BY <1>7 DEF Resolve
<1>8. CASE ResolveUnknown(r)
  BY <1>8 DEF ResolveUnknown
<1>9. CASE Prepare(r)
  BY <1>9 DEF Prepare
<1>10. CASE CommitCharge(r) \/ SetHistoryError(r)
  BY <1>10 DEF CommitCharge, SetHistoryError
<1>11. CASE Publish(r) \/ CommitEvent(r)
  <2>1. Decided(r, FALSE)
    BY <1>11 DEF Publish, CommitEvent
  <2>2. QED
    BY <1>0, <1>11, <2>1, DecidedType DEF Publish, CommitEvent
<1>12. CASE CommitFails(r)
  <2>1. Decided(r, TRUE)
    BY <1>12 DEF CommitFails
  <2>2. QED
    BY <1>0, <1>12, <2>1, DecidedType DEF CommitFails
<1>13. CASE ReadHistoryError(r)
  BY <1>0, <1>13 DEF ReadHistoryError, Leave
<1>14. QED
  BY <1>1, <1>2, <1>3, <1>4, <1>5, <1>6, <1>7, <1>8, <1>9, <1>10, <1>11, <1>12, <1>13
     DEF RequestStep

\* What a step of a request does to memory and disk.
LEMMA RequestStorage ==
  ASSUME TypeOK, NEW r \in Requests, RequestStep(r)
  PROVE  /\ now' = now /\ day' = day
         /\ \A q \in Requests \ {r} : req'[q] = req[q] /\ pc'[q] = pc[q]
         /\ ledger' = ledger \/ Publish(r)
         /\ (diskUsage' = diskUsage /\ unsaved' = unsaved) \/ CommitCharge(r)
<1>1. CASE Unlocked(r)
  BY <1>1, UnlockedFrame
<1>2. CASE Prepare(r)
  BY <1>2 DEF Prepare, clockVars, diskVars, Goto, TypeOK
<1>3. CASE CommitCharge(r)
  BY <1>3 DEF CommitCharge, clockVars, diskVars, Goto, TypeOK
<1>4. CASE Publish(r) \/ CommitEvent(r) \/ CommitFails(r)
  <2>1. Decided(r, FALSE) \/ Decided(r, TRUE)
    BY <1>4 DEF Publish, CommitEvent, CommitFails
  <2>2. \A q \in Requests \ {r} : req'[q] = req[q]
    BY <2>1, DecidedType
  <2>3. QED
    BY <1>4, <2>2 DEF Publish, CommitEvent, CommitFails, clockVars, diskVars, Goto, TypeOK
<1>7. QED
  BY <1>1, <1>2, <1>3, <1>4 DEF RequestStep, Unlocked

\* A state being charged is a valid one, in no way ahead of the clock.
LEMMA BuiltPast ==
  ASSUME TypeOK, Consistent, NothingAhead, NEW r \in Requests,
         pc[r] \in Critical, req[r].billed
  PROVE  Past(req[r].usage)
<1>1. req[r].key \in Keys /\ req[r].cost \in Nat
  BY CostAssumption DEF TypeOK, Request, Critical
<1>2. PICK n \in 1..now, d \in 1..day :
         req[r].usage = AddCost(ledger[req[r].key], req[r].cost, [now |-> n, day |-> d])
  BY DEF Consistent, Built, Charged, Critical
<1>3. Past(ledger[req[r].key]) /\ ledger[req[r].key] \in UsageState
  BY <1>1 DEF NothingAhead, TypeOK
<1>4. QED
  BY <1>1, <1>2, <1>3, ChargePast

\* What management and the flusher write is what memory or disk held, or nothing.
LEMMA ManagementWrites ==
  ASSUME TypeOK, Consistent, ManagementStep, NEW k \in Keys
  PROVE  /\ ledger'[k] \in {ledger[k], NoUsage}
         /\ diskUsage'[k] \in {diskUsage[k], ledger[k], NoUsage}
<1> USE DEF TypeOK, diskVars
<1>1. Snapshots
  BY DEF Consistent
<1>2. CASE ResetSave \/ ResetMemory
  BY <1>2 DEF ResetSave, ResetMemory
<1>3. ASSUME NEW j \in Keys, DeleteMemory(j)
      PROVE  /\ ledger'[k] \in {ledger[k], NoUsage}
             /\ diskUsage'[k] = diskUsage[k]
  BY <1>3 DEF DeleteMemory
<1>4. ASSUME NEW j \in Keys, NEW status \in {"enabled", "disabled"}, UpsertMemory(j, status)
      PROVE  ledger' = ledger /\ diskUsage' = diskUsage
  BY <1>4 DEF UpsertMemory
<1>5. CASE AdminSave \/ AdminSaveFails
  BY <1>1, <1>5 DEF AdminSave, AdminSaveFails, Snapshots
<1>6. CASE FlushBegin \/ FlushSave \/ FlushFails
  BY <1>1, <1>6 DEF FlushBegin, FlushSave, FlushFails, Snapshots
<1>7. QED
  BY <1>2, <1>3, <1>4, <1>5, <1>6 DEF ManagementStep, AdminStep

LEMMA StepNothingAhead ==
  ASSUME TypeOK, TypeOK', Consistent, NothingAhead, [Next]_vars
  PROVE  NothingAhead'
<1> USE DEF NothingAhead
<1>1. ASSUME NEW r \in Requests, RequestStep(r)
      PROVE  NothingAhead'
  <2>1. /\ now' = now /\ day' = day
        /\ \A q \in Requests \ {r} : req'[q] = req[q]
        /\ ledger' = ledger \/ Publish(r)
        /\ diskUsage' = diskUsage \/ CommitCharge(r)
    BY <1>1, RequestStorage
  <2>2. \A u : Past(u) => Past(u)'
    BY <2>1 DEF Past
  <2>3. Heard(r)'
    BY <1>1, RequestClocks DEF Heard
  <2>4. \A q \in Requests : Heard(q)'
    BY <2>1, <2>3 DEF Heard
  <2>5. ASSUME Publish(r) \/ CommitCharge(r)
        PROVE  Past(req[r].usage)
    <3>1. pc[r] \in Critical /\ req[r].billed
      BY <2>5 DEF Publish, CommitCharge, Critical, Consistent, Built
    <3>2. QED
      BY <3>1, BuiltPast
  <2>6. \A k \in Keys : Past(ledger'[k])
    BY <2>1, <2>5 DEF Publish, TypeOK
  <2>7. \A k \in Keys : Past(diskUsage'[k])
    BY <2>1, <2>5 DEF CommitCharge, TypeOK
  <2>8. QED
    BY <2>1, <2>4, <2>6, <2>7 DEF Heard, Past
<1>2. CASE ManagementStep
  <2>1. UNCHANGED <<now, day, pc, req>>
    BY <1>2, ManagementFrame
  <2>2. \A k \in Keys : Past(ledger'[k]) /\ Past(diskUsage'[k])
    BY <1>2, ManagementWrites, NoUsagePast
  <2>3. QED
    BY <2>1, <2>2 DEF Past
<1>3. CASE Tick
  <2>1. \A k \in Keys, w \in Windows :
           ledger[k][w].start \in Nat /\ diskUsage[k][w].start \in Nat
    BY DEF TypeOK, UsageState, UsageWindow
  <2>2. \A r \in Requests : req[r].clock.now \in Nat /\ req[r].clock.day \in Nat
    BY DEF TypeOK, Request, Instants
  <2>3. QED
    BY <1>3, <2>1, <2>2 DEF Tick, Storage, Past, Windows, TypeOK
<1>4. CASE Restart
  BY <1>4 DEF Restart, clockVars, diskVars, Past, Idle, TypeOK
<1>5. CASE UNCHANGED vars
  BY <1>5 DEF vars, Past
<1>6. QED
  BY <1>1, <1>2, <1>3, <1>4, <1>5 DEF Next, ManagementStep

--------------------------------------------------------------------------------
(* Budgets run over by a bounded amount.                                     *)

\* What a set of requests can cost at most.
CostOf(S) == MaxCost * Cardinality(S)

LEMMA TimesMonotone ==
  ASSUME NEW c \in Nat, NEW a \in Nat, NEW b \in Nat, a <= b
  PROVE  c * a \in Nat /\ c * a <= c * b
  OBVIOUS

LEMMA CostOfSubset ==
  ASSUME NEW S \in SUBSET Requests, NEW R \in SUBSET S
  PROVE  CostOf(R) \in Nat /\ CostOf(S) \in Nat /\ CostOf(R) <= CostOf(S)
<1>1. IsFiniteSet(S)
  BY KeysAssumption, FS_Subset
<1>2. Cardinality(R) \in Nat /\ Cardinality(S) \in Nat /\ Cardinality(R) <= Cardinality(S)
  BY <1>1, FS_Subset, FS_CardinalityType
<1>3. QED
  BY <1>2, TimesMonotone, CostAssumption DEF CostOf

LEMMA CostOfRemoved ==
  ASSUME NEW S \in SUBSET Requests, NEW r \in S, NEW R \in SUBSET (S \ {r})
  PROVE  CostOf(R) + MaxCost <= CostOf(S)
<1>1. IsFiniteSet(S)
  BY KeysAssumption, FS_Subset
<1>2. Cardinality(S \ {r}) = Cardinality(S) - 1 /\ Cardinality(S) \in Nat
  BY <1>1, FS_RemoveElement, FS_CardinalityType
<1>3. CostOf(S \ {r}) + MaxCost = CostOf(S)
  BY <1>2, CostAssumption DEF CostOf
<1>4. CostOf(R) <= CostOf(S \ {r}) /\ CostOf(R) \in Nat /\ CostOf(S \ {r}) \in Nat
  BY CostOfSubset
<1>5. QED
  BY <1>3, <1>4, CostAssumption

\* While a total is below its limit every thread may still be exposed.
LEMMA Affordable ==
  ASSUME NEW w \in Windows, NEW total \in Nat, total < Limit[w],
         NEW S \in SUBSET Requests
  PROVE  total + CostOf(S) <= MostSpent(w)
<1>1. CostOf(S) \in Nat /\ CostOf(Requests) \in Nat /\ CostOf(S) <= CostOf(Requests)
  BY CostOfSubset
<1>2. MostSpent(w) = Limit[w] - 1 + CostOf(Requests)
  BY DEF MostSpent, CostOf
<1>3. Limit[w] \in Nat
  BY LimitAssumption
<1>4. QED
  BY <1>1, <1>2, <1>3

\* A total seen with an older clock of the same day is no smaller.
LEMMA OlderClock ==
  ASSUME NEW u \in UsageState, NEW w \in Windows, NEW t \in Instants, NEW s \in Instants,
         s.now <= t.now, w = "daily" => s.day = t.day
  PROVE  TotalAt(u, w, t) <= TotalAt(u, w, s)
<1>1. u[w].start \in Nat /\ u[w].total \in Nat
  BY DEF UsageState, UsageWindow
<1>2. Elapsed(w, u[w], s) => Elapsed(w, u[w], t)
  BY <1>1, WeekLenAssumption DEF Elapsed, Instants, Windows
<1>3. QED
  BY <1>1, <1>2 DEF TotalAt, CurrentWindow

LEMMA MostSpentType ==
  ASSUME NEW w \in Windows, Limit[w] > 0
  PROVE  MostSpent(w) \in Nat
<1>1. CostOf(Requests) \in Nat
  BY CostOfSubset
<1>2. QED
  BY <1>1, LimitAssumption DEF MostSpent, CostOf

\* The budget of one key in one window, and how a step may keep it.
Within(k, w) ==
    /\ TotalAt(diskUsage[k], w, Clock) <= MostSpent(w)
    /\ TotalAt(ledger[k], w, Clock) + CostOf(Exposed(k, w)) <= MostSpent(w)

LEMMA SpendingWithin ==
  Spending <=> \A k \in Keys, w \in Windows : Limit[w] > 0 => Within(k, w)
  BY DEF Spending, Within, CostOf

LEMMA ClockType == TypeOK => Clock \in Instants
  BY DEF TypeOK, Clock, Instants

\* Only admitting a request exposes it: any other step of a request leaves the
\* exposed requests, or one fewer.
LEMMA RequestExposure ==
  ASSUME TypeOK, TypeOK', NEW r \in Requests, RequestStep(r),
         NEW k \in Keys, NEW w \in Windows
  PROVE  \/ Exposed(k, w)' \subseteq Exposed(k, w)
         \/ /\ Admit(r) /\ k = req[r].key
            /\ ~(w = "daily" /\ req[r].clock.day < day)
<1> USE DEF TypeOK, Exposed, clockVars, diskVars, Storage, Goto, Leave
<1>0. \A q \in Requests \ {r} : req'[q] = req[q] /\ pc'[q] = pc[q]
  BY RequestStorage
<1>a. now' = now /\ day' = day /\ keys' = keys
  BY DEF RequestStep, Authenticate, AuthenticateQuery, AuthorizeKnown, AuthorizeUnknown,
         AuthorizeDisabled, Admit, Deny, Resolve, ResolveUnknown, Prepare, CommitCharge,
         Publish, CommitEvent, CommitFails, SetHistoryError, ReadHistoryError, Finish
<1>b. ASSUME r \in Exposed(k, w)' => r \in Exposed(k, w)
      PROVE  Exposed(k, w)' \subseteq Exposed(k, w)
  BY <1>0, <1>a, <1>b
<1>1. CASE Authenticate(r)
  <2>1. pc'[r] = "authenticated" /\ keys[req'[r].key] = "enabled"
    BY <1>1 DEF Authenticate
  <2>2. QED
    BY <1>a, <1>b, <2>1
<1>2. CASE AuthenticateQuery(r)
  <2>1. pc'[r] = "checking" /\ req'[r].clock.day = day
    BY <1>2 DEF AuthenticateQuery, Clock, Idle
  <2>2. QED
    BY <1>a, <1>b, <2>1
<1>3. CASE AuthorizeKnown(r)
  <2>1. pc'[r] = "checking" /\ req'[r].clock.day = day
    BY <1>3 DEF AuthorizeKnown, Clock, Request
  <2>2. QED
    BY <1>a, <1>b, <2>1
<1>4. CASE AuthorizeUnknown(r)
  BY <1>b, <1>4 DEF AuthorizeUnknown
<1>5. CASE AuthorizeDisabled(r) \/ Deny(r) \/ Finish(r)
  <2>1. pc'[r] = "idle"
    BY <1>5 DEF AuthorizeDisabled, Deny, Finish
  <2>2. QED
    BY <1>b, <2>1
<1>6. CASE Admit(r)
  <2>1. pc[r] = "checking" /\ req'[r].key = req[r].key
    BY <1>6 DEF Admit, Request
  <2>2. QED
    BY <1>a, <1>b, <1>6, <2>1
<1>7. CASE Resolve(r)
  <2>1. pc[r] \in {"admitted", "upstream"} /\ req'[r].key = req[r].key
    BY <1>7 DEF Resolve, Request
  <2>2. QED
    BY <1>b, <2>1
<1>8. CASE ResolveUnknown(r) \/ SetHistoryError(r) \/ ReadHistoryError(r)
  <2>1. pc'[r] \in {"idle", "reply", "forwarded"}
    BY <1>8 DEF ResolveUnknown, SetHistoryError, ReadHistoryError, Returned
  <2>2. QED
    BY <1>b, <2>1
<1>9. CASE Prepare(r)
  <2>1. pc[r] = "resolved" /\ req'[r].key = req[r].key
    BY <1>9 DEF Prepare, Request
  <2>2. QED
    BY <1>b, <2>1
<1>10. CASE CommitCharge(r)
  BY <1>b, <1>10 DEF CommitCharge
<1>11. CASE Publish(r) \/ CommitEvent(r) \/ CommitFails(r)
  <2>1. pc'[r] = "recorded"
    BY <1>11 DEF Publish, CommitEvent, CommitFails
  <2>2. QED
    BY <1>b, <2>1
<1>12. QED
  BY <1>1, <1>2, <1>3, <1>4, <1>5, <1>6, <1>7, <1>8, <1>9, <1>10, <1>11 DEF RequestStep

\* The state a request is about to store holds the live one and its cost.
LEMMA BuiltTotal ==
  ASSUME TypeOK, Consistent, NEW r \in Requests, pc[r] \in Critical, req[r].billed,
         NEW w \in Windows
  PROVE  TotalAt(req[r].usage, w, Clock)
            <= TotalAt(ledger[req[r].key], w, Clock) + MaxCost
<1>1. req[r].key \in Keys /\ req[r].cost \in Nat /\ req[r].cost <= MaxCost
  BY CostAssumption DEF TypeOK, Request, Critical
<1>2. PICK n \in 1..now, d \in 1..day :
         req[r].usage = AddCost(ledger[req[r].key], req[r].cost, [now |-> n, day |-> d])
  BY DEF Consistent, Built, Charged, Critical
<1>3. ledger[req[r].key] \in UsageState
  BY <1>1 DEF TypeOK
<1>4. Clock \in Instants /\ [now |-> n, day |-> d] \in Instants /\ n <= Clock.now /\ d <= Clock.day
  BY DEF TypeOK, Clock, Instants
<1>5. TotalAt(req[r].usage, w, Clock) <= TotalAt(ledger[req[r].key], w, Clock) + req[r].cost
  BY <1>1, <1>2, <1>3, <1>4, ChargeRaisesByCost
<1>6. TotalAt(ledger[req[r].key], w, Clock) \in Nat /\ TotalAt(req[r].usage, w, Clock) \in Nat
  BY <1>3, <1>4, TotalType DEF TypeOK, Request
<1>7. QED
  BY <1>1, <1>5, <1>6, CostAssumption

LEMMA RequestSpending ==
  ASSUME TypeOK, TypeOK', Consistent, NothingAhead, Spending,
         NEW r \in Requests, RequestStep(r),
         NEW k \in Keys, NEW w \in Windows, Limit[w] > 0
  PROVE  Within(k, w)'
<1> DEFINE E == Exposed(k, w)
           T == TotalAt(ledger[k], w, Clock)
           D == TotalAt(diskUsage[k], w, Clock)
<1>1. E \in SUBSET Requests /\ E' \in SUBSET Requests
  BY DEF Exposed
<1>2. CostOf(E) \in Nat /\ CostOf(E') \in Nat
  BY <1>1, CostOfSubset
<1>3. T \in Nat /\ D \in Nat /\ T' \in Nat /\ D' \in Nat
  BY ClockType, TotalType DEF TypeOK, Clock, Instants
<1>4. D <= MostSpent(w) /\ T + CostOf(E) <= MostSpent(w) /\ MostSpent(w) \in Nat
  BY SpendingWithin, MostSpentType DEF Within
<1>5. /\ Clock' = Clock
      /\ ledger' = ledger \/ Publish(r)
      /\ diskUsage' = diskUsage \/ CommitCharge(r)
  BY RequestStorage DEF Clock
<1>6. D' <= MostSpent(w)
  <2>1. CASE diskUsage' = diskUsage \/ (CommitCharge(r) /\ k # req[r].key)
    <3>1. diskUsage'[k] = diskUsage[k]
      BY <2>1 DEF CommitCharge, TypeOK
    <3>2. QED
      BY <1>4, <1>5, <3>1
  <2>2. CASE CommitCharge(r) /\ k = req[r].key
    <3>1. pc[r] \in Critical /\ req[r].billed /\ diskUsage'[k] = req[r].usage
      BY <2>2 DEF CommitCharge, Critical, TypeOK
    <3>2. D' <= T + MaxCost
      BY <1>5, <2>2, <3>1, BuiltTotal
    <3>3. r \in E /\ {} \in SUBSET (E \ {r})
      BY <2>2, <3>1 DEF Exposed, Critical
    <3>4. CostOf({}) + MaxCost <= CostOf(E) /\ CostOf({}) \in Nat
      BY <1>1, <3>3, CostOfRemoved, CostOfSubset
    <3>5. QED
      BY <1>2, <1>3, <1>4, <3>2, <3>4, CostAssumption
  <2>3. QED
    BY <1>5, <2>1, <2>2
<1>7. T' + CostOf(E') <= MostSpent(w)
  <2>1. CASE ledger' = ledger /\ E' \subseteq E
    <3>1. T' = T /\ CostOf(E') <= CostOf(E)
      BY <1>1, <1>5, <2>1, CostOfSubset
    <3>2. QED
      BY <1>2, <1>3, <1>4, <3>1
  <2>2. CASE /\ ledger' = ledger /\ Admit(r) /\ k = req[r].key
             /\ ~(w = "daily" /\ req[r].clock.day < day)
    <3>1. Heard(r) /\ req[r].clock \in Instants /\ Clock \in Instants
      BY ClockType DEF NothingAhead, Heard, TypeOK, Request
    <3>2. TotalAt(ledger[k], w, req[r].clock) < Limit[w]
      <4>1. TotalAt(ledger[k], w, req[r].clock) \in Nat
        BY <3>1, TotalType DEF TypeOK
      <4>2. ~(TotalAt(ledger[k], w, req[r].clock) >= Limit[w])
        BY <2>2 DEF Admit, WithinBudget, OverLimit
      <4>3. QED
        BY <4>1, <4>2, LimitAssumption
    <3>3. T <= TotalAt(ledger[k], w, req[r].clock)
      <4>1. req[r].clock.now <= Clock.now /\ (w = "daily" => req[r].clock.day = Clock.day)
        BY <2>2, <3>1 DEF Heard, Clock, Instants
      <4>2. ledger[k] \in UsageState
        BY DEF TypeOK
      <4>3. QED
        BY <3>1, <4>1, <4>2, OlderClock
    <3>4. T < Limit[w]
      <4>1. TotalAt(ledger[k], w, req[r].clock) \in Nat
        BY <3>1, TotalType DEF TypeOK
      <4>2. QED
        BY <1>3, <3>2, <3>3, <4>1, LimitAssumption
    <3>5. T' = T
      BY <1>5, <2>2
    <3>6. QED
      BY <1>1, <1>3, <3>4, <3>5, Affordable
  <2>3. CASE Publish(r) /\ k # req[r].key
    <3>1. ledger'[k] = ledger[k]
      BY <2>3 DEF Publish, TypeOK
    <3>2. E' \subseteq E
      BY <2>3, RequestExposure DEF Publish, Admit
    <3>3. T' = T /\ CostOf(E') <= CostOf(E)
      BY <1>1, <1>5, <3>1, <3>2, CostOfSubset
    <3>4. QED
      BY <1>2, <1>3, <1>4, <3>3
  <2>4. CASE Publish(r) /\ k = req[r].key
    <3>1. pc[r] \in Critical /\ req[r].billed /\ ledger'[k] = req[r].usage
      BY <2>4 DEF Publish, Critical, TypeOK, Consistent, Built
    <3>2. T' <= T + MaxCost
      BY <1>5, <2>4, <3>1, BuiltTotal
    <3>3. E' \subseteq E \ {r} /\ r \in E
      <4>1. E' \subseteq E
        BY <2>4, RequestExposure DEF Publish, Admit
      <4>2. pc'[r] = "recorded"
        BY <2>4 DEF Publish, Goto, TypeOK
      <4>3. r \notin E' /\ r \in E
        BY <2>4, <3>1, <4>2 DEF Exposed, Critical
      <4>4. QED
        BY <4>1, <4>3
    <3>4. CostOf(E') + MaxCost <= CostOf(E)
      BY <1>1, <3>3, CostOfRemoved
    <3>5. QED
      BY <1>2, <1>3, <1>4, <3>2, <3>4, CostAssumption
  <2>5. QED
    BY <1>5, <2>1, <2>2, <2>3, <2>4, RequestExposure
<1>8. QED
  BY <1>6, <1>7 DEF Within

\* Management exposes no request, unless it clears the usage it is judged by.
LEMMA ManagementExposure ==
  ASSUME TypeOK, TypeOK', ManagementStep, NEW k \in Keys, NEW w \in Windows
  PROVE  Exposed(k, w)' \subseteq Exposed(k, w) \/ ledger'[k] = NoUsage
<1>1. UNCHANGED <<now, day, pc, req>>
  BY ManagementFrame
<1>2. CASE keys'[k] = "absent" => keys[k] = "absent"
  BY <1>1, <1>2 DEF Exposed
<1>3. CASE keys'[k] = "absent" /\ keys[k] # "absent"
  <2>1. DeleteMemory(k)
    <3>1. ASSUME NEW j \in Keys, NEW status \in {"enabled", "disabled"}, UpsertMemory(j, status)
          PROVE  FALSE
      BY <1>3, <3>1 DEF UpsertMemory, TypeOK
    <3>2. ASSUME NEW j \in Keys, DeleteMemory(j)
          PROVE  j = k
      BY <1>3, <3>2 DEF DeleteMemory, TypeOK
    <3>3. QED
      BY <1>3, <3>1, <3>2 DEF ManagementStep, AdminStep, ResetSave, ResetMemory, AdminSave,
         AdminSaveFails, FlushBegin, FlushSave, FlushFails
  <2>2. QED
    BY <2>1 DEF DeleteMemory, TypeOK
<1>4. QED
  BY <1>2, <1>3

LEMMA ManagementSpending ==
  ASSUME TypeOK, TypeOK', Consistent, Spending, ManagementStep,
         NEW k \in Keys, NEW w \in Windows, Limit[w] > 0
  PROVE  Within(k, w)'
<1> DEFINE E == Exposed(k, w)
           T == TotalAt(ledger[k], w, Clock)
           D == TotalAt(diskUsage[k], w, Clock)
<1>1. E \in SUBSET Requests /\ E' \in SUBSET Requests
  BY DEF Exposed
<1>2. CostOf(E) \in Nat /\ CostOf(E') \in Nat
  BY <1>1, CostOfSubset
<1>3. T \in Nat /\ D \in Nat /\ T' \in Nat /\ D' \in Nat
  BY ClockType, TotalType DEF TypeOK, Clock, Instants
<1>4. D <= MostSpent(w) /\ T + CostOf(E) <= MostSpent(w) /\ MostSpent(w) \in Nat
  BY SpendingWithin, MostSpentType DEF Within
<1>5. Clock' = Clock /\ TotalAt(NoUsage, w, Clock) = 0
  BY ManagementFrame, ClockType, NothingSpent DEF Clock
<1>6. T' \in {T, 0} /\ D' \in {D, T, 0} /\ (ledger'[k] = NoUsage => T' = 0)
  BY <1>5, ManagementWrites
<1>7. D' <= MostSpent(w)
  BY <1>2, <1>3, <1>4, <1>6
<1>8. CASE E' \subseteq E
  <2>1. CostOf(E') <= CostOf(E)
    BY <1>1, <1>8, CostOfSubset
  <2>2. QED
    BY <1>2, <1>3, <1>4, <1>6, <1>7, <2>1 DEF Within
<1>9. CASE ledger'[k] = NoUsage
  <2>1. T' = 0 /\ 0 < Limit[w]
    BY <1>6, <1>9, LimitAssumption
  <2>2. T' + CostOf(E') <= MostSpent(w)
    BY <1>1, <2>1, Affordable
  <2>3. QED
    BY <1>7, <2>2 DEF Within
<1>10. QED
  BY <1>8, <1>9, ManagementExposure

\* As time passes a window's total stands or starts over.
LEMMA TickTotal ==
  ASSUME TypeOK, Tick, NEW u \in UsageState, Past(u), NEW w \in Windows
  PROVE  /\ TotalAt(u, w, Clock)' \in {TotalAt(u, w, Clock), 0}
         /\ w = "daily" /\ day' # day => TotalAt(u, w, Clock)' = 0
<1>1. u[w].start \in Nat /\ u[w].total \in Nat
  BY DEF UsageState, UsageWindow
<1>2. Clock = [now |-> now, day |-> day] /\ Clock' = [now |-> now + 1, day |-> day']
      /\ day' \in {day, day + 1}
  BY DEF Clock, Tick
<1>3. Elapsed(w, u[w], Clock) => Elapsed(w, u[w], Clock')
  BY <1>1, <1>2, WeekLenAssumption DEF Elapsed, Past, Windows, TypeOK
<1>4. w = "daily" /\ day' # day => Elapsed(w, u[w], Clock')
  BY <1>1, <1>2 DEF Elapsed, Past, TypeOK
<1>5. QED
  BY <1>3, <1>4 DEF TotalAt, CurrentWindow

LEMMA TickSpending ==
  ASSUME TypeOK, TypeOK', NothingAhead, Spending, Tick,
         NEW k \in Keys, NEW w \in Windows, Limit[w] > 0
  PROVE  Within(k, w)'
<1> DEFINE E == Exposed(k, w)
           T == TotalAt(ledger[k], w, Clock)
           D == TotalAt(diskUsage[k], w, Clock)
<1>1. E \in SUBSET Requests /\ E' \in SUBSET Requests
  BY DEF Exposed
<1>2. CostOf(E) \in Nat /\ CostOf(E') \in Nat
  BY <1>1, CostOfSubset
<1>3. T \in Nat /\ D \in Nat /\ T' \in Nat /\ D' \in Nat
  BY ClockType, TotalType DEF TypeOK, Clock, Instants
<1>4. D <= MostSpent(w) /\ T + CostOf(E) <= MostSpent(w) /\ MostSpent(w) \in Nat
  BY SpendingWithin, MostSpentType DEF Within
<1>5. ledger' = ledger /\ diskUsage' = diskUsage
  BY DEF Tick, Storage
<1>6. T' \in {T, 0} /\ D' \in {D, 0} /\ (w = "daily" /\ day' # day => T' = 0)
  BY <1>5, TickTotal DEF NothingAhead, TypeOK
<1>7. CASE w = "daily" /\ day' # day
  <2>1. T' = 0 /\ 0 < Limit[w]
    BY <1>6, <1>7, LimitAssumption
  <2>2. T' + CostOf(E') <= MostSpent(w)
    BY <1>1, <2>1, Affordable
  <2>3. QED
    BY <1>3, <1>4, <1>6, <2>2 DEF Within
<1>8. CASE ~(w = "daily" /\ day' # day)
  <2>1. E' \subseteq E
    BY <1>8 DEF Exposed, Tick, Storage
  <2>2. CostOf(E') <= CostOf(E)
    BY <1>1, <2>1, CostOfSubset
  <2>3. QED
    BY <1>2, <1>3, <1>4, <1>6, <2>2 DEF Within
<1>9. QED
  BY <1>7, <1>8

LEMMA RestartSpending ==
  ASSUME TypeOK, TypeOK', Spending, Restart,
         NEW k \in Keys, NEW w \in Windows, Limit[w] > 0
  PROVE  Within(k, w)'
<1>1. Clock' = Clock /\ ledger' = diskUsage /\ diskUsage' = diskUsage
  BY DEF Restart, clockVars, diskVars, Clock
<1>2. Exposed(k, w)' = {}
  BY DEF Restart, Exposed
<1>3. CostOf({}) = 0
  BY FS_EmptySet, CostAssumption DEF CostOf
<1>4. TotalAt(diskUsage[k], w, Clock) <= MostSpent(w)
  BY SpendingWithin DEF Within
<1>5. TotalAt(diskUsage[k], w, Clock) \in Nat
  BY ClockType, TotalType DEF TypeOK
<1>6. QED
  BY <1>1, <1>2, <1>3, <1>4, <1>5 DEF Within

LEMMA StepSpending ==
  ASSUME TypeOK, TypeOK', Consistent, NothingAhead, Spending, [Next]_vars
  PROVE  Spending'
<1> SUFFICES ASSUME NEW k \in Keys, NEW w \in Windows, Limit[w] > 0
             PROVE  Within(k, w)'
  BY DEF Spending, Within, CostOf
<1>1. ASSUME NEW r \in Requests, RequestStep(r)
      PROVE  Within(k, w)'
  BY <1>1, RequestSpending
<1>2. CASE ManagementStep
  BY <1>2, ManagementSpending
<1>3. CASE Tick
  BY <1>3, TickSpending
<1>4. CASE Restart
  BY <1>4, RestartSpending
<1>5. CASE UNCHANGED vars
  <2>1. Within(k, w)
    BY SpendingWithin
  <2>2. QED
    BY <1>5, <2>1 DEF vars, Within, Exposed, Clock
<1>6. QED
  BY <1>1, <1>2, <1>3, <1>4, <1>5 DEF Next, ManagementStep

LEMMA InitIInv == Init => IInv
<1> SUFFICES ASSUME Init PROVE IInv
  OBVIOUS
<1>1. TypeOK /\ Consistent
  BY InitTypeOK, InitConsistent
<1>2. NothingAhead
  BY <1>1, NoUsagePast DEF Init, NothingAhead, Idle
<1>3. ASSUME NEW k \in Keys, NEW w \in Windows, Limit[w] > 0
      PROVE  Within(k, w)
  <2>1. diskUsage[k] = NoUsage /\ ledger[k] = NoUsage
    BY DEF Init
  <2>2. TotalAt(NoUsage, w, Clock) = 0
    BY <1>1, ClockType, NothingSpent
  <2>3. Exposed(k, w) \in SUBSET Requests
    BY DEF Exposed
  <2>4. 0 + CostOf(Exposed(k, w)) <= MostSpent(w)
    BY <1>3, <2>3, Affordable, LimitAssumption
  <2>5. MostSpent(w) \in Nat
    BY <1>3, MostSpentType
  <2>6. QED
    BY <2>1, <2>2, <2>4, <2>5 DEF Within
<1>4. QED
  BY <1>1, <1>2, <1>3, SpendingWithin DEF IInv

(* The whole inductive invariant: types, the agreement of ledger and        *)
(* database, a ledger never behind its database, and the bound on spending. *)
THEOREM Invariance == Spec => []IInv
<1>1. IInv /\ [Next]_vars => IInv'
  BY StepTypeOK, StepConsistent, StepNothingAhead, StepSpending DEF IInv
<1>2. QED
  BY <1>1, InitIInv, PTL DEF Spec

\* However requests, management, the flusher, the clock and restarts interleave,
\* a window never runs over its limit by a whole request per thread.
THEOREM OverspendBound == Spec => []OverspendBounded
<1>1. IInv => OverspendBounded
  <2> SUFFICES ASSUME IInv, NEW k \in Keys, NEW w \in Windows, Limit[w] > 0
               PROVE  /\ TotalAt(diskUsage[k], w, Clock) <= MostSpent(w)
                      /\ TotalAt(ledger[k], w, Clock) <= MostSpent(w)
    BY DEF OverspendBounded
  <2>1. Within(k, w)
    BY SpendingWithin DEF IInv
  <2>2. TotalAt(ledger[k], w, Clock) \in Nat
    BY ClockType, TotalType DEF IInv, TypeOK
  <2>3. Exposed(k, w) \in SUBSET Requests
    BY DEF Exposed
  <2>4. CostOf(Exposed(k, w)) \in Nat
    BY <2>3, CostOfSubset
  <2>5. MostSpent(w) \in Nat
    BY MostSpentType
  <2>6. QED
    BY <2>1, <2>2, <2>4, <2>5 DEF Within
<1>2. QED
  BY <1>1, Invariance, PTL

--------------------------------------------------------------------------------
(* UsageStore implements DurableUsage for every value of the constants:      *)
(* each step of the store, seen on the database alone, is one step of the    *)
(* abstract durable usage or no step at all.                                 *)


\* The windows of the abstract specification are those of the store.
LEMMA SameWindows ==
  ASSUME NEW u, NEW cost, NEW t
  PROVE  Durable!AddCost(u, cost, t) = AddCost(u, cost, t)
  BY DEF Durable!AddCost, Durable!CurrentWindow, Durable!Elapsed, Durable!StartAt,
         Durable!Windows, AddCost, CurrentWindow, Elapsed, StartAt, Windows

LEMMA SameNoUsage == Durable!NoUsage = NoUsage
  BY DEF Durable!NoUsage, Durable!Windows, NoUsage, Windows

LEMMA InitRefines == Init => Durable!Init
  BY SameNoUsage DEF Init, Durable!Init

\* Memory holds what is stored of every key whenever a save may replace it.
LEMMA SavedIsStored ==
  ASSUME TypeOK, Consistent, admin.op \in {"delete", "upsert"} \/ flusher.busy
  PROVE  ledger = [k \in Keys |-> Stored(k)]
<1>1. Locking /\ Agree
  BY DEF Consistent
<1>2. admin.op # "reset" /\ \A r \in Requests : pc[r] \notin Critical
  BY <1>1, AdminAlone, FlusherAlone
<1>3. \A k \in Keys : ledger[k] = Stored(k)
  BY <1>1, <1>2 DEF Agree, Critical
<1>4. QED
  BY <1>3 DEF TypeOK

\* Only the commit of a charge changes what a request stores, and it is a
\* charge of the abstract specification.
LEMMA RequestRefines ==
  ASSUME TypeOK, Consistent, NEW r \in Requests, RequestStep(r)
  PROVE  [Durable!Next]_(Durable!vars)
<1> DEFINE k == req[r].key
<1>1. now' = now /\ day' = day
  BY RequestStorage
<1>2. CASE diskUsage' = diskUsage /\ unsaved' = unsaved
  BY <1>1, <1>2 DEF Durable!vars
<1>3. CASE CommitCharge(r)
  <2>1. pc[r] \in Critical /\ k \in Keys /\ req[r].cost \in 0..MaxCost
    BY <1>3, CostAssumption DEF CommitCharge, Critical, TypeOK, Request
  <2>2. PICK n \in 1..now, d \in 1..day :
           req[r].usage = AddCost(ledger[k], req[r].cost, [now |-> n, day |-> d])
    BY <1>3, <2>1 DEF CommitCharge, Consistent, Built, Charged
  <2>3. ledger[k] = Stored(k)
    <3>1. /\ admin.op = "none"
          /\ \A q \in Requests \ {r} : pc[q] \notin Critical
      BY <2>1, OwnerAlone DEF Consistent
    <3>2. pc[r] # "committed"
      BY <1>3 DEF CommitCharge
    <3>3. QED
      BY <2>1, <3>1, <3>2 DEF Consistent, Agree, Critical
  <2>4. Stored(k) \in {diskUsage[k]} \cup {u \in {Durable!NoUsage} : k \in unsaved}
    BY SameNoUsage DEF Stored
  <2>5. diskUsage' = [diskUsage EXCEPT ![k] =
                        Durable!AddCost(Stored(k), req[r].cost, [now |-> n, day |-> d])]
    BY <1>3, <2>2, <2>3, SameWindows DEF CommitCharge
  <2>6. unsaved' = unsaved \ {k} /\ UNCHANGED <<now, day>>
    BY <1>3 DEF CommitCharge, clockVars
  <2>7. Durable!Charge(k)
    BY <2>1, <2>4, <2>5, <2>6 DEF Durable!Charge
  <2>8. QED
    BY <2>1, <2>7 DEF Durable!Next
<1>4. QED
  BY <1>2, <1>3, RequestStorage

\* Management and the flusher only reset every key, retire a key or purge the
\* retired ones.
LEMMA ManagementRefines ==
  ASSUME TypeOK, Consistent, ManagementStep
  PROVE  [Durable!Next]_(Durable!vars)
<1> USE DEF diskVars
<1>0. now' = now /\ day' = day
  BY ManagementFrame
<1>1. CASE ResetSave
  BY <1>0, <1>1, SameNoUsage DEF ResetSave, Durable!ResetAll, Durable!Next
<1>2. ASSUME NEW k \in Keys, DeleteMemory(k)
      PROVE  Durable!Next
  BY <1>0, <1>2 DEF DeleteMemory, Durable!Retire, Durable!Next
<1>3. CASE AdminSave \/ FlushSave
  <2>1. diskUsage' = ledger /\ unsaved' = {}
    BY <1>3 DEF AdminSave, FlushSave, Consistent, Snapshots
  <2>2. ledger = [k \in Keys |-> Stored(k)]
    BY <1>3, SavedIsStored DEF AdminSave, FlushSave
  <2>3. Durable!Purge
    BY <1>0, <2>1, <2>2, SameNoUsage DEF Durable!Purge, Stored
  <2>4. QED
    BY <2>3 DEF Durable!Next
<1>4. CASE ResetMemory \/ AdminSaveFails \/ FlushBegin \/ FlushFails
  BY <1>0, <1>4 DEF ResetMemory, AdminSaveFails, FlushBegin, FlushFails, Durable!vars
<1>5. ASSUME NEW k \in Keys, NEW status \in {"enabled", "disabled"}, UpsertMemory(k, status)
      PROVE  UNCHANGED Durable!vars
  BY <1>0, <1>5 DEF UpsertMemory, Durable!vars
<1>6. QED
  BY <1>1, <1>2, <1>3, <1>4, <1>5 DEF ManagementStep, AdminStep

LEMMA StepRefines == TypeOK /\ Consistent /\ [Next]_vars => [Durable!Next]_(Durable!vars)
<1> SUFFICES ASSUME TypeOK, Consistent, [Next]_vars
             PROVE  [Durable!Next]_(Durable!vars)
  OBVIOUS
<1>1. ASSUME NEW r \in Requests, RequestStep(r)
      PROVE  [Durable!Next]_(Durable!vars)
  BY <1>1, RequestRefines
<1>2. CASE ManagementStep
  BY <1>2, ManagementRefines
<1>3. CASE Tick
  BY <1>3 DEF Tick, Storage, Durable!Tick, Durable!Next
<1>4. CASE Restart
  BY <1>4 DEF Restart, clockVars, diskVars, Durable!Reprieve, Durable!Next
<1>5. CASE UNCHANGED vars
  BY <1>5 DEF vars, Durable!vars
<1>6. QED
  BY <1>1, <1>2, <1>3, <1>4, <1>5 DEF Next, ManagementStep

\* Whatever requests, management, the flusher and restarts do, the usage table
\* of the database is a durable usage: charges land whole and once, and usage
\* goes only by a reset of all keys or the deletion of its own (usage.go 125,
\* store.go 729-760, 824-863).
THEOREM DatabaseIsDurable == Spec => DurableSpec
<1>1. TypeOK /\ Consistent /\ [Next]_vars => [Durable!Next]_(Durable!vars)
  BY StepRefines
<1>2. Spec => [](TypeOK /\ Consistent)
  BY TypeCorrect, ConsistentAlways, PTL
<1>3. QED
  BY <1>1, <1>2, InitRefines, PTL DEF Spec, DurableSpec, Durable!Spec

================================================================================
