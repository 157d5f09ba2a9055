# A verification of cpa-keyer in TLA+

`cpa-keyer` is a plugin of the CPA API proxy.  It issues API keys with a list of
models, a requests-per-minute limit, and a daily and a weekly budget in dollars;
it authenticates and polices the proxy's requests by them, charges each request
and keeps keys, subscription plans, budgets and an event history in one SQLite
database.  A web console administers it.

This directory holds TLA+ modules of the plugin's core and of the console, the TLC
configurations that check them on small instances, and proofs that TLAPS checks for
instances of any size.
Paths below are relative to `src/`.

## 1. The system

### Components, their state and their operations

| component | state | operations |
|---|---|---|
| `Store` (`internal/policy/store.go`, `store_usage_persistence.go`) | `enabled`, `keys`, `keysByHash`, `plans`, pointers to limiter, ledger and database, `historyErr`, the flusher | request path: `AuthenticateKey`, `Authenticate`, `AuthorizeModel`, `RecordUsage`, `RecordResponseCost`, `learnKeyPreview`; management: `UpsertKey`, `DeleteKey`, `RotateKey`, `ResetRPM`, `ResetAllUsage`; life cycle: `Configure`, `StartUsageFlusher`, `StopUsageFlusher`, `FlushUsage`, `Close` |
| usage ledger (`usage.go`) | per key: a daily and a weekly window (start, total, counters), and the same per model | `recordCost`, `Summary`, `OverLimit`, `resetUsage`, `resetAllUsage`, `snapshot`, `ModelUsage` |
| request limiter (`limiter.go`) | per key: `windowStart`, `count` | `Allow`, `Reset`, `Snapshot` |
| subscription plans (`store_subscription_plans.go`) | plans, and each key's `SubscriptionPlanID` | upsert with the complete set of bound keys, delete (unbinds), bind one key; `effectiveKeyLocked` overlays the plan's policy on the key |
| state database (`state_database.go`) | SQLite: `key_configs`, `subscription_plans`, `usage_state`, `usage_events`, metadata | whole-state save, usage save, one charge with its event, one event, previews, pruning, schema migration |
| usage history (`usage_history.go`) | reads `usage_events` | overview, analysis, event pages, pruning |
| legacy migration (`state_migration.go`, `cmd/cpa-keyer-state-migrate`) | files | read JSON, write and verify a temporary database, publish it by a hard link |
| configuration, costs, keys, models (`config.go`, `cost.go`, `keys.go`, `models.go`) | none | normalise, price, hash and generate, extract the model |
| application (`internal/plugin/app.go`, `viewer.go`, `types.go`) | the store | `authenticate`, `interceptRequestBefore`, `handleUsage`, the management routes (`createKey`, `patchKey`, ...), the viewer |
| entry points (`cmd/cpa-keyer`, `internal/plugin/web`) | - | C ABI, embedded console |
| console: session (`web/src/store/session.ts`, `App.tsx`, `pages/Login.tsx`, `api/client.ts`) | the session in force, the shell's `bootstrapped`, the location's hash, the panel's saved key | restore a viewer or a panel sign-in, verify, sign in by form, redirect, invalidate on 401/403 |
| console: key list (`pages/KeyList.tsx`, its dialogs) | rows, selection, marks of rows being updated, a pending confirmation, a plain key on display | load, switch, bind to a plan, batch, reset limits, RPM and usage, rotate, delete |
| console: forms (`components/KeyForm.tsx`, `ModelPicker.tsx`, `pages/KeyNew`, `KeyEdit`, `ModelPick`, `SubscriptionPlanEdit`, `store/keyDraft.ts`, `modelPrices.ts`) | fields, models, prices; a draft per form; models in history entries; two pickers in a plan's form | edit, pick models, sync prices, leave and come back, save, rotate, delete |
| console: usage pages (`pages/UsageOverview`, `RequestEvents`, `KeyUsage`, `store/usageFilterMemory.ts`) | filters in the URL and in `localStorage`, the answer on display, `loading` | arrive, choose filters, turn pages, refresh |
| console: the rest | preferences, theme, charts, translations | display |
| deployment (`nginx`, `.github`, `scripts`) | - | - |

### How they interact

The host calls `handleMethod` from as many threads as it serves requests.  A
request is authenticated, then intercepted (policy, rate limit, budget) and
forwarded; later the host reports its usage.  The three calls are independent:
nothing ties the later ones to the state the earlier ones saw.  Management calls
come from other threads, and a goroutine flushes the ledger every 15 s.

Locks are always taken in the order `updateMu` (management operations),
`persistMu` (anything that writes the database), `mu` (the maps), the ledger's
lock, the database's lock.  A charge holds `persistMu` and the ledger's lock
around its SQLite transaction: it builds the key's next usage state beside the
ledger, commits it, and only then publishes it.  `ResetAllUsage` and the plan
operations save first and change memory after; `UpsertKey`, `DeleteKey` and
`RotateKey` change memory first, and keep that change when saving fails.

### What is hard

* Concurrency: the budget check and the charge are two calls; `historyErr` is
  one variable for all requests; `patchKey` reads and later writes a whole key;
  `RecordUsage` takes database and ledger before the lock that a `Configure`
  needs to replace them; the limiter's clock is read before its lock.
* Failure: any transaction may fail, the process may die between two steps.
* Time: UTC midnight, a week counted from a charge, a wall clock set back.
* Ordering: a snapshot of the ledger that is older than a charge or a reset.

### The console

The console is one React application in the browser.  Its code runs in one thread,
but between two `await`s of a handler anything may happen: other handlers run, pages
are left and mounted again, the session is replaced, another tab writes
`localStorage`.  It talks to the plugin by HTTP calls through one client, which takes
the credentials of the session in force when a call is made, and which invalidates the
session in force when a 401 or 403 comes back.  No call is ever cancelled.

* Answers: they come in any order, after the page or the session they belong to, or
  never although the server has done its work.
* Effects: what an effect depends on decides whether a change is noticed at all.
* History: Back and Forward return to entries whose state is older than the draft.
* Shared state: a draft outlives its form, the filter memory is one for all tabs.

`PROJECT.json` lists each of these hazards at its line, with the properties that
would catch it, or with a note that says why none does.

### What makes each component correct

* Store and database: a charge is durable before the budget sees it, lands whole
  and once; only a reset or a deletion clears usage; overspending is bounded; a
  request whose charge failed is not forwarded; every charge is decided.
* Ledger: totals belong to the current window, boundaries included.
* Limiter: a denial is earned; bursts are bounded.
* Keys and plans: a rotated-out secret is dead for good; a binding names an
  existing plan or none; memory and database hold one configuration.
* Reconfiguration: no charge crosses from one database into another; `Configure`
  and `Close` end.
* Migration: there is no database, or a complete one.
* Session: an answer never signs anybody in, pages show data of the session in force,
  a viewer is verified as the key it presents, restoring comes to an end.
* Key list: at rest it shows what the server has; no control stays blocked; what was
  confirmed runs once; a plain key is the one in force and stays until it is closed.
* Forms: a form shows what its user has made of it, on whatever way it was left and
  reopened; a plan's policy is never saved as a key's own.
* Usage pages: the filters in force are those asked for, in every tab; a page at rest
  shows their answer; loading ends.

## 2. Modules

| module | what it is |
|---|---|
| `UsageWindows` | the budget windows as pure operators: `CurrentWindow`, `AddCost`, `TotalAt`, `OverLimit` |
| `UsageStore` | the store's charging: request threads, management, flusher, clock, crash |
| `DurableUsage` | abstract: what the database promises about usage |
| `RateLimiter` | the limiter under concurrent calls and an arbitrary wall clock |
| `KeyStore` | keys and subscription plans, in memory and in the database, under management operations |
| `StoreLifecycle` | `Configure`, `Close` and the flusher against charges under way |
| `LegacyMigration` | the offline migration's temporary database and its publication |
| `WebSession` | the console's session, its shell, and requests answered late |
| `KeyList` | the key list, its dialogs and the calls under way |
| `PolicyForm` | the form of a new key, a key or a plan, with drafts, pickers, history and saves |
| `UsagePages` | a usage page in several tabs: filters, their memory, loads |
| `...MC`, one for each but `UsageWindows` and `DurableUsage` | instances for TLC: limits, ids, symmetry |
| `UsageStore_proofs` | type correctness, the inductive invariant, `LiveUsageDurable`, `OverspendBounded`, and that `UsageStore` implements `DurableUsage` |
| `RateLimiter_proofs` | type correctness, the limiter's invariants, `DenialJustified` and `BurstBounded` |
| `KeyStore_proofs` | type correctness and the four safety invariants of `KeyStore` |
| `StateFile_proofs` | type correctness, the three safety invariants of `StoreLifecycle` and the four safety properties of `LegacyMigration`, the two modules about the state file |
| `WebSession_proofs` | type correctness and the three safety properties of `WebSession` |
| `KeyList_proofs` | type correctness and the five safety properties of `KeyList` |
| `PolicyForm_proofs` | type correctness and the four safety invariants of `PolicyForm` |
| `UsagePages_proofs` | type correctness and the two safety properties of `UsagePages` |

`StoreLifecycle`, `UsageStore` and `KeyStore` look at the same store from three sides and
share no variables: an operation that two of them have (`DeleteKey`, `Configure`) does in
each what that side's state shows of it.  The four console modules are apart in
the code too: pages never run at the same time in one tab.

### UsageStore and the code

`keys` and `ledger` are `s.keys` and `s.usage.entries`, `diskKeys` and
`diskUsage` the tables `key_configs` and `usage_state`; `persistMu` names the
holder of the lock.  A key here is its status (absent, disabled, enabled); an
absent ledger entry is `NoUsage`, a window that never started.  `pc` and `req`
are what the request threads are doing, `admin` is the operation that holds
`updateMu`.  `unsaved` is a history variable: keys deleted in memory
whose deletion could not be saved and whose stored usage still stands.  A flush erases that
usage, for it writes `usage_state` from the ledger; the row in `key_configs` stays, so
that after a restart the key is back, with an empty budget if a flush came first and
with its old one if not.  Nothing prevents that.  `ErasureReachesDisk` says no more than
that the flusher brings the stored usage down to the ledger's unless the restart comes first.

A step is what the code does between two points at which another thread can
interfere: `Authenticate`; `AuthorizeKnown` (to `OverLimit`'s clock read) and
`Admit`/`Deny` (its decision under the ledger's lock); `Resolve`
(`RecordUsage`'s lookup of key and price); `Prepare` (locks taken, next state
built), `CommitCharge`, `Publish`; `SetHistoryError` after the unlock;
`ReadHistoryError` in the interceptor.  `ResetSave`/`ResetMemory`,
`DeleteMemory`/`AdminSave`, `UpsertMemory`/`AdminSave` and
`FlushBegin`/`FlushSave` are the two halves of the operations on either side of
their transaction, in the code's order; each transaction may fail
(`CommitFails`, `AdminSaveFails`, `FlushFails`).  `Restart` is a crash in any
state, followed by `Configure` on what the database holds.

The three kinds of request are the three ways of charging: `tokens` (charged
when the host reports usage), `per_call` (charged by the interceptor, which then
reads the error), `query_call` (charged inside `Authenticate`, which does not).

Time is a pair of an instant and a day number; a day may last any number of
instants and an instant any share of a day.  The clock is assumed not to be set back:
`time.Now()` may be, and the budgets' windows then last longer; only `RateLimiter` follows
a clock that is.  Dollars are natural numbers up to
`MaxCost`: of `normalizePrice` only that it keeps sums exact is used.
The rate limiter is a free choice in `Deny`, so that every outcome is covered.

### RateLimiter and the code

`buckets` is `l.buckets`, where a missing bucket has window start 0, which is
also how the code reads one (`IsZero`).  `ReadClock` is `Allow` up to the lock,
`Grants` and `Denies` the critical section, `SetClock` moves the wall clock to
any instant.  `grants` and `reversals` are history: the calls allowed since the
last `Reset` of the id and how often a decision was taken on an instant before
the window's start.

### KeyStore and the code

`keys` and `plans` are `s.keys` and `s.plans`, `diskKeys` and `diskPlans` the tables
`key_configs` and `subscription_plans`.  A key is its secret (the code stores
a hash: two keys have one hash exactly if they have one secret), its preview, the
plan it is bound to, and a policy that stands for everything else a patch can set,
its secret at the same time included (`Patched`).
Of a plan only its id matters here.

Every operation holds `updateMu` until it returns, so `phase`, what its holder has
still to do, is enough to tell its two halves apart: `saving` after `CreateKey`,
`DeleteKey`, `RotateKey` and `PatchWrites`, which change memory first (`Save` or
`SaveFails` follows); `publishing` after the plan operations, which save first
(`Publish` is `replaceConfigurationState`; a transaction that fails changes nothing
and is no step); `learning` between `updateKeyPreview` and the preview's publication.

`PatchReads` takes only `mu`: `patch` is what a `patchKey` under way has read and
will write back.  `learner` is the same for a request that found its key without a
preview.  `Reconfigure` is `Configure` on the same database in a running process,
`Restart` the process's end and a new start.

History variables: `unsaved`, the keys whose last change is in memory only;
`revoked`, the secrets that a transaction removed from the database and no operator
has chosen since; `overwritten`, the keys that a patch wrote back although they had
changed since it read them.  `RevokedStaysDead` and `BindingsKept` exempt the last:
`revoked_alive` shows why the first has to, a deletion of the plan in the place of the
key's gives the same for the second; `keys` shows that nothing else has to be exempted.

Assumed of the configuration file: a preview that is there is the key's own, and a
binding names a plan the file lists (`normalizeConfig` checks neither).  Assumed of
`GenerateKey`: its secrets are new.

### StoreLifecycle and the code

`usage`, `database` and `flusher` are the pointers `s.usage`, `s.database` and
`s.flusher`.  Each successful `Configure` makes a new generation: `ledgers[g]` is the
ledger made by the `g`-th, here the number of charges it counts, and `file[g]` the
file of its database; 0 is the nil database that `Close` leaves.  `open` are the
databases whose `Close` has not been called, `disk` what each file holds.

A charge reads the database, then the ledger (`ReadDatabase`, `ReadLedger`), each
under `mu` alone, and only then takes `persistMu` (`LockCharge`).  `Charge` is commit
and publication in one step: both happen under `persistMu`, and a crash between them
is `UsageStore`'s subject.  `ChargeFails` covers a closed database among all other
reasons.

A manager is a thread in `configure` or `Shutdown`.  Both run `StopUsageFlusher`
(`TakeFlusher`, `FlusherDone`, `LockFlush`, `ManagerSaves`); one that holds
`updateMu` is in `Configure`, one that does not is in `Close`.  A failing flush ends the
first and not the second (`ManagerSaveFails`).  `Replace` opens, loads, writes back,
swaps both pointers and closes the old database, in one step since nobody else
writes while `persistMu` is held and readers under `mu` see both pointers old or both
new.  `Configure` that refuses its input before it stops the flusher changes nothing
and is no step.  `StartFlusher` comes after `Configure` has returned, without
`updateMu`.  `stopped` is a closed `stopCh`, `pc[g] = "off"` a closed `doneCh`.

`charged` is history: how many charges were committed to each file.  Assumed: no
other process writes a file while the store has it open.

`RecordResponseCost` reads ledger and database in the opposite order
(`store.go:357`, 368), with which the argument below would not go through; nothing
calls it outside the tests, so it is no action here.

### LegacyMigration and the code

`doing[r]` follows `migrateLegacyStateFile` call by call in run `r` of the tool.  `data`
is what the temporary database holds when it is read through SQLite, `main` what its
file alone holds: a transaction goes to the WAL, and only a checkpoint brings it into
the file that `os.Link` gives the destination's name.  `synced` are the files that
`syncFile` has put on disk, `dest` the destination in the file system's memory,
`durable` on disk.  The contents are told apart as the legacy state (`right`), a state
that the tables give back otherwise than it was written (`wrong`: what
`verifyLegacyState` is for), and a file that a power failure has damaged (`torn`).

Every call may fail.  `FailsLate` leads to the deferred close and removal, `Crash` to
neither.  The removal is best effort, since `removeSQLiteFiles` ignores errors: `stuck` are
the runs whose files stayed.  `PowerFails` ends all processes; names and files that were not synced may
be on disk or not.  Of SQLite's own syncs only one is used: its first transaction in a
directory makes the directory durable (`PluginCommits`).  An earlier automatic
checkpoint changes nothing here.  The plugin may create the destination, or open it,
at any moment.

A run whose last call, `syncDirectory`, fails reports a failure though the
destination is there and complete; a repeated run is then refused (`Refuse`).  The
properties allow that: nothing in the repository promises that a failed run
publishes nothing.

### WebSession and the code

`current` is `session` of `store/session.ts`.  The code compares session objects by identity
(`current === session`): `id` is that identity and `issued` the last one given out.
`location` is what the page's hash asks for, `parent` what the embedding panel's hash
does, `panelAuth` the management key the panel keeps.  `bootstrapped`, `seen` (what
`App.tsx`'s effect depended on when it ran last) and `alive` (which run of it is still
interested in its end) are the shell.  `shown` is whose data the mounted page shows.

The effect's four branches are `EffectMismatch`, `RestoreViewer`, `RestoreFromPanel` and
`RestoreNothing`.  An answer to a verification is `ViewerVerified` (`Commit`: only if the
session in force is the one it was asked for), `ManagementVerified` or
`VerificationFails`, which for a panel clears whatever session is in force.
`RequestDenied` is the interceptor, which invalidates whatever session is in force.
`Rendered` and `Orphaned` are React's part: pages are unmounted when access ends or the
mode changes, and answers to a page that is not there are not shown.  A render and its
effects are taken to be over before the next answer (`Settled`).

A late denial signs a newer session out, and so does a panel's late failure.  Both are
modelled; nothing in the repository promises that they do not happen.

### KeyList and the code

A behaviour follows one mount of the page.  `keys`, `selected`, `updating`, `resetting`,
`loading`, `error`, `plain`, `pending` and `confirming` are the page's and its dialogs' state;
`server` is what the plugin has.  A call is in `calls` from its sending to its answer: steps
of the server for each key it is about, possibly the loss of the call or its answer
(`Lose`), and one step of the page that runs the handler's code after the `await` (`Loaded`,
`RowAnswered`, `BatchAnswered`, `Rotated`, ...).  A batch is one call with a part per key, as
`Promise.allSettled` waits for all of them.  A dialog and the plain key cover the page, so
nothing under them can be clicked (`Uncovered`).

The server's steps are the plugin's handlers.  `patchKey`, which serves the switch, the
batch and the reset of limits, reads its key (`PatchReads`, `app.go:518`) and later writes all
of it back (`PatchWrites`, `app.go:554`), without a lock across, as in `KeyStore`; it and the
plan's binding then look the key up once more for their answer (`Rereads`), where a `PATCH`
whose key has gone by then answers what it wrote.  The other operations hold `updateMu`
throughout and are one step each (`ServeKey`, `ServeDelete`, `ServeReset`, `ServeList`); `Refuse`
is the 404.  A call is lost before it is served or after, and a `PATCH` also in between: its
handler then goes on as one of the `strays`.

Any call may be answered with 401 or 403 (`SessionEnds`): the client ends the session and
the shell unmounts the page with all that it shows, the plain key too.  The calls
still under way find nobody.

`raced` is history: a reload and an update, or two updates of one key, were under way
together, an answer was lost, or the page is gone.  `QuietListIsServer` exempts it, and shows
that there is no other way for the list to come to rest on something the server does
not have.  `undone` is history too: the keys whose last rotation a `PATCH` has undone that had
read the key before it, the switch of a row clicked just before the rotation, say.  The plain
key on display is dead then (the finding of `revoked_alive`, as the console meets it), and
`PlainInForce` exempts these keys by name.  A key that is deleted while a batch on it fails
stays selected without being listed; the model keeps that.

### PolicyForm and the code

A behaviour follows one form, of the `kind` chosen in `Init`.  `hist` and `at` are the
browser's history, whose entries carry the models of `ModelPick`; `form` is `KeyForm`'s
state, `draft` the one `keyDraft.ts` keeps under the form's name, `pickers` the selections of
the picking page and of the two pickers that a plan's form mounts for a narrow and a
wide window, `sync` the models a price sync was asked for, `call` the save under way.
A policy is its models with a price each, and one value for all other fields.

`Goes` is the router: moving between entries of one page keeps the form mounted,
anything else drops its state and lets its answers find nobody.  `Opens` is the mount:
draft before base, then the models of the history entry, then the effect that writes
the draft.  `Base` is `KeyEdit`'s choice of the key's own policy when a plan covers it.
`PickerLoaded` is a picker's effect, which emits its own selection when its
catalog arrives.

`action` is `KeyEdit`'s confirmation dialog: `Ask` opens it, `Confirm` sends a rotation or a
deletion, `Rotated` puts the new secret on display until `CloseSecret`, `Deleted` clears the
draft and goes to the list.  While the page is there the dialog or the secret covers
it (`Click`), though Back and Forward, the answer to a save or to a price sync get
through.  `ServerChanges` may delete the key and create its id anew, so that a draft
that a deletion left behind would show in the new key's form (`AsMeant`).  The reset of
the limiter changes nothing the form keeps and is left out.

`user` is history: `meant` is the policy as the user has made it by each touch, `fresh`
says that the form was given up or saved, `lost` names what has come between the user
and the form since it was opened: `history` (Back or Forward to an entry with older
models, or a picked list that was left before the form took it up), `sync` (prices that
arrive under the dialog that shows a new key), `picker` (a plan's other picker, whose
selection replaces the form's), `answer` (a save that answers after its form was
left, or a deletion, and clears the draft of the one opened since).  `AsMeant` exempts these four, by
name, and nothing else.  `secret` is `due` from a rotation to the click that closes its
dialog, and `lost` if the page goes meanwhile: the user leaves, or a save under way
when the rotation was asked for is answered and goes to the list, which
`SecretIsShown` exempts.  That a 401 or 403 takes the page away is followed in `KeyList`
and not here.

### UsagePages and the code

A behaviour follows one page in all `Tabs` of a browser.  `memory` is its entry in
`localStorage`, `url` the parameters of each tab's route, `effective` what
`useRememberedUsageFilters` gives the page.  A change of the route goes through `phase`, and
other tabs run between any two: `Render` computes `effective` anew, from an explicit URL as it
is and from the memory of that moment otherwise; `Effect` writes it to the memory and back
into the route, rendered again if that changed it, and starts a load if the page's query has
changed.  The hook memoizes on the search alone (`Search`): an arrival at the search that is
in force already (a link without filters while the defaults are, or from the usage of one
key to that of another) neither reads nor writes the memory, and of `KeyUsage` only the effect
runs again, for the path (`Routes`).  `UpdateFilters` writes the memory first and changes
the route; the memory is read for it when it is rendered.  React is assumed to render and
to run effects before the same tab's next event.  `loads` are the loads under way, which any
order of answers ends.

`asked` and `last` are history: what each tab's user has asked for, and the filters last in
force anywhere.  `crossed` are the tabs that had a route without filters pending when another
tab wrote the memory, between `updateFilters` or an arrival and the rendering: they get that
tab's filters, in the place of a choice of all defaults too, and `FiltersAsAsked` exempts
them by name.  `stale` are the tabs whose answer on display came after a newer one's:
the pages do not compare, so an overtaken load is shown under the newer filters.
`QuietShowsAsked` exempts it by name; nothing in the repository says that it cannot be.

## 3. What TLC checks

| run | instance | shows |
|---|---|---|
| `usage` | 1 key, 2 threads, all kinds, both limits, 2 instants with a week of one instant, 1.3 M states | `TypeOK`, `LiveUsageDurable`, `OverspendBounded`, refinement of `DurableUsage` |
| `usage_live` | 1 key, 2 threads, fairness, 73 k states | `ChargesDecided`, `ErasureReachesDisk` |
| `limiter` | 1 id, 2 threads, limits 0, 1, 2, a minute of 2 instants, 3 wall instants, 7 grants, 0.2 M states | `TypeOK`, `BurstBounded`, `DenialJustified` |
| `keys` | 2 ids, 2 secrets, 1 plan, 1 policy, 1 patch, 1 learner, 1.4 M states | `TypeOK`, `MemorySaved`, `PreviewHonest`, `RevokedStaysDead`, `BindingsKept` |
| `lifecycle` | 2 files, 1 request, 2 managers, 2 flushers, 3 generations, 1 charge, fairness, 0.35 M states | `TypeOK`, `LedgerIsDisk`, `ChargesKept`, `NoStrayFlusher`, `OperationsEnd` |
| `migration` | 3 runs and the plugin, 0.29 M states | `VisibleComplete`, `SuccessDurable`, `NoLitter`, `NeverReplaced` |
| `web_session` | 2 keys, 1 of them a panel's, 1 secret, 2 moves, 1 page request, 1 change, fairness, 1.5 M states | `ShownInForce`, `VerifiedAsItself`, `AnswersSignNobodyIn`, `RestoringEnds` |
| `key_list` | 2 ids, 1 plan, 3 events, symmetry, 0.9 M states | `QuietListIsServer`, `BlockedByCalls`, `ConfirmedRunsAlone`, `PlainInForce`, `PlainKept` |
| `forms` | 2 models, 1 priced, 6 clicks, 4 history entries, 2.3 M states | `TypeOK`, `AsMeant`, `SecretIsShown`, `PlanNotWrittenBack`, `TickedIsListed` |
| `usage_pages` | 2 tabs, 1 key, 3 moves, fairness, 1.0 M states | `FiltersAsAsked`, `QuietShowsAsked`, `LoadingEnds` |
| `revoked_alive` | 1 id, expected violation | `RevokedInvalid` |
| `per_call_gate` | expected violation | `FailedChargeNotForwarded` |

The migration, the session, the key list and the usage pages have their type
invariant proved and not run.

The bounds: two threads are enough for one to overtake the other at any step;
one key is enough except for whole-table saves, where the proof of the refinement
stands for any number; limits of 1 and 2 with costs 0 and 1 reach both "equal to the limit" and
"over it"; two instants with `day' \in {day, day + 1}` give a charge in the
check's day, in the next day, and in the next week.  Days within one week are left to
the proofs, which hold for a week of any length.  `MaxNow`, `MaxWall` and
`MaxGrants` only stop the counters: nothing else depends on them, and the proofs
do without.

`per_call_gate` is a disagreement of code and comment.  `app.go:162` says of the
interceptor that it ensures the per-call charge has been committed before the
request is forwarded; but it reads the store-wide `historyErr` after
`RecordUsage` returned (`app.go:185`).  Thread A's charge fails and sets the
error; thread B's succeeds and clears it; A then reads no error and forwards an
uncharged request.

In `revoked_alive` `patchKey` reads the whole key
(`app.go:518`) and hands it back to `UpsertKey` (`app.go:554`), which does not look
whether the key has changed.  A deletion or a rotation that completes in between is
undone, although the console promises that after a rotation "the old key becomes
invalid immediately" (`web/src/i18n/locales/en.json:64`) and that a deletion cannot be
undone (line 65).  The shortest trace deletes the key; a rotation in its place gives the
same, and the deletion of the key's plan leaves a binding to a plan that is not there.

For the keys, two secrets give an old and a new one, and two ids a shared secret
(`Found` picks the first id).  A policy is only carried along, so one stands for all,
and a second patch, which does no more to the first than a management operation, is
left to the proofs.  The instance is finite without a bound.

For the life cycle, two files and three generations let `Configure` leave a file and
come back to it, with a charge read before the first and locked after the second; one
charge is enough to be lost or to cross over, since two meet only at `persistMu`; two managers let a `Close` run between the two halves of a `Configure`, and two
flushers are as many as two managers can have started and not yet waited for.
`MaxGen` and `MaxCharges` bound the counters; a `Configure` beyond `MaxGen` can only fail.

Of three migration runs two can race and the third come later; the model is finite
without a bound.

Fairness of `lifecycle`: a charge or a flush that holds `persistMu` and a manager
inside `Configure` or `Close` go on (weak); a manager that waits for `persistMu` gets
it, and so does a flusher that is being stopped; its `select`, which picks at random
between a tick and the closed `stopCh`, takes the latter in the end (strong).  The clock of
the ticker, new charges and new managers are not assumed.

Fairness of `usage_live`: a thread inside an operation goes on (weak
fairness); a thread waiting for `persistMu` gets it if it is free again and
again (strong: Go's mutex hands itself over to a waiter that starved for 1 ms);
the flusher's ticker goes on and its saves do not fail for ever (strong).
Neither new requests, nor management operations, nor restarts, nor successful
commits of a charge are assumed.

In the console's models users may stop at any time and their clicks or moves are
bounded, so those runs allow deadlock.  Two keys or two tabs are one for what is in force and one
for what comes late; every bound counts what the user does or, in the key list, what is
lost, never what is served or answered.  Of the key list only events that send something or
lose something are counted (`MaxEvents`): beside the first load, three let a switch, a
rotation and a reload, or a batch, a deletion and a lost answer, cross in every order, the
loads that answers start and all other clicks not counted.  In the usage pages three moves
are an arrival in each tab and one more while the other is between change and effect.  For the forms, six clicks with four history
entries open a form, change it, leave it, come back by Back or a link, change it
again and save; a model whose price is known and one whose price is not are all that
the sync tells apart.  For the session, two moves are a visit, a sign-in or a reload
while another's verification is under way, and one page request outlives the
session it was sent with; one change of what the server accepts turns its answer.

Fairness in the console: React runs its effects and redirects, and a call is answered or
fails in the end (weak, in `web_session` for all calls together, which are finitely
many; in `usage_pages` for each tab).  That a user does anything is never assumed, nor
that a call succeeds.

## 4. What is proved

For any numbers of keys and threads, any costs, limits and length of the week:

* `TypeCorrect`: `Spec => []TypeOK`.
* `Invariance`: the inductive invariant `IInv` of `UsageStore_proofs`.  It says who
  may be where while whom holds `persistMu` (at most one thread is between
  `Prepare` and `Publish`, then the lock is its own), that a snapshot under way
  is the ledger of this moment, that a prepared charge is `AddCost` of the ledger at an
  instant not in the future, that memory and disk agree up to `unsaved` and to the
  charge between commit and publication, that no window starts in the future, and,
  for the budget, that a window's total plus `MaxCost` for each thread that may still
  charge without another check (`Exposed`) is at most `MostSpent`.
  That last part is why `OverspendBounded` alone is not inductive: a charge may
  raise the total only because it uses up one thread's exposure.
* `LedgerDurable`: `Spec => []LiveUsageDurable`.
* `OverspendBound`: `Spec => []OverspendBounded`: less than one request per thread
  above the limit.
* `DatabaseIsDurable`: `Spec => DurableSpec`, by the mapping `usage <- diskUsage`,
  `retired <- unsaved`; every action is a charge, a reset, a retirement, a purge, a
  reprieve, a tick or a stutter of the abstract database.
* `LimiterTyped`: `Spec => []TypeOK` of `RateLimiter`.
* `CountsOnlyGrants`: a bucket's count is at most the number of calls allowed in its
  window; the invariant also bounds their instants.
* `DenialsAreJustified`: `Spec => DenialJustified`, from it.
* `BurstsAreBounded`: `Spec => []BurstBounded`, from `PacedInv`.  Between two reversals the
  windows of a bucket follow each other a minute or more apart, and each was opened by
  a grant on its first instant.  So a minute meets at most two of them; if it meets two, the
  first was opened before it, by a grant that does not count: one less than two windows'
  worth.  A reversal starts such a series anew, hence the factor.

For any sets of ids, secrets, plans, policies, patches and learners:

* `KeysTyped`: `Spec => []TypeOK` of `KeyStore`.
* `PreviewsHonest`, from `PreviewInv`, which adds that what a patch under way has
  read is honest too.
* `BindingsHold` and `RevokedDead`: `BindingsKept` and `RevokedStaysDead` are inductive
  beside `TypeOK`.  For the latter, a transaction revokes only secrets that it does
  not write, a rotation brings a fresh one, and a patch either writes what is there
  or marks the key.
* `ConfigurationSaved`, from `SavedInv`: nothing is unsaved while a plan operation
  publishes, and while a preview is being learnt, by one request, the database
  holds memory with that one preview filled in.

For any sets of files, threads and flushers, any number of generations and charges:

* `LifecycleTyped`: `Spec => []TypeOK` of `StoreLifecycle`.
* `ChargesStayHome` and `NoChargeLost`: `LedgerIsDisk` and `ChargesKept`, from
  `HomeInv`.  The argument is one of order: only the database of the last
  generation may be open, and a charge reads the database before the ledger, so the
  ledger it holds is at least as new as its database.  If that database is still
  open at the charge, both are the current ones (`OpenIsCurrent`); if not, the
  transaction fails.  Neither invariant is inductive without what charges have read.
* `FlushersAtHand`: `NoStrayFlusher` is inductive beside `TypeOK`.

For any number of migration runs:

* `MigrationTyped`: `MigrationSpec => []MigrationTypeOK` of `LegacyMigration`.
* `MigratedWhole`, `SuccessLasts` and `NeverOverwritten`, from `DestInv`: how far a
  run's file is by what the run is doing (`Progress`), that the destination's file
  is past all of its steps, and that the name on disk is the one in memory or none.
* `TempRemoved`, from `TempInv`: but for files that could not be removed, only a run at
  work, cleaning up, or dead has any.

For any sets of keys, secrets and tabs, any number of moves, clicks, requests and
changes:

* `SessionTyped`: `Spec => []TypeOK` of `WebSession`; `Attested`, `NothingForeignShown` and
  `NobodySignedIn`: `VerifiedAsItself`, `ShownInForce` and `AnswersSignNobodyIn`.  The invariant
  adds what key a session of each mode presents (`Keyed`), that identities are given out once and
  a verification under way asks for the key that the session of its identity
  presents, should that still be in force (`Identified`), and that neither the page
  nor an answer it will still take is of other credentials (`Fresh`).
* `ListTyped`, `NothingStuck` and `RunsAlone`: `TypeOK`, `BlockedByCalls` and
  `ConfirmedRunsAlone` of `KeyList` are inductive together: that a confirmed call is
  the only one of its kind is why its answer may close the dialog.
* `ShownKeyWorks` and `ShownUntilClosed`: `PlainInForce` and `PlainKept`, from `PlainInv`,
  which adds that a plain key is shown only when no dialog is open, so that no rotation
  can be under way, and that a rotation that has been served carries the secret the
  server has unless a `PATCH` has undone it.  Only the user and the end of the session take
  the key off display.
* `ListComesToRest`: `QuietListIsServer`, from `RestInv`, which says what every call
  under way is going to change.  Unless the list is being read, it differs from what
  the server keeps only in keys that a call has changed and not yet told the page
  (`Explained`, `Changed`); the calls of a page that has not raced never meet on a key
  (`NoneMeet`), so what one answer tells is not overtaken by another; keys that the
  server no longer knows are those a call of deletion is about.  With no call left
  nothing can differ.
* `FormTyped`: `Spec => []TypeOK` of `PolicyForm`, from `Basic`, which adds where the answers that
  the form waits for may find it (`Placed`) and which entries of the history bring
  models (`Brought`).  The other four are proved beside it:
* `FormIsAsMeant`: `AsMeant`, from `Meant`.  While the form is open, it and its draft are what
  the user means.  While it is away, the draft has the fields, and the models are in
  the history's entry if they were just picked and in the draft if not (`KeptAway`); a form
  that was given up has left neither (`CleanStart`).  Each way to leave and to come back
  carries the one into the other (`Carried`), and each edit touches the same models
  in the form and in the user's mind (`StillMeant`).
* `OwnStaysOwn`: `PlanNotWrittenBack`, from `NoPlans`: no form, draft or save under way
  holds what the plan says.
* `SecretStaysShown` and `TickedStaysListed`: `SecretIsShown` and `TickedIsListed` are inductive
  beside `Basic`.
* `PagesTyped`: `Spec => []TypeOK` of `UsagePages`; `FiltersHold`: `FiltersAsAsked`, from
  `HoldInv`: what was last in force is what the memory means, and at each phase the route,
  what is in force and the memory still say what a tab that was not crossed asked for
  (`Holds`).
* `QuietShows`: `QuietShowsAsked`, from `ShowInv`: a page at rest has loaded for the
  query in force, and a tab either waits for its newest load,
  which asks for its query, or has been served and all loads left are older.

Assumptions are the named `ASSUME`s of the modules: types of the constants, finite
sets of threads and limits, a week, a minute and a cost of at least one, and a
`None` that is no id, secret, plan or key, nor a policy, its models or their prices;
a history of at least one entry.

Every invariant and every action property of the runs is proved.  Only model-checked
are the liveness properties, which are beyond the prover: `ChargesDecided`,
`ErasureReachesDisk`, `OperationsEnd`, `RestoringEnds` and `LoadingEnds`.

## 5. What is not modelled, and the plan

Done: `UsageStore` with `UsageWindows` and `DurableUsage`, `RateLimiter`, `KeyStore`,
`StoreLifecycle`, `LegacyMigration`, and of the console `WebSession`, `KeyList`, `PolicyForm`
and `UsagePages`.  What these leave open, in the order of its worth:

1. Keys and plans: the effective policy a plan gives its keys and its expiry; the
   fields that two patches of one plan, or two consoles that save it whole, lose; an
   abstract registry that the configuration in the database implements.
2. The state database: the schema migration, interrupted and resumed or run by two
   processes; pruning; a crash during `Configure` and the first start with seeding.
3. Pure algorithms: the per-model windows, the cost breakdown, normalisation, what
   `prepareLegacyState` makes of keys, events and event ids.
4. The console: the plans' list and the bindings on a plan's page, which repeat the key
   list's; the reset of a limiter from the page of one key.

Hazards that are modelled but without a promise to check them against are named
above with their models: a late denial that signs a newer session out, an overtaken
load, the four ways in which a form loses what was typed.  Three more are not modelled:
React taking two answers between a change of state and its render; `RecordResponseCost`,
which takes ledger and database in the order opposite to `RecordUsage` (`store.go:357`) but
has no caller; and an expiry that is cut to minutes when a plan is shown
(`SubscriptionPlanEdit.tsx:39`).  A `Configure` that fails after it has stopped the
flusher leaves the store without one (`store.go:85`, `ManagerSaveFails`): charges are durable
without it, and nothing says that one keeps running.

Left out for good: SQL text and the reports' aggregation (pure reads), JSON and HTTP
shaping, string handling of model names and headers, the C ABI's memory
ownership, the console's charts, rendering, themes and translations, deployment files.
