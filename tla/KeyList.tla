-------------------------------- MODULE KeyList --------------------------------
(***************************************************************************)
(* The key list of the console: KeyList.tsx, its dialogs and the calls of  *)
(* api/keys.ts and api/subscriptionPlans.ts that it makes.                 *)
(*                                                                         *)
(* A behaviour follows one mount of the page, which ends with the session: *)
(* a call may be answered with 401 or 403.  Calls under way are served and *)
(* answered in any order, a PATCH of a key in two steps, for its handler   *)
(* reads the key and later writes all of it back; a call or its answer may *)
(* be lost, and its handler runs on.  The page's code between two awaits   *)
(* is one step.                                                            *)
(***************************************************************************)
EXTENDS Naturals, SequencesExt

CONSTANTS
    Ids,            \* key ids
    NoId,           \* no key
    Plans,          \* subscription plans a key can be given
    NoPlan,         \* ""
    MaxEvents       \* bound: events that send something, and calls lost

ASSUME NamesAssumption == NoId \notin Ids /\ NoPlan \notin Plans
ASSUME BoundsAssumption == MaxEvents \in Nat

VARIABLES
    server,         \* the keys the server has
    issued,         \* how many secrets it has issued to them
    strays,         \* PATCH requests it works on whose calls are lost
    mounted,        \* the page is there
    keys,           \* state keys: the rows listed
    selected,       \* selectedIDs
    updating,       \* updatingIDs
    resetting,      \* resettingUsage
    loading, error,
    plain,          \* the plain key on display, as the row it belongs to
    pending,        \* pendingAction: what the dialog asks to confirm
    confirming,
    calls,          \* the calls under way
    raced,          \* history: a reload met an update, an answer was lost, or the page is gone
    undone,         \* history: keys whose last rotation a PATCH has undone
    events

vars == <<server, issued, strays, mounted, keys, selected, updating, resetting, loading, error,
          plain, pending, confirming, calls, raced, undone, events>>

\* What the server has, and of the page what no click changes.
base == <<server, issued, strays, undone, mounted>>

dialog == <<pending, confirming>>

--------------------------------------------------------------------------------
(* Rows and calls.                                                           *)

\* What a listed key tells: whether it is enabled, bound to a plan, limited,
\* has spent anything, and which secret its preview belongs to.
Rows == [enabled : BOOLEAN, plan : Plans \cup {NoPlan}, limited : BOOLEAN, used : BOOLEAN, secret : Nat]

NewRow == [enabled |-> TRUE, plan |-> NoPlan, limited |-> TRUE, used |-> TRUE, secret |-> 1]

NoRows == [i \in {} |-> NewRow]

With(rows, i, row) == [j \in DOMAIN rows \cup {i} |-> IF j = i THEN row ELSE rows[j]]

Without(rows, i) == Restrict(rows, DOMAIN rows \ {i})

Updates == {"setEnabled", "setPlan", "resetLimits", "batch"}

Ops == Updates \cup {"load", "reload", "resetRPM", "rotate", "delete", "resetUsage"}

\* Those that patchKey serves.
Patching == {"setEnabled", "resetLimits", "batch"}

\* A call, with the keys read for it, and the parts of it that have been
\* served and those that failed.
Call(op, ids, enabled, plan) ==
    [op |-> op, ids |-> ids, enabled |-> enabled, plan |-> plan,
     read |-> NoRows, done |-> {}, failed |-> {}, rows |-> NoRows]

\* load reads the list, and again at the end of a reset ("reload").
Load == Call("load", {NoId}, FALSE, NoPlan)

Reload == Call("reload", {NoId}, FALSE, NoPlan)

Loads(c) == c.op \in {"load", "reload"}

Writes(c) == c.op \in Updates \cup {"rotate", "delete", "resetUsage"}

\* Calls made by the dialog, which waits for them.
Confirmables == {"rotate", "delete", "resetLimits", "resetUsage", "reload"}

Meet(c, d) ==
    \/ Loads(c) /\ Writes(d)
    \/ Writes(c) /\ Loads(d)
    \/ Writes(c) /\ Writes(d) /\ (c.ids \cap d.ids # {} \/ "resetUsage" \in {c.op, d.op})

Quiet == calls = <<>> /\ strays = <<>>

\* A reload begun with nothing under way tells the truth again.
RacedBy(c, cs) ==
    \/ \E n \in DOMAIN cs : Meet(c, cs[n])
    \/ raced /\ ~(Loads(c) /\ cs = <<>> /\ strays = <<>>)

Sends(c) ==
    /\ calls' = Append(calls, c)
    /\ raced' = RacedBy(c, calls)

\* Call n is over and c is made at once.
SendsAfter(n, c) ==
    LET rest == RemoveAt(calls, n)
    IN  calls' = Append(rest, c) /\ raced' = RacedBy(c, rest)

Ends(n) == calls' = RemoveAt(calls, n)

--------------------------------------------------------------------------------
(* The server.                                                               *)

Updated(c, row) ==
    CASE c.op \in {"setEnabled", "batch"} -> [row EXCEPT !.enabled = c.enabled]
      [] c.op = "setPlan" -> [row EXCEPT !.plan = c.plan]
      [] c.op = "resetLimits" -> [row EXCEPT !.limited = FALSE]
      [] c.op = "rotate" -> [row EXCEPT !.secret = issued + 1]
      [] OTHER -> row

Unanswered(c) == c.ids \ (c.done \cup c.failed)

page == <<keys, selected, updating, resetting, loading, error, plain, dialog, mounted>>

Counted == events < MaxEvents /\ events' = events + 1

Served(c, i, rows) ==
    [c EXCEPT !.done = @ \cup {i}, !.rows = rows, !.read = Without(@, i)]

Failed(c, i) ==
    [c EXCEPT !.failed = @ \cup {i}, !.done = @ \ {i}, !.rows = Without(@, i), !.read = Without(@, i)]

Serves(n, i, rows) == calls' = [calls EXCEPT ![n] = Served(@, i, rows)]

\* Other calls about one key: setPlan, resetRPM and rotate.
ServeKey(n, i) ==
    /\ i \in Unanswered(calls[n]) \cap DOMAIN server
    /\ calls[n].op \notin Patching \cup {"delete"}
    /\ LET row == Updated(calls[n], server[i])
       IN  /\ server' = [server EXCEPT ![i] = row]
           /\ Serves(n, i, With(calls[n].rows, i, row))
    /\ IF calls[n].op = "rotate" THEN issued' = issued + 1 /\ undone' = undone \ {i}
       ELSE UNCHANGED <<issued, undone>>
    /\ UNCHANGED <<page, events, strays, raced>>

\* The counter of a key that is gone is reset all the same.
ServeRPM(n, i) ==
    /\ i \in (Unanswered(calls[n]) \cap Ids) \ DOMAIN server
    /\ calls[n].op = "resetRPM"
    /\ Serves(n, i, NoRows)
    /\ UNCHANGED <<page, events, server, issued, strays, raced, undone>>

\* patchKey reads the key, also for each call of the batch.
PatchReads(n, i) ==
    /\ i \in (Unanswered(calls[n]) \ DOMAIN calls[n].read) \cap DOMAIN server
    /\ calls[n].op \in Patching
    /\ calls' = [calls EXCEPT ![n].read = With(@, i, server[i])]
    /\ UNCHANGED <<page, events, server, issued, strays, raced, undone>>

\* All that was read, with the change; what the key has spent is kept apart.
Written(c, i) ==
    [Updated(c, c.read[i]) EXCEPT !.used = i \in DOMAIN server /\ server[i].used]

\* UpsertKey puts the key back, whatever has become of it.
WritesBack(c, i) ==
    /\ server' = With(server, i, Written(c, i))
    /\ undone' = IF i \in DOMAIN server /\ server[i].secret = c.read[i].secret THEN undone
                 ELSE undone \cup {i}

PatchWrites(n, i) ==
    /\ i \in DOMAIN calls[n].read
    /\ WritesBack(calls[n], i)
    /\ Serves(n, i, With(calls[n].rows, i, Written(calls[n], i)))
    /\ UNCHANGED <<page, events, issued, strays, raced>>

StrayWrites(m) ==
    /\ \E i \in DOMAIN strays[m].read : WritesBack(strays[m], i)
    /\ strays' = RemoveAt(strays, m)
    /\ UNCHANGED <<page, events, issued, calls, raced>>

\* The handlers of updates look the key up again: what they answer is the key
\* as it is by then.
Rereads(n, i) ==
    /\ i \in calls[n].done \cap DOMAIN server
    /\ calls[n].op \in Updates
    /\ Serves(n, i, With(calls[n].rows, i, server[i]))
    /\ UNCHANGED <<page, events, server, issued, strays, raced, undone>>

ServeDelete(n, i) ==
    /\ i \in Unanswered(calls[n]) \cap DOMAIN server
    /\ calls[n].op = "delete"
    /\ server' = Without(server, i)
    /\ Serves(n, i, NoRows)
    /\ UNCHANGED <<page, events, issued, strays, raced, undone>>

ServeReset(n) ==
    /\ NoId \in Unanswered(calls[n]) /\ calls[n].op = "resetUsage"
    /\ server' = [i \in DOMAIN server |-> [server[i] EXCEPT !.used = FALSE]]
    /\ Serves(n, NoId, NoRows)
    /\ UNCHANGED <<page, events, issued, strays, raced, undone>>

ServeList(n) ==
    /\ NoId \in Unanswered(calls[n]) /\ Loads(calls[n])
    /\ Serves(n, NoId, server)
    /\ UNCHANGED <<page, events, server, issued, strays, raced, undone>>

\* There is no such key: when the handler looks for it, or, for setPlan, any
\* more when it answers.
Refuse(n, i) ==
    /\ i \in Ids \ DOMAIN server
    /\ \/ i \in Unanswered(calls[n]) \ DOMAIN calls[n].read /\ calls[n].op # "resetRPM"
       \/ i \in calls[n].done /\ calls[n].op = "setPlan"
    /\ calls' = [calls EXCEPT ![n] = Failed(@, i)]
    /\ UNCHANGED <<page, events, server, issued, strays, raced, undone>>

\* The part of c that is about i alone, without anybody who waits for it.
Part(c, i) == [Call(c.op, {i}, c.enabled, c.plan) EXCEPT !.read = With(NoRows, i, c.read[i])]

\* The call or its answer is lost: before the server has begun, after it is
\* done, or, with a PATCH, in between.
Lose(n, i) ==
    /\ Counted
    /\ i \in calls[n].ids \ calls[n].failed
    /\ calls' = [calls EXCEPT ![n] = Failed(@, i)]
    /\ strays' = IF i \in DOMAIN calls[n].read THEN Append(strays, Part(calls[n], i)) ELSE strays
    /\ raced' = (raced \/ Loads(calls[n]) \/ Writes(calls[n]))
    /\ UNCHANGED <<page, server, issued, undone>>

Server(n) ==
    \/ ServeReset(n) \/ ServeList(n)
    \/ \E i \in Ids : \/ ServeKey(n, i) \/ ServeRPM(n, i) \/ ServeDelete(n, i) \/ Refuse(n, i)
                       \/ PatchReads(n, i) \/ PatchWrites(n, i) \/ Rereads(n, i)
    \/ \E i \in calls[n].ids : Lose(n, i)

--------------------------------------------------------------------------------
(* Clicks.  A dialog or the plain key covers the page while it is open.      *)

Busy == updating # {} \/ resetting

\* Mutant of Uncovered: the plain key leaves the page within reach.
UncoveredByDialog == pending.type = "none"

Uncovered == pending.type = "none" /\ plain = NoRows

\* The table and the bulk bar are not there while the list is loading.
Listed(i) == Uncovered /\ ~loading /\ i \in DOMAIN keys

NothingPending == [type |-> "none", id |-> NoId]

Starts(c) == Sends(c) /\ loading' = TRUE /\ error' = FALSE

Refresh ==
    /\ Counted
    /\ Uncovered /\ ~loading /\ ~Busy
    /\ Starts(Load)
    /\ UNCHANGED <<base, keys, selected, updating, resetting, plain, dialog>>

ToggleSelected(i) ==
    /\ Listed(i)
    /\ selected' = IF i \in selected THEN selected \ {i} ELSE selected \cup {i}
    /\ UNCHANGED <<base, keys, updating, resetting, loading, error, plain, dialog, calls, raced, events>>

\* The check mark of the header compares the numbers only.
AllSelected == Cardinality(selected) = Cardinality(DOMAIN keys)

ToggleAll ==
    /\ \E i \in Ids : Listed(i)
    /\ selected' = IF AllSelected THEN {} ELSE DOMAIN keys
    /\ UNCHANGED <<base, keys, updating, resetting, loading, error, plain, dialog, calls, raced, events>>

\* The switch and the plan menu of a row, and the buttons of the bulk bar.
Update(c) ==
    /\ Counted
    /\ error' = FALSE
    /\ updating' = updating \cup c.ids
    /\ Sends(c)
    /\ UNCHANGED <<base, keys, selected, resetting, loading, plain>>

\* The controls of a row that are disabled while it is being updated.
RowFree(i) == Listed(i) /\ i \notin updating

SetEnabled(i) ==
    /\ RowFree(i)
    /\ Update(Call("setEnabled", {i}, ~keys[i].enabled, NoPlan))
    /\ UNCHANGED dialog

SetPlan(i, p) ==
    /\ RowFree(i)
    /\ p # keys[i].plan
    /\ Update(Call("setPlan", {i}, FALSE, p))
    /\ UNCHANGED dialog

BatchSetEnabled(enabled) ==
    /\ ~Busy
    /\ \E i \in selected : Listed(i)
    /\ Update(Call("batch", selected \cap DOMAIN keys, enabled, NoPlan))
    /\ UNCHANGED dialog

ResetRPM(i) ==
    /\ Counted
    /\ Listed(i)
    /\ Sends(Call("resetRPM", {i}, FALSE, NoPlan))
    /\ UNCHANGED <<base, keys, selected, updating, resetting, loading, error, plain, dialog>>

Ask(type, i) ==
    /\ CASE type = "resetUsage" -> Uncovered /\ ~loading /\ ~Busy /\ keys # NoRows /\ i = NoId
         [] type = "resetLimits" -> Listed(i) /\ keys[i].plan = NoPlan
         [] OTHER -> Listed(i)
    /\ pending' = [type |-> type, id |-> i]
    /\ UNCHANGED <<base, keys, selected, updating, resetting, loading, error, plain, confirming, calls, raced, events>>

DialogBusy == confirming

\* The button, Escape and the overlay cancel unless the dialog is busy.
Cancel ==
    /\ pending.type # "none" /\ ~DialogBusy
    /\ pending' = NothingPending
    /\ UNCHANGED <<base, keys, selected, updating, resetting, loading, error, plain, confirming, calls, raced, events>>

\* Mutant of Confirmed: the dialog's button works while it is busy.
ConfirmedAgain == pending.type # "none" /\ confirming' = TRUE /\ UNCHANGED pending

Confirmed == pending.type # "none" /\ ~confirming /\ confirming' = TRUE /\ UNCHANGED pending

ConfirmKey ==
    /\ Counted
    /\ pending.type \in {"rotate", "delete"}
    /\ Confirmed
    /\ Sends(Call(pending.type, {pending.id}, FALSE, NoPlan))
    /\ UNCHANGED <<base, keys, selected, updating, resetting, loading, error, plain>>

ConfirmLimits ==
    /\ pending.type = "resetLimits"
    /\ Confirmed
    /\ Update(Call("resetLimits", {pending.id}, FALSE, NoPlan))

ConfirmUsage ==
    /\ Counted
    /\ pending.type = "resetUsage"
    /\ Confirmed
    /\ resetting' = TRUE
    /\ error' = FALSE
    /\ Sends(Call("resetUsage", {NoId}, FALSE, NoPlan))
    /\ UNCHANGED <<base, keys, selected, updating, loading, plain>>

\* The only copy of the plain key goes with the dialog that shows it.
ClosePlain ==
    /\ plain # NoRows
    /\ plain' = NoRows
    /\ UNCHANGED <<base, keys, selected, updating, resetting, loading, error, dialog, calls, raced, events>>

User ==
  /\ mounted
  /\ \/ Refresh \/ ToggleAll \/ Cancel \/ ConfirmKey \/ ConfirmLimits \/ ConfirmUsage \/ ClosePlain
     \/ \E i \in Ids : ToggleSelected(i) \/ SetEnabled(i) \/ ResetRPM(i)
     \/ \E i \in Ids, p \in Plans \cup {NoPlan} : SetPlan(i, p)
     \/ \E enabled \in BOOLEAN : BatchSetEnabled(enabled)
     \/ \E type \in {"rotate", "delete", "resetLimits", "resetUsage"}, i \in Ids \cup {NoId} : Ask(type, i)

--------------------------------------------------------------------------------
(* Answers.                                                                  *)

Answered(n, op) == calls[n].op = op /\ Unanswered(calls[n]) = {}

Succeeded(n, op) == Answered(n, op) /\ calls[n].failed = {}

Fails(n, op) == Answered(n, op) /\ calls[n].failed # {}

\* rotate, remove and resetUsage catch their errors: the dialog closes.
DialogCloses == pending' = NothingPending /\ confirming' = FALSE

\* The selection keeps the ids that are still listed.
ListTaken(n) ==
    /\ keys' = calls[n].rows
    /\ selected' = selected \cap DOMAIN calls[n].rows

ListFails == error' = TRUE /\ UNCHANGED <<keys, selected>>

\* Mutant of Loaded: a reload clears the plain key too.
LoadedAfresh(n) ==
    /\ Answered(n, "load")
    /\ loading' = FALSE
    /\ \/ Succeeded(n, "load") /\ ListTaken(n) /\ UNCHANGED error
       \/ Fails(n, "load") /\ ListFails
    /\ plain' = NoRows
    /\ Ends(n)
    /\ UNCHANGED <<base, updating, resetting, dialog, raced, events>>

Loaded(n) ==
    /\ Answered(n, "load")
    /\ loading' = FALSE
    /\ \/ Succeeded(n, "load") /\ ListTaken(n) /\ UNCHANGED error
       \/ Fails(n, "load") /\ ListFails
    /\ Ends(n)
    /\ UNCHANGED <<base, updating, resetting, plain, dialog, raced, events>>

Reloaded(n) ==
    /\ Answered(n, "reload")
    /\ loading' = FALSE
    /\ \/ Succeeded(n, "reload") /\ ListTaken(n) /\ UNCHANGED error
       \/ Fails(n, "reload") /\ ListFails
    /\ resetting' = FALSE
    /\ DialogCloses
    /\ Ends(n)
    /\ UNCHANGED <<base, updating, plain, raced, events>>

\* replaceKey: a row that is listed no more stays so.
Replaced(rows) == [i \in DOMAIN keys |-> IF i \in DOMAIN rows THEN rows[i] ELSE keys[i]]

\* Mutant of RowAnswered: a failure leaves the key marked.
RowAnsweredNoFinally(n, op) ==
    /\ op \in Updates \ {"batch"}
    /\ Answered(n, op)
    /\ keys' = Replaced(calls[n].rows)
    /\ error' = (error \/ Fails(n, op))
    /\ updating' = IF Fails(n, op) THEN updating ELSE updating \ calls[n].ids
    /\ IF op = "resetLimits" THEN DialogCloses ELSE UNCHANGED dialog
    /\ Ends(n)
    /\ UNCHANGED <<base, selected, resetting, loading, plain, raced, events>>

\* setEnabled, setPlan and resetLimits: the answer is the row.
RowAnswered(n, op) ==
    /\ op \in Updates \ {"batch"}
    /\ Answered(n, op)
    /\ keys' = Replaced(calls[n].rows)
    /\ error' = (error \/ Fails(n, op))
    /\ updating' = updating \ calls[n].ids
    /\ IF op = "resetLimits" THEN DialogCloses ELSE UNCHANGED dialog
    /\ Ends(n)
    /\ UNCHANGED <<base, selected, resetting, loading, plain, raced, events>>

\* The keys that could not be set stay selected.
BatchAnswered(n) ==
    /\ Answered(n, "batch")
    /\ keys' = Replaced(calls[n].rows)
    /\ selected' = calls[n].failed
    /\ updating' = updating \ calls[n].ids
    /\ error' = (error \/ calls[n].failed # {})
    /\ Ends(n)
    /\ UNCHANGED <<base, resetting, loading, plain, dialog, raced, events>>

StartsAfter(n, c) == SendsAfter(n, c) /\ loading' = TRUE /\ error' = FALSE

Rotated(n) ==
    /\ Succeeded(n, "rotate")
    /\ plain' = calls[n].rows
    /\ StartsAfter(n, Load)
    /\ DialogCloses
    /\ UNCHANGED <<base, keys, selected, updating, resetting, events>>

\* Mutant of Deleted: the list is left as it was.
DeletedNoReload(n) ==
    /\ Succeeded(n, "delete")
    /\ selected' = selected \ calls[n].ids
    /\ Ends(n)
    /\ DialogCloses
    /\ UNCHANGED <<base, keys, updating, resetting, loading, error, plain, raced, events>>

Deleted(n) ==
    /\ Succeeded(n, "delete")
    /\ selected' = selected \ calls[n].ids
    /\ StartsAfter(n, Load)
    /\ DialogCloses
    /\ UNCHANGED <<base, keys, updating, resetting, plain, events>>

RPMReset(n) ==
    /\ Succeeded(n, "resetRPM")
    /\ StartsAfter(n, Load)
    /\ UNCHANGED <<base, keys, selected, updating, resetting, plain, dialog, events>>

UsageReset(n) ==
    /\ Succeeded(n, "resetUsage")
    /\ StartsAfter(n, Reload)
    /\ UNCHANGED <<base, keys, selected, updating, resetting, plain, dialog, events>>

ActionFails(n) ==
    /\ \E op \in {"rotate", "delete", "resetUsage"} : Fails(n, op)
    /\ error' = TRUE
    /\ resetting' = (resetting /\ calls[n].op # "resetUsage")
    /\ DialogCloses
    /\ Ends(n)
    /\ UNCHANGED <<base, keys, selected, updating, loading, plain, raced, events>>

RPMFails(n) ==
    /\ Fails(n, "resetRPM")
    /\ error' = TRUE
    /\ Ends(n)
    /\ UNCHANGED <<base, keys, selected, updating, resetting, loading, plain, dialog, raced, events>>

\* A part of the call is answered with 401 or 403: the session is over, and
\* the page goes with all that it shows and waits for.
SessionEnds(n) ==
    /\ Unanswered(calls[n]) \ DOMAIN calls[n].read # {}
    /\ mounted' = FALSE
    /\ keys' = NoRows /\ plain' = NoRows
    /\ selected' = {} /\ updating' = {}
    /\ resetting' = FALSE /\ loading' = FALSE /\ error' = FALSE
    /\ DialogCloses
    /\ calls' = <<>> /\ raced' = TRUE
    /\ UNCHANGED <<server, issued, strays, undone, events>>

Answer(n) ==
    \/ Loaded(n) \/ Reloaded(n) \/ BatchAnswered(n)
    \/ \E op \in Updates : RowAnswered(n, op)
    \/ Rotated(n) \/ Deleted(n) \/ RPMReset(n) \/ UsageReset(n)
    \/ ActionFails(n) \/ RPMFails(n) \/ SessionEnds(n)

--------------------------------------------------------------------------------

\* The page has been mounted and its effect has sent the first load.
Init ==
    /\ server = [i \in Ids |-> NewRow]
    /\ issued = NewRow.secret
    /\ strays = <<>>
    /\ mounted = TRUE
    /\ keys = NoRows
    /\ selected = {}
    /\ updating = {}
    /\ resetting = FALSE
    /\ loading = TRUE
    /\ error = FALSE
    /\ plain = NoRows
    /\ pending = NothingPending
    /\ confirming = FALSE
    /\ calls = <<Load>>
    /\ raced = FALSE
    /\ undone = {}
    /\ events = 0

Next ==
    \/ User
    \/ \E n \in DOMAIN calls : Server(n) \/ Answer(n)
    \/ \E m \in DOMAIN strays : StrayWrites(m)

Spec == Init /\ [][Next]_vars

--------------------------------------------------------------------------------
(* Properties.                                                               *)

TypeOK ==
    /\ DOMAIN server \subseteq Ids /\ server \in [DOMAIN server -> Rows]
    /\ DOMAIN keys \subseteq Ids /\ keys \in [DOMAIN keys -> Rows]
    /\ selected \subseteq Ids
    /\ updating \subseteq Ids
    /\ resetting \in BOOLEAN /\ loading \in BOOLEAN /\ error \in BOOLEAN
    /\ DOMAIN plain \subseteq Ids /\ plain \in [DOMAIN plain -> Rows]
    /\ pending \in [type : {"none", "rotate", "delete", "resetLimits", "resetUsage"}, id : Ids \cup {NoId}]
    /\ confirming \in BOOLEAN
    /\ \A n \in DOMAIN calls :
         /\ calls[n].op \in Ops
         /\ calls[n].ids \subseteq Ids \cup {NoId}
         /\ calls[n].done \cup calls[n].failed \subseteq calls[n].ids
         /\ calls[n].done \cap calls[n].failed = {}
         /\ DOMAIN calls[n].read \subseteq Unanswered(calls[n])
    /\ issued \in Nat /\ mounted \in BOOLEAN
    /\ raced \in BOOLEAN
    /\ undone \subseteq Ids
    /\ events \in Nat

\* Once nothing is under way the list is what the server has, after any
\* number of updates of different keys, batches, rotations and deletions at
\* once, unless a reload met an update, two updates of one key met, an answer
\* was lost, or the session has ended.
QuietListIsServer == Quiet /\ ~raced => keys = server

\* Whatever blocks the page waits for a call under way: a key marked as
\* updating for an update of it, loading for a list, the busy dialog and the
\* reset for what was confirmed.  So controls come back when the calls end,
\* in whatever order and with whatever failures they do.
BlockedByCalls ==
    /\ \A i \in updating : \E n \in DOMAIN calls : calls[n].op \in Updates /\ i \in calls[n].ids
    /\ loading => \E n \in DOMAIN calls : Loads(calls[n])
    /\ confirming => \E n \in DOMAIN calls : calls[n].op \in Confirmables
    /\ resetting => \E n \in DOMAIN calls : calls[n].op \in {"resetUsage", "reload"}

\* What the dialog asked for runs alone: it stays open and busy until the
\* call, and for a reset of usage the reload after it, is answered; no second
\* rotation, deletion or reset can be confirmed meanwhile.
ConfirmedRunsAlone ==
    /\ \A n, m \in DOMAIN calls :
         calls[n].op \in Confirmables /\ calls[m].op \in Confirmables => n = m
    /\ \A n \in DOMAIN calls :
         calls[n].op \in Confirmables =>
             /\ confirming
             /\ pending.type = IF calls[n].op = "reload" THEN "resetUsage" ELSE calls[n].op

\* The plain key on display is the one in force, so that no second rotation
\* can have made it void by the time the user has copied it; only a PATCH that
\* had read its key before the rotation, lost or not, puts the old one back
\* (app.go 518, 554), for nothing keeps the two apart.
PlainInForce ==
    \A i \in (DOMAIN plain \cap DOMAIN server) \ undone : plain[i].secret = server[i].secret

\* Only the user, or the end of the session with an answer of 401 or 403
\* (client.ts 23-29), takes the plain key off display: no reload, no other
\* answer and no second rotation replaces it or closes it.
PlainKept ==
    [][ plain # NoRows => \/ plain' = plain
                          \/ plain' = NoRows /\ UNCHANGED calls
                          \/ plain' = NoRows /\ ~mounted' ]_vars

================================================================================
