------------------------------- MODULE PolicyForm -------------------------------
(***************************************************************************)
(* The form on which an operator writes a policy: that of a new key, of a  *)
(* key that exists (KeyEdit) or of a subscription plan, as the user, the   *)
(* browser's history and late answers drive it.  Models of a key are       *)
(* chosen on a page of their own (ModelPick), for which the form is left:  *)
(* a draft in memory and the history entry's state bring it back.  Models  *)
(* of a plan are chosen in the form, which holds two pickers, one for a    *)
(* narrow window and one for a wide one, each with a selection of its own. *)
(*                                                                         *)
(* A policy is its models' prices and its other fields, as one value.      *)
(* Forms of different keys share nothing (their drafts have names of their *)
(* own), so a behaviour follows one form, of the kind chosen at its start. *)
(***************************************************************************)
EXTENDS Naturals, SequencesExt

CONSTANTS
    Models,         \* the models of the catalog
    Priced,         \* those models.dev knows the price of
    None,           \* no draft, no state of a history entry, no sync under way
    MaxClicks,      \* bound: what the user does
    MaxHistory      \* bound: entries of the browser's history

ASSUME PricedAssumption == Priced \subseteq Models
ASSUME BoundsAssumption == MaxClicks \in Nat /\ MaxHistory \in Nat \ {0}

VARIABLES
    kind,           \* of the form: "new" key, "edit" of a key, "plan"
    server,         \* the policy the server keeps, whether it still does, and
                    \* whether a plan covers it
    hist, at,       \* the browser's history, and the entry in force
    view,           \* what the form's page shows
    form,           \* KeyForm's state: fields, models, prices by model
    draft,          \* store/keyDraft: the draft under this form's name
    pickers,        \* selections: of the page and of the form's two layouts
    layout,         \* which of the two the window's width shows
    sync,           \* models of the price sync under way
    call,           \* the save under way
    action,         \* KeyEdit's dialog: asking, its call, the secret on display
    clicks,
    user            \* ghost: meant, the policy as the user has made it; fresh, the
                    \* form was given up or saved and not reopened since; lost,
                    \* what has come between the user and the form; secret, of the
                    \* key: held, due to be shown, or out of the user's reach

page == <<hist, at, view>>
vars == <<kind, server, page, form, draft, pickers, layout, sync, call, action,
          clicks, user>>

Rows == [price: {"none", "set", "typed", "dev"}, mode: {"tokens", "per_call"}]
NewRow == [price |-> "none", mode |-> "tokens"]
Rules == UNION {[chosen -> Rows] : chosen \in SUBSET Models}
Fields == {"blank", "set", "plan", "other", "typed"}
Policies == [fields: Fields, rules: Rules]

ASSUME NoneAssumption ==
    /\ \A rules \in Rules : rules # None
    /\ \A policy \in Policies : policy # None
    /\ \A models \in SUBSET Models : models # None

(* A new key's form starts blank; the key or plan that is edited has one    *)
(* model or none, and the plan that covers the key another policy.          *)
Blank == [fields |-> "blank", rules |-> [m \in {} |-> NewRow]]
SetPolicy(chosen) ==
    [fields |-> "set", rules |-> [m \in chosen |-> [NewRow EXCEPT !.price = "set"]]]
PlanPolicy == [fields |-> "plan", rules |-> [m \in Models |-> NewRow]]

Layouts == {"narrow", "wide"}
Unloaded == [catalog |-> "loading", selected |-> {}]
NoForm == [fields |-> "blank", models |-> {}, prices |-> Blank.rules]
NoCall == [phase |-> "idle", values |-> Blank, here |-> FALSE]
NoAction == [op |-> "none", phase |-> "idle", here |-> FALSE]
List == [page |-> "list", rules |-> None]

Shown == hist[at]
Open == view = "open"
Busy == call.phase # "idle" /\ call.here

(* pricedModels: the policy the form stands for.                            *)
Values(f) == [fields |-> f.fields, rules |-> [m \in f.models |-> f.prices[m]]]

Init ==
    /\ kind \in {"new", "edit", "plan"}
    /\ \E chosen \in SUBSET Models, planned \in BOOLEAN :
        /\ kind = "new" => chosen = {}
        /\ kind # "edit" => ~planned
        /\ server = [own |-> IF kind = "new" THEN Blank ELSE SetPolicy(chosen),
                     exists |-> TRUE, planned |-> planned]
    /\ hist = <<List>> /\ at = 1
    /\ view = "closed" /\ form = NoForm /\ draft = None
    /\ pickers = [p \in Layouts \cup {"page"} |-> Unloaded]
    /\ layout \in Layouts /\ (kind # "plan" => layout = "wide")
    /\ sync = None /\ call = NoCall /\ action = NoAction /\ clicks = 0
    /\ user = [meant |-> Blank, fresh |-> TRUE, lost |-> {}, secret |-> "held"]

(* What the user does is counted; while KeyEdit's dialog or the rotated     *)
(* secret covers the page, nothing on it can be clicked.                    *)
Counted == clicks < MaxClicks /\ clicks' = clicks + 1
Click == Counted /\ ~action.here

(***************************************************************************)
(* The form comes and goes.                                                *)
(***************************************************************************)

(* What the server tells of the key or plan, and the policy the form starts *)
(* from: of a key under a plan the key's own one, which the plan overrides. *)
Served == IF server.planned THEN [shown |-> PlanPolicy, base |-> server.own]
          ELSE [shown |-> server.own, base |-> None]
(* Mutant of Base: the policy in force, be it the plan's.                   *)
BaseShown == Served.shown
Base == IF Served.base # None THEN Served.base ELSE Served.shown

(* KeyForm mounts: on the draft, else on the base, with the models that the *)
(* history entry brings from the picking page.  Its effect writes the draft *)
(* at once.  A form reopened after it was given up starts from the base.    *)
Initial(entry, kept, base) ==
    LET start == IF kept # None THEN kept ELSE base
    IN  IF entry.rules # None THEN [start EXCEPT !.rules = entry.rules] ELSE start

Opens(entry, kept, base, u) ==
    LET initial == Initial(entry, kept, base)
        chosen == DOMAIN initial.rules
    IN  /\ view' = "open"
        /\ form' = [fields |-> initial.fields, models |-> chosen,
                    prices |-> initial.rules]
        /\ draft' = IF kind = "plan" THEN None ELSE initial
        /\ pickers' = [p \in DOMAIN pickers |->
                          IF kind = "plan" /\ p \in Layouts
                          THEN [catalog |-> "loading", selected |-> chosen]
                          ELSE Unloaded]
        /\ user' = [u EXCEPT !.meant = IF u.fresh THEN base ELSE @,
                             !.fresh = FALSE,
                             !.lost = IF u.fresh /\ entry.rules = None /\ kept = None
                                      THEN {} ELSE @]

(* The router shows entry i of h.  Between two entries of the form's page   *)
(* the form stays as it is; otherwise its state goes with it, and answers   *)
(* find nobody; so go the dialog and a secret that is shown or still to be. *)
(* The draft outlives it; a plan's form has none.                           *)
Leaving(a) == IF a.phase \in {"asked", "shown"} THEN NoAction ELSE [a EXCEPT !.here = FALSE]

Goes(h, i, kept, u, c, a) ==
    LET from == Shown.page
        to == h[i].page
        given == [u EXCEPT !.fresh = @ \/ kind = "plan",
                           !.secret = IF @ = "due" THEN "lost" ELSE @]
    IN  /\ hist' = h /\ at' = i
        /\ sync' = IF from = to THEN sync ELSE None
        /\ call' = IF from = to THEN c ELSE [c EXCEPT !.here = FALSE]
        /\ action' = IF from = to THEN a ELSE Leaving(a)
        /\ \/ /\ to = from
              /\ draft' = kept /\ user' = u
              /\ UNCHANGED <<view, form, pickers>>
           \/ /\ to = "form" /\ from # to /\ kind = "new"
              /\ Opens(h[i], kept, Blank, u)
           \/ /\ to = "form" /\ from # to /\ kind # "new"
              /\ view' = "loading" /\ draft' = kept /\ user' = u
              /\ pickers' = [pickers EXCEPT !["page"] = Unloaded]
              /\ UNCHANGED form
           \/ /\ to # "form" /\ from # to
              /\ view' = "closed" /\ form' = NoForm
              /\ draft' = kept /\ user' = given
              /\ pickers' = [p \in DOMAIN pickers |->
                                IF to = "pick" /\ p = "page"
                                THEN [catalog |-> "loading", selected |-> DOMAIN h[i].rules]
                                ELSE Unloaded]

Pushed(entry) == Append(SubSeq(hist, 1, at), entry)
Push(entry, kept, u) == at < MaxHistory /\ Goes(Pushed(entry), at + 1, kept, u, call, action)

(* KeyEdit and SubscriptionPlanEdit load what they edit, if it exists.      *)
LoadAnswers ==
    /\ view = "loading" /\ server.exists
    /\ Opens(Shown, draft, Base, user)
    /\ UNCHANGED <<kind, server, hist, at, layout, sync, call, action, clicks>>

LoadFails ==
    /\ view = "loading"
    /\ view' = "failed"
    /\ UNCHANGED <<kind, server, hist, at, form, draft, pickers, layout, sync, call,
                   action, clicks, user>>

(* A user who moves on by link or by Back or Forward may part from models:  *)
(* picked ones that the form has not taken up yet, when it is still being   *)
(* loaded or could not be, and may come upon an entry with older models.    *)
NotTakenUp == view \in {"loading", "failed"} /\ Shown.rules # None
Stale(entry) == entry.rules # None /\ (user.fresh \/ entry.rules # user.meant.rules)
Moved(entry) == IF NotTakenUp \/ Stale(entry)
                THEN [user EXCEPT !.lost = @ \cup {"history"}] ELSE user

(* Links: to the form from its list, and to the list from anywhere.         *)
OpenForm ==
    /\ Shown.page = "list" /\ Click
    /\ Push([page |-> "form", rules |-> None], draft, user)
    /\ UNCHANGED <<kind, server, layout>>

Leave ==
    /\ Shown.page # "list" /\ view # "plain" /\ Click
    /\ Push(List, draft, Moved(List))
    /\ UNCHANGED <<kind, server, layout>>

Traverse ==
    /\ Counted
    /\ \E i \in DOMAIN hist \cap {at - 1, at + 1} :
           Goes(hist, i, draft, Moved(hist[i]), call, action)
    /\ UNCHANGED <<kind, server, layout>>

Cancel ==
    /\ Open /\ Click
    /\ Push(List, None, [user EXCEPT !.fresh = TRUE])
    /\ UNCHANGED <<kind, server, layout>>

(***************************************************************************)
(* The user writes the policy.                                             *)
(***************************************************************************)

(* A change of the form's state; the effect that follows writes the draft.  *)
Edits(f, u) ==
    /\ form' = f
    /\ draft' = IF kind = "plan" THEN None ELSE Values(f)
    /\ user' = u
    /\ UNCHANGED <<kind, server, page, layout, call, action>>

(* What the user means after touching the models S of the form, now f.      *)
Touching(S, f) ==
    LET now == Values(f).rules
        chosen == (DOMAIN user.meant.rules \ S) \cup (S \cap DOMAIN now)
    IN  [user EXCEPT !.meant.rules =
            [m \in chosen |-> IF m \in S THEN now[m] ELSE user.meant.rules[m]]]

EditField ==
    /\ Open /\ Click
    /\ Edits([form EXCEPT !.fields = "typed"], [user EXCEPT !.meant.fields = "typed"])
    /\ UNCHANGED <<pickers, sync>>

(* What the price editor makes of a model's row: a price typed into it, the *)
(* other billing mode, or the price models.dev recommends for it, if it     *)
(* knows one.                                                               *)
Offered(m, row) ==
    {[row EXCEPT !.price = "typed"],
     [row EXCEPT !.mode = IF @ = "tokens" THEN "per_call" ELSE "tokens"]}
    \cup {[row EXCEPT !.price = "dev"] : x \in {m} \cap Priced}

(* setPrice and recommend: one row; the latter keeps the billing mode.      *)
SetPrice ==
    /\ Open /\ Click
    /\ \E m \in form.models : \E row \in Offered(m, form.prices[m]) :
            LET f == [form EXCEPT !.prices[m] = row]
            IN  Edits(f, Touching({m}, f))
    /\ UNCHANGED <<pickers, sync>>

(* A chip's cross takes the model off the list and leaves its row.          *)
RemoveChip ==
    /\ Open /\ kind # "plan" /\ Click
    /\ \E m \in form.models :
        LET f == [form EXCEPT !.models = @ \ {m}]
        IN  Edits(f, Touching({m}, f))
    /\ UNCHANGED <<pickers, sync>>

(* syncPrices: the models are those of the click; rows that were dropped    *)
(* while models.dev was asked come back.                                    *)
SyncPrices ==
    /\ Open /\ sync = None /\ form.models # {} /\ Click
    /\ sync' = form.models
    /\ UNCHANGED <<kind, server, page, form, draft, pickers, layout, call, action, user>>

Synced == LET found == sync \cap Priced
          IN  [form EXCEPT !.prices =
                  [m \in DOMAIN form.prices \cup found |->
                      IF m \notin found THEN form.prices[m]
                      ELSE [price |-> "dev",
                            mode |-> IF m \in DOMAIN form.prices THEN form.prices[m].mode
                                     ELSE NewRow.mode]]]

SyncAnswers ==
    /\ sync # None /\ sync' = None
    /\ Edits(Synced, IF Open THEN Touching(sync \cap Priced \cap form.models, Synced)
                     ELSE [user EXCEPT !.lost = @ \cup {"sync"}])
    /\ UNCHANGED <<pickers, clicks>>

SyncFails ==
    /\ sync # None /\ sync' = None
    /\ UNCHANGED <<kind, server, page, form, draft, pickers, layout, call, action, clicks,
                   user>>

(***************************************************************************)
(* The page that picks a key's models.                                     *)
(***************************************************************************)

AddModel ==
    /\ Open /\ kind # "plan" /\ Click
    /\ Push([page |-> "pick", rules |-> Values(form).rules], draft, user)
    /\ UNCHANGED <<kind, server, layout>>

(* buildPickedModels keeps the rule a model had.                            *)
BuildPickedModels(selected, initial) ==
    [m \in selected |-> IF m \in DOMAIN initial THEN initial[m] ELSE NewRow]

Replaced(rules) == [hist EXCEPT ![at] = [page |-> "form", rules |-> rules]]

PickBack ==
    /\ Shown.page = "pick" /\ Click
    /\ Goes(Replaced(None), at, draft, user, call, action)
    /\ UNCHANGED <<kind, server, layout>>

PickDone ==
    /\ Shown.page = "pick" /\ pickers["page"].catalog # "loading" /\ Click
    /\ LET selected == pickers["page"].selected
       IN  Goes(Replaced(BuildPickedModels(selected, Shown.rules)), at, draft,
                [user EXCEPT !.meant.rules =
                    [m \in selected |-> IF m \in DOMAIN @ THEN @[m] ELSE NewRow]],
                call, action)
    /\ UNCHANGED <<kind, server, layout>>

(* A picker lists its checkboxes once the catalog is there.                 *)
Tickable(p) == pickers[p].catalog = "ready"

(* The checkboxes of the page and "select all" of a provider's models.      *)
Flipped(selected) ==
    {(selected \ {m}) \cup ({m} \ selected) : m \in Models}
        \cup {IF Models \subseteq selected THEN selected \ Models ELSE selected \cup Models}

PickToggle ==
    /\ Shown.page = "pick" /\ Tickable("page")
    /\ \E next \in Flipped(pickers["page"].selected) :
           pickers' = [pickers EXCEPT !["page"].selected = next]
    /\ UNCHANGED <<kind, server, page, form, draft, layout, sync, call, action, clicks,
                   user>>

PickLoaded ==
    /\ Shown.page = "pick" /\ pickers["page"].catalog = "loading"
    /\ \E how \in {"ready", "failed"} :
           pickers' = [pickers EXCEPT !["page"].catalog = how]
    /\ UNCHANGED <<kind, server, page, form, draft, layout, sync, call, action, clicks,
                   user>>

(***************************************************************************)
(* The pickers within a plan's form.                                       *)
(***************************************************************************)

(* handleModelsChange: rows of models that stay are kept, others dropped.   *)
(* Mutants: it starts every row afresh, or never takes a model off.         *)
HandleModelsChangeAfresh(next) ==
    [form EXCEPT !.models = next, !.prices = [m \in next |-> NewRow]]
HandleModelsChangeAdding(next) ==
    LET all == next \cup form.models
    IN  [form EXCEPT !.models = all,
                     !.prices = [m \in all |-> IF m \in DOMAIN form.prices
                                               THEN form.prices[m] ELSE NewRow]]
HandleModelsChange(next) ==
    [form EXCEPT !.models = next,
                 !.prices = [m \in next |-> IF m \in DOMAIN form.prices
                                            THEN form.prices[m] ELSE NewRow]]

(* A picker whose catalog came, or failed to, emits its own selection, be   *)
(* it the one the window shows or the other.                                *)
PickerLoaded ==
    /\ Open /\ kind = "plan"
    /\ \E p \in Layouts, how \in {"ready", "failed"} :
        /\ pickers[p].catalog = "loading"
        /\ pickers' = [pickers EXCEPT ![p].catalog = how]
        /\ LET next == pickers[p].selected
           IN  Edits(HandleModelsChange(next),
                     IF next = form.models THEN user
                     ELSE [user EXCEPT !.lost = @ \cup {"picker"}])
    /\ UNCHANGED <<sync, clicks>>

PickerToggle ==
    /\ Open /\ kind = "plan" /\ Tickable(layout) /\ Click
    /\ \E next \in Flipped(pickers[layout].selected) :
        /\ pickers' = [pickers EXCEPT ![layout].selected = next]
        /\ LET f == HandleModelsChange(next)
               touched == (next \ form.models) \cup (form.models \ next)
           IN  Edits(f, Touching(touched, f))
    /\ UNCHANGED sync

(* The window is made narrow or wide; its picker has the selection it had.  *)
Resize ==
    /\ Open /\ kind = "plan" /\ Click
    /\ \E other \in Layouts \ {layout} :
        /\ layout' = other
        /\ user' = IF pickers[other].selected = form.models THEN user
                   ELSE [user EXCEPT !.lost = @ \cup {"picker"}]
    /\ UNCHANGED <<kind, server, page, form, draft, pickers, sync, call, action>>

(***************************************************************************)
(* Saving.                                                                 *)
(***************************************************************************)

(* submit: an id is asked for; the button is disabled while a save of this  *)
(* form is under way.  Bound: one save at a time, of one form or another.   *)
Submit ==
    /\ Open /\ call.phase = "idle" /\ form.fields # "blank" /\ Click
    /\ call' = [phase |-> "sent", values |-> Values(form), here |-> TRUE]
    /\ UNCHANGED <<kind, server, page, form, draft, pickers, layout, sync, action, user>>

ServerSaves ==
    /\ call.phase = "sent" /\ server.exists
    /\ call' = [call EXCEPT !.phase = "saved"]
    /\ server' = [server EXCEPT !.own = IF kind = "new" THEN @ ELSE call.values]
    /\ UNCHANGED <<kind, page, form, draft, pickers, layout, sync, action, clicks,
                   user>>

ServerRefuses ==
    /\ call.phase = "sent"
    /\ call' = [call EXCEPT !.phase = "refused"]
    /\ UNCHANGED <<kind, server, page, form, draft, pickers, layout, sync, action, clicks,
                   user>>

Refused ==
    /\ call.phase = "refused"
    /\ call' = NoCall
    /\ UNCHANGED <<kind, server, page, form, draft, pickers, layout, sync, action, clicks,
                   user>>

(* The answer clears the draft, of whoever writes on it by now.             *)
Answered(c) ==
    [user EXCEPT !.fresh = @ \/ c.here,
                 !.lost = IF c.here \/ (draft = None /\ Shown.page = "list") THEN @
                          ELSE @ \cup {"answer"}]

(* Mutant: the dialog is shown wherever the user is.                        *)
CreatedAnywhere ==
    /\ call.phase = "saved" /\ kind = "new"
    /\ call' = NoCall
    /\ draft' = None /\ user' = Answered(call)
    /\ view' = "plain"
    /\ UNCHANGED <<kind, server, hist, at, form, pickers, layout, sync, action, clicks>>

(* A new key's page, if it is still there, shows the secret; the form stays *)
(* mounted under the dialog.                                                *)
Created ==
    /\ call.phase = "saved" /\ kind = "new"
    /\ call' = NoCall
    /\ draft' = None /\ user' = Answered(call)
    /\ view' = IF call.here THEN "plain" ELSE view
    /\ UNCHANGED <<kind, server, hist, at, form, pickers, layout, sync, action, clicks>>

ClosePlain ==
    /\ view = "plain" /\ Click
    /\ Push(List, draft, user)
    /\ UNCHANGED <<kind, server, layout>>

(* The other forms go back to their list, from wherever the user is.        *)
Saved ==
    /\ call.phase = "saved" /\ kind # "new" /\ at < MaxHistory
    /\ Goes(Pushed(List), at + 1, None, Answered(call), NoCall, action)
    /\ UNCHANGED <<kind, server, layout, clicks>>

(***************************************************************************)
(* The secret and the end of a key, from its form.                         *)
(***************************************************************************)

(* The dialog asks, and is busy until what it asked for is answered.        *)
(* Bound: one such call at a time, of one form or another.                  *)
Ask ==
    /\ Open /\ kind = "edit" /\ action = NoAction /\ Click
    /\ \E op \in {"rotate", "delete"} :
           action' = [op |-> op, phase |-> "asked", here |-> TRUE]
    /\ UNCHANGED <<kind, server, page, form, draft, pickers, layout, sync, call, user>>

Dismiss ==
    /\ action.phase = "asked"
    /\ action' = NoAction
    /\ UNCHANGED <<kind, server, page, form, draft, pickers, layout, sync, call, clicks,
                   user>>

Confirm ==
    /\ action.phase = "asked"
    /\ action' = [action EXCEPT !.phase = "sent"]
    /\ UNCHANGED <<kind, server, page, form, draft, pickers, layout, sync, call, clicks,
                   user>>

ServerActs ==
    /\ action.phase = "sent" /\ server.exists
    /\ action' = [action EXCEPT !.phase = "done"]
    /\ IF action.op = "delete"
       THEN server' = [server EXCEPT !.exists = FALSE, !.planned = FALSE] /\ UNCHANGED user
       ELSE /\ user' = [user EXCEPT !.secret = IF action.here THEN "due" ELSE "lost"]
            /\ UNCHANGED server
    /\ UNCHANGED <<kind, page, form, draft, pickers, layout, sync, call, clicks>>

(* A call that is refused, or whose turn comes after the key's deletion,    *)
(* leaves the page as it was but for the error.                             *)
ActionFails ==
    /\ action.phase = "sent"
    /\ action' = NoAction
    /\ UNCHANGED <<kind, server, page, form, draft, pickers, layout, sync, call, clicks,
                   user>>

(* Mutant of Rotated: the secret is not shown while a save is under way.    *)
RotatedIdle ==
    /\ action.phase = "done" /\ action.op = "rotate"
    /\ action' = IF action.here /\ ~Busy THEN [action EXCEPT !.phase = "shown"]
                 ELSE NoAction
    /\ UNCHANGED <<kind, server, page, form, draft, pickers, layout, sync, call, clicks,
                   user>>
Rotated ==
    /\ action.phase = "done" /\ action.op = "rotate"
    /\ action' = IF action.here THEN [action EXCEPT !.phase = "shown"] ELSE NoAction
    /\ UNCHANGED <<kind, server, page, form, draft, pickers, layout, sync, call, clicks,
                   user>>

CloseSecret ==
    /\ action.phase = "shown"
    /\ action' = NoAction /\ user' = [user EXCEPT !.secret = "held"]
    /\ UNCHANGED <<kind, server, page, form, draft, pickers, layout, sync, call, clicks>>

(* The answer to a deletion clears the draft, and goes back to the list     *)
(* from wherever the user is.                                               *)
Deleted ==
    /\ action.phase = "done" /\ action.op = "delete" /\ at < MaxHistory
    /\ Goes(Pushed(List), at + 1, None, Answered(action), call, NoAction)
    /\ UNCHANGED <<kind, server, layout, clicks>>

(* Another operator changes the policy, binds the key to a plan or off,     *)
(* deletes what is edited, or creates a deleted id anew.                    *)
ServerChanges ==
    /\ kind # "new" /\ Counted
    /\ \/ server.exists /\ server' = [server EXCEPT !.own.fields = "other"]
       \/ server.exists /\ server' = [server EXCEPT !.exists = FALSE, !.planned = FALSE]
       \/ kind = "edit" /\ server.exists /\ server' = [server EXCEPT !.planned = ~@]
       \/ ~server.exists /\ server' = [server EXCEPT !.exists = TRUE,
                                                     !.own = SetPolicy({})]
    /\ UNCHANGED <<kind, page, form, draft, pickers, layout, sync, call, action, user>>

Next ==
    \/ OpenForm \/ LoadAnswers \/ LoadFails \/ Leave \/ Traverse \/ Cancel
    \/ EditField \/ SetPrice \/ RemoveChip
    \/ SyncPrices \/ SyncAnswers \/ SyncFails
    \/ AddModel \/ PickLoaded \/ PickToggle \/ PickBack \/ PickDone
    \/ PickerLoaded \/ PickerToggle \/ Resize
    \/ Submit \/ ServerSaves \/ ServerRefuses \/ Refused
    \/ Created \/ ClosePlain \/ Saved
    \/ Ask \/ Dismiss \/ Confirm \/ ServerActs \/ ActionFails
    \/ Rotated \/ CloseSecret \/ Deleted
    \/ ServerChanges

Spec == Init /\ [][Next]_vars

(***************************************************************************)
(* Properties.                                                             *)
(***************************************************************************)

(* Every variable keeps its type; a form under way has a row for each of    *)
(* its models, and only the pages with pickers load them.                   *)
TypeOK ==
    /\ kind \in {"new", "edit", "plan"}
    /\ server.own \in Policies /\ {server.exists, server.planned} \subseteq BOOLEAN
    /\ at \in DOMAIN hist /\ Len(hist) <= MaxHistory
    /\ \A i \in DOMAIN hist : /\ hist[i].page \in {"list", "form", "pick"}
                              /\ hist[i].rules \in Rules \cup {None}
    /\ view \in {"closed", "loading", "failed", "open", "plain"}
    /\ (view = "closed") <=> (Shown.page # "form")
    /\ form.fields \in Fields /\ form.models \subseteq DOMAIN form.prices
    /\ form.prices \in Rules
    /\ draft \in Policies \cup {None}
    /\ \A p \in DOMAIN pickers : /\ pickers[p].catalog \in {"loading", "ready", "failed"}
                                 /\ pickers[p].selected \subseteq Models
    /\ layout \in Layouts
    /\ sync = None \/ (sync \subseteq Models /\ view \in {"open", "plain"})
    /\ call.phase \in {"idle", "sent", "saved", "refused"} /\ call.values \in Policies
    /\ call.here => view = "open"
    /\ action.op \in {"none", "rotate", "delete"}
    /\ action.phase \in {"idle", "asked", "sent", "done", "shown"}
    /\ action.here => view = "open"
    /\ user.meant \in Policies /\ user.fresh \in BOOLEAN
    /\ user.lost \subseteq {"history", "sync", "picker", "answer"}
    /\ user.secret \in {"held", "due", "lost"}

(* The form shows the policy as the user has made it: fields and prices     *)
(* typed before the models were picked on their own page are there when it  *)
(* returns (KeyNew.tsx:35), a picker that emits again wipes none (KeyForm   *)
(* .tsx:134), a form given up or saved starts over from what the server     *)
(* keeps.  Four things may come between: Back or Forward to an entry with   *)
(* older models, the answer to a save or deletion whose form was left, a    *)
(* price sync answering under a new key's dialog, a plan's other picker.    *)
AsMeant == Open /\ user.lost = {} => Values(form) = user.meant

(* A secret that a rotation made comes to the user whose page asked for it, *)
(* and stays on display until it is closed: no save, sync or edit of the    *)
(* form that goes on beside it takes it away, only what takes the page away *)
(* does, be it the user or the answer to a save or deletion.                *)
SecretIsShown ==
    user.secret = "due" => /\ action.op = "rotate" /\ action.here
                           /\ action.phase \in {"done", "shown"}

(* A plan that covers a key overrides its policy and is never written back  *)
(* as the key's own (KeyEdit.tsx:51), in whatever order the plan comes and  *)
(* goes, forms are opened and left, and drafts are saved.                   *)
PlanNotWrittenBack == server.own.fields # "plan"

(* The picker of a plan's form that the window shows has ticked the models  *)
(* that are listed and priced below it, unless the other picker came        *)
(* between; so what is saved is what is ticked.                             *)
TickedIsListed ==
    Open /\ kind = "plan" /\ "picker" \notin user.lost
        => pickers[layout].selected = form.models

================================================================================
