--------------------------- MODULE PolicyForm_proofs ---------------------------
(***************************************************************************)
(* PolicyForm for any number of models, entries of the history and clicks. *)
(***************************************************************************)
EXTENDS PolicyForm, TLAPS

USE NoneAssumption, BoundsAssumption

--------------------------------------------------------------------------------
(* Types, of which TypeOK names the parts.                                   *)

Entries == [page: {"list", "form", "pick"}, rules: Rules \cup {None}]
Forms == {f \in [fields: Fields, models: SUBSET Models, prices: Rules] :
             f.models \subseteq DOMAIN f.prices}
Pickers == [catalog: {"loading", "ready", "failed"}, selected: SUBSET Models]
Calls == [phase: {"idle", "sent", "saved", "refused"}, values: Policies, here: BOOLEAN]
Actions == [op: {"none", "rotate", "delete"},
            phase: {"idle", "asked", "sent", "done", "shown"}, here: BOOLEAN]
Users == [meant: Policies, fresh: BOOLEAN,
          lost: SUBSET {"history", "sync", "picker", "answer"},
          secret: {"held", "due", "lost"}]

Typed ==
    /\ kind \in {"new", "edit", "plan"}
    /\ server \in [own: Policies, exists: BOOLEAN, planned: BOOLEAN]
    /\ hist \in Seq(Entries) /\ at \in DOMAIN hist /\ Len(hist) <= MaxHistory
    /\ view \in {"closed", "loading", "failed", "open", "plain"}
    /\ form \in Forms
    /\ draft \in Policies \cup {None}
    /\ pickers \in [Layouts \cup {"page"} -> Pickers]
    /\ layout \in Layouts
    /\ sync \in (SUBSET Models) \cup {None}
    /\ call \in Calls /\ action \in Actions /\ user \in Users

(* What waits for an answer on the form's page belongs to the form; only a  *)
(* key's form has a dialog.                                                 *)
Placed ==
    /\ (view = "closed") <=> (Shown.page # "form")
    /\ sync # None => view \in {"open", "plain"}
    /\ call.here \/ action.here => view = "open"
    /\ action.phase # "idle" => kind = "edit" /\ action.op # "none"
    /\ action.here => action.phase # "idle"

(* No entry brings models to a list, nor to a plan's form, whose models are *)
(* picked in it; the page that picks them has some to start from.           *)
BroughtBy(entry) ==
    /\ entry.page = "list" => entry.rules = None
    /\ entry.page = "pick" => entry.rules # None
    /\ kind = "plan" => entry.page # "pick" /\ entry.rules = None
Brought == \A i \in DOMAIN hist : BroughtBy(hist[i])

(* Where a form can be given up, and where it can wait for its policy.      *)
Staged ==
    /\ Open => ~user.fresh
    /\ view = "plain" => user.fresh /\ kind = "new"
    /\ view \in {"loading", "failed"} => kind # "new"
    /\ kind = "plan" => draft = None /\ (~Open => user.fresh)

(* Nothing is left of a form that was given up or saved.                    *)
CleanStart ==
    user.fresh /\ user.lost = {} =>
        draft = None /\ (view # "plain" => Shown.rules = None)

(* What the user has made waits in the draft and, for models that were just *)
(* picked, in the history's entry.                                          *)
Waits == view \in {"loading", "failed"} /\ Shown.rules # None

KeptAway ==
    ~Open /\ ~user.fresh /\ user.lost = {} =>
        /\ draft # None /\ draft.fields = user.meant.fields
        /\ (IF Waits THEN Shown ELSE draft).rules = user.meant.rules
        /\ Shown.page = "pick" => Shown.rules = user.meant.rules

KeptOpen ==
    Open /\ user.lost = {} =>
        /\ Values(form) = user.meant
        /\ kind # "plan" => draft = user.meant

(* A plan's policy is nowhere that could be saved from.                     *)
NoPlans ==
    /\ server.own.fields # "plan" /\ form.fields # "plan" /\ call.values.fields # "plan"
    /\ draft # None => draft.fields # "plan"

--------------------------------------------------------------------------------
(* Policies and forms.                                                       *)

LEMMA RulesParts ==
    ASSUME NEW rules
    PROVE  rules \in Rules <=> DOMAIN rules \subseteq Models /\ rules \in [DOMAIN rules -> Rows]
  BY DEF Rules

LEMMA NewRowTyped == NewRow \in Rows
  BY DEF NewRow, Rows

\* A row for each of some models makes rules.
LEMMA RulesMade ==
    ASSUME NEW S \in SUBSET Models, NEW rules, rules \in [S -> Rows]
    PROVE  rules \in Rules /\ DOMAIN rules = S
  BY DEF Rules

LEMMA RuleTyped ==
    ASSUME NEW rules \in Rules, NEW m \in DOMAIN rules
    PROVE  rules[m] \in Rows /\ m \in Models
  BY RulesParts

LEMMA BlankTyped ==
    /\ Blank \in Policies /\ Blank.fields = "blank" /\ Blank.rules \in Rules
    /\ DOMAIN Blank.rules = {}
  <1>1. [m \in {} |-> NewRow] \in [{} -> Rows]
    OBVIOUS
  <1>2. [m \in {} |-> NewRow] \in Rules /\ DOMAIN [m \in {} |-> NewRow] = {}
    BY <1>1, RulesMade
  <1> QED
    BY <1>2 DEF Blank, Policies, Fields

LEMMA SetPolicyTyped ==
    ASSUME NEW chosen \in SUBSET Models
    PROVE  SetPolicy(chosen) \in Policies /\ SetPolicy(chosen).fields = "set"
  <1> DEFINE rules == [m \in chosen |-> [NewRow EXCEPT !.price = "set"]]
  <1>1. [NewRow EXCEPT !.price = "set"] \in Rows
    BY DEF NewRow, Rows
  <1>2. rules \in [chosen -> Rows]
    BY <1>1
  <1>3. rules \in Rules
    BY <1>2, RulesMade
  <1> QED
    BY <1>3 DEF SetPolicy, Policies, Fields

\* The form starts from the key's own policy, under a plan or not.
LEMMA BaseIsOwn ==
    ASSUME Typed
    PROVE  Base = server.own /\ Base \in Policies
  BY DEF Typed, Base, Served

LEMMA NoFormTyped == NoForm \in Forms /\ NoForm.fields = "blank"
  BY BlankTyped DEF NoForm, Forms, Fields

\* A form stands for a policy, with a row for each of its models.
LEMMA ValuesTyped ==
    ASSUME NEW f \in Forms
    PROVE  /\ Values(f) \in Policies /\ Values(f).fields = f.fields
           /\ DOMAIN Values(f).rules = f.models
           /\ \A m \in f.models : Values(f).rules[m] = f.prices[m]
  <1> DEFINE rules == [m \in f.models |-> f.prices[m]]
  <1>1. /\ f.models \in SUBSET Models /\ f.prices \in Rules /\ f.models \subseteq DOMAIN f.prices
        /\ f.fields \in Fields
    BY DEF Forms
  <1>2. \A m \in f.models : f.prices[m] \in Rows
    BY <1>1, RuleTyped
  <1>3. rules \in [f.models -> Rows]
    BY <1>2
  <1>4. rules \in Rules
    BY <1>1, <1>3, RulesMade
  <1>5. Values(f) = [fields |-> f.fields, rules |-> rules]
    BY DEF Values
  <1> HIDE DEF rules
  <1>6. Values(f) \in Policies /\ Values(f).fields = f.fields /\ Values(f).rules = rules
    BY <1>1, <1>4, <1>5 DEF Policies
  <1> QED
    BY <1>6 DEF rules

\* Two policies are the same if their fields and rows are.
LEMMA SamePolicy ==
    ASSUME NEW p \in Policies, NEW q \in Policies, p.fields = q.fields,
           DOMAIN p.rules = DOMAIN q.rules, \A m \in DOMAIN p.rules : p.rules[m] = q.rules[m]
    PROVE  p = q
  <1>1. p.rules \in Rules /\ q.rules \in Rules
    BY DEF Policies
  <1>2. p.rules \in [DOMAIN p.rules -> Rows] /\ q.rules \in [DOMAIN p.rules -> Rows]
    BY <1>1, RulesParts
  <1>3. p.rules = q.rules
    BY <1>2
  <1> QED
    BY <1>3 DEF Policies

--------------------------------------------------------------------------------
(* What changes a form.                                                      *)

LEMMA ModelsChanged ==
    ASSUME form \in Forms, NEW next \in SUBSET Models
    PROVE  LET f == HandleModelsChange(next)
           IN  /\ f \in Forms /\ f.fields = form.fields /\ f.models = next
               /\ \A m \in next \cap form.models : f.prices[m] = form.prices[m]
  <1> DEFINE prices == [m \in next |-> IF m \in DOMAIN form.prices THEN form.prices[m] ELSE NewRow]
             f == HandleModelsChange(next)
  <1>1. /\ form.prices \in Rules /\ form.models \subseteq DOMAIN form.prices
        /\ form.fields \in Fields
    BY DEF Forms
  <1>2. \A m \in DOMAIN form.prices : form.prices[m] \in Rows
    BY <1>1, RuleTyped
  <1>3. prices \in [next -> Rows]
    BY <1>2, NewRowTyped
  <1>4. prices \in Rules /\ DOMAIN prices = next
    BY <1>3, RulesMade
  <1>5. \A m \in next \cap form.models : prices[m] = form.prices[m]
    BY <1>1
  <1>6. f = [form EXCEPT !.models = next, !.prices = prices]
    BY DEF HandleModelsChange
  <1> HIDE DEF prices, f
  <1>7. f.fields = form.fields /\ f.models = next /\ f.prices = prices
    BY <1>6 DEF Forms
  <1>8. f \in Forms
    BY <1>1, <1>4, <1>6 DEF Forms
  <1> QED
    BY <1>5, <1>7, <1>8 DEF f

LEMMA SyncedForm ==
    ASSUME form \in Forms, sync \in SUBSET Models
    PROVE  /\ Synced \in Forms /\ Synced.fields = form.fields /\ Synced.models = form.models
           /\ \A m \in form.models \ (sync \cap Priced) : Synced.prices[m] = form.prices[m]
  <1> DEFINE found == sync \cap Priced
             prices == [m \in DOMAIN form.prices \cup found |->
                           IF m \notin found THEN form.prices[m]
                           ELSE [price |-> "dev",
                                 mode |-> IF m \in DOMAIN form.prices THEN form.prices[m].mode
                                          ELSE NewRow.mode]]
  <1>1. /\ form.prices \in Rules /\ form.models \subseteq DOMAIN form.prices
        /\ form.fields \in Fields /\ form.models \subseteq Models
    BY DEF Forms
  <1>2. \A m \in DOMAIN form.prices : form.prices[m] \in Rows
    BY <1>1, RuleTyped
  <1>3. PICK S \in SUBSET Models : S = DOMAIN form.prices \cup found
    BY <1>1, RulesParts
  <1>4. \A row \in Rows : [price |-> "dev", mode |-> row.mode] \in Rows
    BY DEF Rows
  <1>5. prices \in [S -> Rows]
    BY <1>2, <1>3, <1>4, NewRowTyped
  <1>7. \A m \in form.models \ found : prices[m] = form.prices[m]
    BY <1>1
  <1>8. Synced = [form EXCEPT !.prices = prices]
    BY DEF Synced
  <1> HIDE DEF prices
  <1>6. prices \in Rules /\ DOMAIN prices = S
    BY <1>5, RulesMade
  <1>9. /\ Synced.fields = form.fields /\ Synced.models = form.models /\ Synced.prices = prices
        /\ Synced \in Forms
    BY <1>1, <1>3, <1>6, <1>8 DEF Forms
  <1> QED
    BY <1>7, <1>9

LEMMA PriceSet ==
    ASSUME form \in Forms, NEW m \in form.models, NEW row \in Offered(m, form.prices[m])
    PROVE  LET f == [form EXCEPT !.prices[m] = row]
           IN  /\ f \in Forms /\ f.fields = form.fields /\ f.models = form.models
               /\ \A k \in form.models \ {m} : f.prices[k] = form.prices[k]
  <1>1. /\ form.prices \in Rules /\ form.models \subseteq DOMAIN form.prices
        /\ form.fields \in Fields /\ form.models \subseteq Models
    BY DEF Forms
  <1>2. form.prices[m] \in Rows
    BY <1>1, RuleTyped
  <1>3. row \in Rows
    BY <1>2 DEF Offered, Rows
  <1>4. PICK prices : prices = [form.prices EXCEPT ![m] = row]
    OBVIOUS
  <1>5. prices \in [DOMAIN form.prices -> Rows] /\ \A k \in form.models \ {m} : prices[k] = form.prices[k]
    BY <1>1, <1>3, <1>4, RulesParts
  <1>6. prices \in Rules /\ DOMAIN prices = DOMAIN form.prices
    BY <1>1, <1>5, RulesParts, RulesMade
  <1>7. PICK f : f = [form EXCEPT !.prices = prices]
    OBVIOUS
  <1>8. f = [form EXCEPT !.prices[m] = row]
    BY <1>4, <1>7
  <1>9. f \in Forms /\ f.fields = form.fields /\ f.models = form.models /\ f.prices = prices
    BY <1>1, <1>6, <1>7 DEF Forms
  <1> QED
    BY <1>5, <1>8, <1>9

LEMMA ChipRemoved ==
    ASSUME form \in Forms, NEW m
    PROVE  LET f == [form EXCEPT !.models = @ \ {m}]
           IN  /\ f \in Forms /\ f.fields = form.fields /\ f.models = form.models \ {m}
               /\ f.prices = form.prices
  BY DEF Forms

LEMMA FieldTyped ==
    ASSUME form \in Forms
    PROVE  LET f == [form EXCEPT !.fields = "typed"]
           IN  /\ f \in Forms /\ f.fields = "typed" /\ f.models = form.models
               /\ f.prices = form.prices
  BY DEF Forms, Fields

--------------------------------------------------------------------------------
(* What the user means.                                                      *)

\* After touching the models S of the form: the rows of S as they are now.
LEMMA Touched ==
    ASSUME user \in Users, NEW f \in Forms, NEW S \in SUBSET Models
    PROVE  LET u == Touching(S, f)
               chosen == (DOMAIN user.meant.rules \ S) \cup (S \cap f.models)
           IN  /\ u \in Users /\ u.fresh = user.fresh /\ u.lost = user.lost /\ u.secret = user.secret
               /\ u.meant.fields = user.meant.fields /\ DOMAIN u.meant.rules = chosen
               /\ \A m \in chosen : u.meant.rules[m] = IF m \in S THEN f.prices[m]
                                                       ELSE user.meant.rules[m]
  <1> DEFINE now == Values(f).rules
             chosen == (DOMAIN user.meant.rules \ S) \cup (S \cap DOMAIN now)
             rules == [m \in chosen |-> IF m \in S THEN now[m] ELSE user.meant.rules[m]]
  <1>1. Values(f) \in Policies /\ DOMAIN now = f.models /\ \A m \in f.models : now[m] = f.prices[m]
    BY ValuesTyped
  <1>2. now \in Rules /\ user.meant.rules \in Rules /\ user.meant \in Policies
    BY <1>1 DEF Policies, Users
  <1>3. /\ \A m \in DOMAIN now : now[m] \in Rows
        /\ \A m \in DOMAIN user.meant.rules : user.meant.rules[m] \in Rows
        /\ DOMAIN user.meant.rules \subseteq Models
    BY <1>2, RuleTyped
  <1> HIDE DEF now
  <1>4. chosen \in SUBSET Models
    BY <1>3
  <1>5. rules \in [chosen -> Rows]
    BY <1>3
  <1>6. rules \in Rules /\ DOMAIN rules = chosen
    BY <1>4, <1>5, RulesMade
  <1>7. \A m \in chosen : rules[m] = IF m \in S THEN f.prices[m] ELSE user.meant.rules[m]
    BY <1>1
  <1>8. PICK u : u = Touching(S, f)
    OBVIOUS
  <1>9. u = [user EXCEPT !.meant.rules = rules]
    BY <1>8 DEF Touching, now
  <1> HIDE DEF rules, chosen
  <1>10. /\ u.meant.rules = rules /\ u.meant.fields = user.meant.fields /\ u.meant \in Policies
         /\ u.fresh = user.fresh /\ u.lost = user.lost /\ u.secret = user.secret
    BY <1>2, <1>6, <1>9 DEF Policies, Users
  <1>11. u \in Users
    BY <1>9, <1>10, <1>6 DEF Users, Policies
  <1> QED
    BY <1>1, <1>6, <1>7, <1>8, <1>10, <1>11 DEF chosen

\* If the form was as meant, and only the models S were touched, it still is.
LEMMA StillMeant ==
    ASSUME user \in Users, form \in Forms, Values(form) = user.meant,
           NEW f \in Forms, NEW S \in SUBSET Models, f.fields = form.fields,
           f.models \ S = form.models \ S, \A m \in form.models \ S : f.prices[m] = form.prices[m]
    PROVE  Values(f) = Touching(S, f).meant
  <1>1. PICK u : u = Touching(S, f)
    OBVIOUS
  <1>2. PICK meant : meant = u.meant
    OBVIOUS
  <1>3. /\ DOMAIN user.meant.rules = form.models /\ user.meant.fields = form.fields
        /\ \A m \in form.models : user.meant.rules[m] = form.prices[m]
    BY ValuesTyped
  <1>4. /\ u \in Users /\ meant.fields = user.meant.fields
        /\ DOMAIN meant.rules = (form.models \ S) \cup (S \cap f.models)
        /\ \A m \in DOMAIN meant.rules :
              meant.rules[m] = IF m \in S THEN f.prices[m] ELSE user.meant.rules[m]
    BY <1>1, <1>2, <1>3, Touched
  <1>5. PICK now : now = Values(f)
    OBVIOUS
  <1>6. /\ now \in Policies /\ now.fields = f.fields /\ DOMAIN now.rules = f.models
        /\ \A m \in f.models : now.rules[m] = f.prices[m]
    BY <1>5, ValuesTyped
  <1>7. meant \in Policies /\ now.fields = meant.fields
    BY <1>2, <1>3, <1>4, <1>6 DEF Users
  <1>8. DOMAIN now.rules = DOMAIN meant.rules
    BY <1>4, <1>6
  <1>9. \A m \in DOMAIN now.rules : now.rules[m] = meant.rules[m]
    BY <1>3, <1>4, <1>6, <1>8
  <1> QED
    BY <1>1, <1>2, <1>5, <1>6, <1>7, <1>8, <1>9, SamePolicy

--------------------------------------------------------------------------------
(* The history and the page it shows.                                        *)

LEMMA PushedEntries ==
    ASSUME Typed, NEW entry \in Entries
    PROVE  /\ Pushed(entry) \in Seq(Entries) /\ Len(Pushed(entry)) = at + 1
           /\ DOMAIN Pushed(entry) = 1 .. at + 1 /\ Pushed(entry)[at + 1] = entry
           /\ \A j \in 1 .. at : j \in DOMAIN hist /\ Pushed(entry)[j] = hist[j]
  <1>1. hist \in Seq(Entries) /\ at \in 1 .. Len(hist) /\ Len(hist) \in Nat
    BY DEF Typed
  <1>2. PICK past : past = SubSeq(hist, 1, at)
    OBVIOUS
  <1>3. past \in Seq(Entries) /\ Len(past) = at /\ \A j \in 1 .. at : past[j] = hist[j]
    BY <1>1, <1>2
  <1>4. Pushed(entry) = Append(past, entry)
    BY <1>2 DEF Pushed
  <1> QED
    BY <1>1, <1>3, <1>4

LEMMA ReplacedEntries ==
    ASSUME Typed, NEW rules \in Rules \cup {None}
    PROVE  /\ Replaced(rules) \in Seq(Entries) /\ DOMAIN Replaced(rules) = DOMAIN hist
           /\ Len(Replaced(rules)) = Len(hist)
           /\ Replaced(rules)[at] = [page |-> "form", rules |-> rules]
           /\ \A j \in DOMAIN hist : j # at => Replaced(rules)[j] = hist[j]
  <1>1. [page |-> "form", rules |-> rules] \in Entries
    BY DEF Entries
  <1> QED
    BY <1>1 DEF Typed, Replaced

LEMMA ShownTyped == ASSUME Typed PROVE Shown \in Entries
  BY DEF Typed, Shown

LEMMA ListTyped == List \in Entries /\ List.page = "list" /\ List.rules = None
  BY DEF List, Entries

LEMMA InitialTyped ==
    ASSUME NEW entry \in Entries, NEW kept \in Policies \cup {None}, NEW base \in Policies
    PROVE  LET start == IF kept # None THEN kept ELSE base
               initial == Initial(entry, kept, base)
           IN  /\ initial \in Policies /\ initial.fields = start.fields
               /\ initial.rules = IF entry.rules # None THEN entry.rules ELSE start.rules
  BY DEF Initial, Entries, Policies

\* What an opened form shows, keeps as its draft, ticks and stands for.
LEMMA Opened ==
    ASSUME Typed, NEW entry \in Entries, NEW kept \in Policies \cup {None},
           NEW base \in Policies, NEW u \in Users, Opens(entry, kept, base, u)
    PROVE  LET initial == Initial(entry, kept, base)
           IN  /\ view' = "open" /\ form' \in Forms /\ Values(form') = initial
               /\ form'.fields = initial.fields
               /\ draft' = IF kind = "plan" THEN None ELSE initial
               /\ pickers' \in [Layouts \cup {"page"} -> Pickers]
               /\ kind = "plan" => \A p \in Layouts : pickers'[p].selected = form'.models
               /\ user' \in Users /\ ~user'.fresh /\ user'.secret = u.secret
               /\ user'.meant = IF u.fresh THEN base ELSE u.meant
               /\ user'.lost = IF u.fresh /\ entry.rules = None /\ kept = None
                               THEN {} ELSE u.lost
  <1>1. PICK initial : initial = Initial(entry, kept, base)
    OBVIOUS
  <1>2. initial \in Policies
    BY <1>1, InitialTyped
  <1>3. initial.rules \in Rules /\ initial.fields \in Fields
    BY <1>2 DEF Policies
  <1>4. DOMAIN initial.rules \in SUBSET Models
    BY <1>3, RulesParts
  <1>5. /\ form' = [fields |-> initial.fields, models |-> DOMAIN initial.rules,
                    prices |-> initial.rules]
        /\ view' = "open" /\ draft' = IF kind = "plan" THEN None ELSE initial
    BY <1>1 DEF Opens
  <1>6. form' \in Forms /\ form'.fields = initial.fields /\ form'.models = DOMAIN initial.rules
        /\ form'.prices = initial.rules
    BY <1>3, <1>4, <1>5 DEF Forms
  <1>7. Values(form') = initial
    BY <1>2, <1>6, ValuesTyped, SamePolicy
  <1>8. pickers' = [p \in DOMAIN pickers |->
                       IF kind = "plan" /\ p \in Layouts
                       THEN [catalog |-> "loading", selected |-> form'.models] ELSE Unloaded]
    BY <1>1, <1>6 DEF Opens
  <1>9. DOMAIN pickers = Layouts \cup {"page"}
    BY DEF Typed
  <1>10. /\ pickers' \in [Layouts \cup {"page"} -> Pickers]
         /\ kind = "plan" => \A p \in Layouts : pickers'[p].selected = form'.models
    BY <1>4, <1>6, <1>8, <1>9 DEF Pickers, Unloaded
  <1>11. PICK lost : lost = IF u.fresh /\ entry.rules = None /\ kept = None THEN {} ELSE u.lost
    OBVIOUS
  <1>12. PICK meant : meant = IF u.fresh THEN base ELSE u.meant
    OBVIOUS
  <1>13. user' = [u EXCEPT !.meant = meant, !.fresh = FALSE, !.lost = lost]
    BY <1>11, <1>12 DEF Opens, Users
  <1>14. lost \subseteq {"history", "sync", "picker", "answer"} /\ meant \in Policies
    BY <1>11, <1>12 DEF Users
  <1>15. /\ user' \in Users /\ ~user'.fresh /\ user'.secret = u.secret
         /\ user'.meant = meant /\ user'.lost = lost
    BY <1>13, <1>14 DEF Users
  <1> QED
    BY <1>1, <1>5, <1>6, <1>7, <1>10, <1>11, <1>12, <1>15

\* What the router is told when it goes somewhere.
Moves(h, i, kept, u, c, a) ==
    /\ h \in Seq(Entries) /\ Len(h) <= MaxHistory /\ i \in DOMAIN h
    /\ \A j \in DOMAIN h : BroughtBy(h[j])
    /\ kept \in {draft, None}
    /\ u \in Users /\ u.secret = user.secret /\ user.lost \subseteq u.lost
    /\ user.fresh => u.fresh
    /\ c \in {call, NoCall}
    /\ a = action \/ (a = NoAction /\ action.op = "delete")
    /\ Goes(h, i, kept, u, c, a)
    /\ UNCHANGED <<kind, server, layout>>

LEMMA CallsTyped == NoCall \in Calls /\ ~NoCall.here /\ NoCall.values.fields = "blank"
  BY BlankTyped DEF NoCall, Calls

LEMMA ActionsTyped == NoAction \in Actions /\ ~NoAction.here /\ NoAction.phase = "idle"
                      /\ NoAction.op = "none"
  BY DEF NoAction, Actions

LEMMA LeavingTyped ==
    ASSUME NEW a \in Actions
    PROVE  /\ Leaving(a) \in Actions /\ ~Leaving(a).here
           /\ Leaving(a).phase # "idle" => Leaving(a).op = a.op /\ a.phase # "idle"
  BY ActionsTyped DEF Leaving, Actions

\* Going between entries of one page leaves what the page holds; going to a
\* form makes it, or waits for what it starts from; else it is closed.
LEMMA Gone ==
    ASSUME Typed, NEW h, NEW i, NEW kept, NEW u, NEW c, NEW a, Moves(h, i, kept, u, c, a)
    PROVE  /\ hist' = h /\ at' = i /\ h[i] \in Entries /\ kept \in Policies \cup {None}
           /\ sync' = IF h[i].page = Shown.page THEN sync ELSE None
           /\ h[i].page = Shown.page =>
                 /\ call' = c /\ action' = a /\ draft' = kept /\ user' = u
                 /\ UNCHANGED <<view, form, pickers>>
           /\ h[i].page # Shown.page =>
                 /\ call' \in Calls /\ ~call'.here /\ call'.values = c.values
                 /\ call'.phase = c.phase
                 /\ action' = Leaving(a)
                 /\ action' \in Actions /\ ~action'.here
                 /\ action'.phase # "idle" => action'.op = a.op /\ a.phase # "idle"
           /\ h[i].page # Shown.page /\ h[i].page = "form" /\ kind = "new" =>
                 Opens(h[i], kept, Blank, u)
           /\ h[i].page # Shown.page /\ h[i].page = "form" /\ kind # "new" =>
                 /\ view' = "loading" /\ draft' = kept /\ user' = u /\ form' = form
                 /\ pickers' \in [Layouts \cup {"page"} -> Pickers]
           /\ h[i].page # Shown.page /\ h[i].page # "form" =>
                 /\ view' = "closed" /\ form' = NoForm /\ draft' = kept
                 /\ pickers' \in [Layouts \cup {"page"} -> Pickers]
                 /\ user' \in Users /\ user'.meant = u.meant /\ user'.lost = u.lost
                 /\ user'.fresh <=> u.fresh \/ kind = "plan"
                 /\ user'.secret # "due"
  <1>1. /\ h[i] \in Entries /\ kept \in Policies \cup {None} /\ c \in Calls /\ a \in Actions
        /\ u \in Users /\ Goes(h, i, kept, u, c, a)
    BY CallsTyped, ActionsTyped DEF Moves, Typed
  <1>2. /\ hist' = h /\ at' = i
        /\ sync' = IF h[i].page = Shown.page THEN sync ELSE None
        /\ call' = IF h[i].page = Shown.page THEN c ELSE [c EXCEPT !.here = FALSE]
        /\ action' = IF h[i].page = Shown.page THEN a ELSE Leaving(a)
    BY <1>1 DEF Goes
  <1>3. PICK c0 : c0 = [c EXCEPT !.here = FALSE]
    OBVIOUS
  <1>4. c0 \in Calls /\ ~c0.here /\ c0.values = c.values /\ c0.phase = c.phase
    BY <1>1, <1>3 DEF Calls
  <1>5. h[i].page = Shown.page => /\ draft' = kept /\ user' = u
                                  /\ UNCHANGED <<view, form, pickers>>
    BY <1>1 DEF Goes
  <1>6. h[i].page # Shown.page /\ h[i].page = "form" /\ kind = "new" =>
           Opens(h[i], kept, Blank, u)
    BY <1>1 DEF Goes
  <1>7. ASSUME h[i].page # Shown.page, h[i].page = "form", kind # "new"
        PROVE  /\ view' = "loading" /\ draft' = kept /\ user' = u /\ form' = form
               /\ pickers' \in [Layouts \cup {"page"} -> Pickers]
    <2>1. /\ view' = "loading" /\ draft' = kept /\ user' = u /\ form' = form
          /\ pickers' = [pickers EXCEPT !["page"] = Unloaded]
      BY <1>1, <1>7 DEF Goes
    <2>2. Unloaded \in Pickers
      BY DEF Unloaded, Pickers
    <2> QED
      BY <2>1, <2>2 DEF Typed
  <1>8. ASSUME h[i].page # Shown.page, h[i].page # "form"
        PROVE  /\ view' = "closed" /\ form' = NoForm /\ draft' = kept
               /\ pickers' \in [Layouts \cup {"page"} -> Pickers]
               /\ user' \in Users /\ user'.meant = u.meant /\ user'.lost = u.lost
               /\ user'.fresh <=> u.fresh \/ kind = "plan"
               /\ user'.secret # "due"
    <2>1. /\ view' = "closed" /\ form' = NoForm /\ draft' = kept
          /\ user' = [u EXCEPT !.fresh = @ \/ kind = "plan",
                               !.secret = IF @ = "due" THEN "lost" ELSE @]
          /\ pickers' = [p \in DOMAIN pickers |->
                            IF h[i].page = "pick" /\ p = "page"
                            THEN [catalog |-> "loading", selected |-> DOMAIN h[i].rules]
                            ELSE Unloaded]
      BY <1>1, <1>8 DEF Goes
    <2>2. Unloaded \in Pickers
      BY DEF Unloaded, Pickers
    <2>3. PICK fresh : fresh = (u.fresh \/ kind = "plan")
      OBVIOUS
    <2>4. fresh \in BOOLEAN
      BY <1>1, <2>3 DEF Users
    <2>5. PICK secret : secret = IF u.secret = "due" THEN "lost" ELSE u.secret
      OBVIOUS
    <2>6. secret \in {"held", "lost"}
      BY <1>1, <2>5 DEF Users
    <2>7. user' = [u EXCEPT !.fresh = fresh, !.secret = secret]
      BY <1>1, <2>1, <2>3, <2>5 DEF Users
    <2>8. /\ user' \in Users /\ user'.meant = u.meant /\ user'.lost = u.lost
          /\ user'.fresh = fresh /\ user'.secret = secret
      BY <1>1, <2>4, <2>6, <2>7 DEF Users
    <2>9. pickers' \in [Layouts \cup {"page"} -> Pickers]
      <3>1. CASE h[i].page = "pick"
        <4>1. h[i].rules \in Rules
          BY <1>1, <3>1 DEF Moves, BroughtBy, Entries
        <4>2. DOMAIN h[i].rules \in SUBSET Models
          BY <4>1, RulesParts
        <4>3. PICK chosen \in SUBSET Models : chosen = DOMAIN h[i].rules
          BY <4>2
        <4>4. [catalog |-> "loading", selected |-> chosen] \in Pickers
          BY DEF Pickers
        <4>5. pickers' = [p \in Layouts \cup {"page"} |->
                             IF p = "page" THEN [catalog |-> "loading", selected |-> chosen]
                             ELSE Unloaded]
          BY <2>1, <3>1, <4>3 DEF Typed
        <4> QED
          BY <2>2, <4>4, <4>5
      <3>2. CASE h[i].page # "pick"
        BY <2>1, <2>2, <3>2 DEF Typed
      <3> QED
        BY <3>1, <3>2
    <2> QED
      BY <2>1, <2>3, <2>6, <2>8, <2>9
  <1>9. Leaving(a) \in Actions /\ ~Leaving(a).here
        /\ (Leaving(a).phase # "idle" => Leaving(a).op = a.op /\ a.phase # "idle")
    BY <1>1, LeavingTyped
  <1> QED
    BY <1>1, <1>2, <1>3, <1>4, <1>5, <1>6, <1>7, <1>8, <1>9

--------------------------------------------------------------------------------
(* What is typed and placed stays so.                                        *)

Basic == Typed /\ Placed /\ Brought

LEMMA MovedTyped ==
    ASSUME Typed, NEW entry
    PROVE  /\ Moved(entry) \in Users /\ user.lost \subseteq Moved(entry).lost
           /\ Moved(entry) = [user EXCEPT !.lost = Moved(entry).lost]
           /\ Moved(entry).lost = {} => /\ ~NotTakenUp /\ ~Stale(entry) /\ Moved(entry) = user
  <1>1. user \in Users
    BY DEF Typed
  <1>2. PICK moved : moved = [user EXCEPT !.lost = @ \cup {"history"}]
    OBVIOUS
  <1>3. /\ moved \in Users /\ user.lost \subseteq moved.lost /\ moved.lost # {}
        /\ moved = [user EXCEPT !.lost = moved.lost]
    BY <1>1, <1>2 DEF Users
  <1>4. user = [user EXCEPT !.lost = user.lost]
    BY <1>1 DEF Users
  <1>5. Moved(entry) = IF NotTakenUp \/ Stale(entry) THEN moved ELSE user
    BY <1>2 DEF Moved
  <1> QED
    BY <1>1, <1>3, <1>4, <1>5

LEMMA AnsweredTyped ==
    ASSUME Typed, NEW c, c.here \in BOOLEAN
    PROVE  /\ Answered(c) \in Users /\ user.lost \subseteq Answered(c).lost
           /\ Answered(c).secret = user.secret /\ Answered(c).meant = user.meant
           /\ Answered(c).fresh <=> user.fresh \/ c.here
           /\ Answered(c).lost = {} =>
                 user.lost = {} /\ (c.here \/ (draft = None /\ Shown.page = "list"))
  <1>1. PICK fresh \in BOOLEAN : fresh = (user.fresh \/ c.here)
    OBVIOUS
  <1>2. PICK lost : lost = IF c.here \/ (draft = None /\ Shown.page = "list") THEN user.lost
                           ELSE user.lost \cup {"answer"}
    OBVIOUS
  <1>3. fresh \in BOOLEAN /\ lost \subseteq {"history", "sync", "picker", "answer"}
    BY <1>1, <1>2 DEF Typed, Users
  <1>4. Answered(c) = [user EXCEPT !.fresh = fresh, !.lost = lost]
    BY <1>1, <1>2 DEF Answered, Typed, Users
  <1>5. /\ Answered(c) \in Users /\ Answered(c).secret = user.secret
        /\ Answered(c).meant = user.meant /\ Answered(c).fresh = fresh /\ Answered(c).lost = lost
    <2>1. PICK u : u = Answered(c)
      OBVIOUS
    <2>2. user \in Users /\ u = [user EXCEPT !.fresh = fresh, !.lost = lost]
      BY <1>4, <2>1 DEF Typed
    <2>3. /\ u \in Users /\ u.secret = user.secret /\ u.meant = user.meant
          /\ u.fresh = fresh /\ u.lost = lost
      BY <1>3, <2>2 DEF Users
    <2> QED
      BY <2>1, <2>3
  <1>6. user.lost \subseteq lost
    BY <1>2
  <1>7. lost = {} => user.lost = {} /\ (c.here \/ (draft = None /\ Shown.page = "list"))
    BY <1>2
  <1>8. fresh <=> user.fresh \/ c.here
    BY <1>1
  <1> QED
    BY <1>5, <1>6, <1>7, <1>8

\* A new entry is pushed, or the one in force replaced, or none changed.
LEMMA PushMoves ==
    ASSUME Basic, NEW entry \in Entries, BroughtBy(entry), NEW kept \in {draft, None},
           NEW u \in Users, u.secret = user.secret, user.lost \subseteq u.lost,
           user.fresh => u.fresh,
           NEW c \in {call, NoCall}, NEW a, a = action \/ (a = NoAction /\ action.op = "delete"),
           at < MaxHistory, Goes(Pushed(entry), at + 1, kept, u, c, a),
           UNCHANGED <<kind, server, layout>>
    PROVE  Moves(Pushed(entry), at + 1, kept, u, c, a) /\ Pushed(entry)[at + 1] = entry
  <1>1. /\ Pushed(entry) \in Seq(Entries) /\ Len(Pushed(entry)) = at + 1
        /\ DOMAIN Pushed(entry) = 1 .. at + 1 /\ Pushed(entry)[at + 1] = entry
        /\ \A j \in 1 .. at : j \in DOMAIN hist /\ Pushed(entry)[j] = hist[j]
    BY PushedEntries DEF Basic
  <1>2. at \in Nat
    BY DEF Basic, Typed
  <1>3. Len(Pushed(entry)) <= MaxHistory /\ at + 1 \in DOMAIN Pushed(entry)
    BY <1>1, <1>2
  <1>4. \A j \in DOMAIN Pushed(entry) : BroughtBy(Pushed(entry)[j])
    <2>1. TAKE j \in DOMAIN Pushed(entry)
    <2>2. j \in 1 .. at \/ j = at + 1
      BY <1>1, <1>2, <2>1
    <2> QED
      BY <1>1, <2>2 DEF Basic, Brought
  <1> QED
    BY <1>1, <1>3, <1>4 DEF Moves

LEMMA ReplaceMoves ==
    ASSUME Basic, kind # "plan", NEW rules \in Rules \cup {None},
           NEW u \in Users, u.secret = user.secret, user.lost \subseteq u.lost,
           user.fresh => u.fresh,
           Goes(Replaced(rules), at, draft, u, call, action),
           UNCHANGED <<kind, server, layout>>
    PROVE  /\ Moves(Replaced(rules), at, draft, u, call, action)
           /\ Replaced(rules)[at] = [page |-> "form", rules |-> rules]
  <1>1. /\ Replaced(rules) \in Seq(Entries) /\ DOMAIN Replaced(rules) = DOMAIN hist
        /\ Len(Replaced(rules)) = Len(hist)
        /\ Replaced(rules)[at] = [page |-> "form", rules |-> rules]
        /\ \A j \in DOMAIN hist : j # at => Replaced(rules)[j] = hist[j]
    BY ReplacedEntries DEF Basic
  <1>2. BroughtBy([page |-> "form", rules |-> rules])
    BY DEF BroughtBy
  <1>3. \A j \in DOMAIN Replaced(rules) : BroughtBy(Replaced(rules)[j])
    BY <1>1, <1>2 DEF Basic, Brought
  <1> QED
    BY <1>1, <1>3 DEF Moves, Basic, Typed

LEMMA OpenFormMoves ==
    ASSUME Basic, OpenForm
    PROVE  LET entry == [page |-> "form", rules |-> None]
           IN  /\ Moves(Pushed(entry), at + 1, draft, user, call, action)
               /\ Pushed(entry)[at + 1] = entry
  <1>1. PICK entry : entry = [page |-> "form", rules |-> None]
    OBVIOUS
  <1>2. entry \in Entries /\ BroughtBy(entry)
    BY <1>1 DEF Entries, BroughtBy
  <1>3. /\ at < MaxHistory /\ Goes(Pushed(entry), at + 1, draft, user, call, action)
        /\ UNCHANGED <<kind, server, layout>>
    BY <1>1 DEF OpenForm, Push
  <1>4. user \in Users
    BY DEF Basic, Typed
  <1> QED
    BY <1>1, <1>2, <1>3, <1>4, PushMoves

LEMMA LeaveMoves ==
    ASSUME Basic, Leave
    PROVE  /\ Moves(Pushed(List), at + 1, draft, Moved(List), call, action)
           /\ Pushed(List)[at + 1] = List
  <1>1. BroughtBy(List)
    BY ListTyped DEF BroughtBy
  <1>2. /\ Moved(List) \in Users /\ user.lost \subseteq Moved(List).lost
        /\ Moved(List).secret = user.secret /\ Moved(List).fresh = user.fresh
    <2>1. Moved(List) = [user EXCEPT !.lost = Moved(List).lost] /\ user \in Users
      BY MovedTyped DEF Basic, Typed
    <2> QED
      BY <2>1, MovedTyped DEF Basic, Users
  <1>3. /\ at < MaxHistory /\ Goes(Pushed(List), at + 1, draft, Moved(List), call, action)
        /\ UNCHANGED <<kind, server, layout>>
    BY DEF Leave, Push
  <1> QED
    BY <1>1, <1>2, <1>3, ListTyped, PushMoves

LEMMA TraverseMoves ==
    ASSUME Basic, Traverse
    PROVE  \E i \in DOMAIN hist \cap {at - 1, at + 1} :
               Moves(hist, i, draft, Moved(hist[i]), call, action)
  <1>1. PICK i \in DOMAIN hist \cap {at - 1, at + 1} :
           Goes(hist, i, draft, Moved(hist[i]), call, action)
    BY DEF Traverse
  <1>2. /\ Moved(hist[i]) \in Users /\ user.lost \subseteq Moved(hist[i]).lost
        /\ Moved(hist[i]).secret = user.secret /\ Moved(hist[i]).fresh = user.fresh
    <2>1. Moved(hist[i]) = [user EXCEPT !.lost = Moved(hist[i]).lost] /\ user \in Users
      BY MovedTyped DEF Basic, Typed
    <2> QED
      BY <2>1, MovedTyped DEF Basic, Users
  <1>3. Moves(hist, i, draft, Moved(hist[i]), call, action)
    BY <1>1, <1>2 DEF Traverse, Moves, Basic, Typed, Brought
  <1> QED
    BY <1>3

LEMMA CancelMoves ==
    ASSUME Basic, Cancel
    PROVE  /\ Moves(Pushed(List), at + 1, None, [user EXCEPT !.fresh = TRUE], call, action)
           /\ Pushed(List)[at + 1] = List
  <1>1. BroughtBy(List)
    BY ListTyped DEF BroughtBy
  <1>2. PICK u : u = [user EXCEPT !.fresh = TRUE]
    OBVIOUS
  <1>3. u \in Users /\ u.secret = user.secret /\ u.lost = user.lost /\ u.fresh
    BY <1>2 DEF Basic, Typed, Users
  <1>4. /\ at < MaxHistory /\ Goes(Pushed(List), at + 1, None, u, call, action)
        /\ UNCHANGED <<kind, server, layout>>
    BY <1>2 DEF Cancel, Push
  <1> QED
    BY <1>1, <1>2, <1>3, <1>4, ListTyped, PushMoves

LEMMA AddModelMoves ==
    ASSUME Basic, AddModel
    PROVE  LET entry == [page |-> "pick", rules |-> Values(form).rules]
           IN  /\ Moves(Pushed(entry), at + 1, draft, user, call, action)
               /\ Pushed(entry)[at + 1] = entry
  <1>1. PICK entry : entry = [page |-> "pick", rules |-> Values(form).rules]
    OBVIOUS
  <1>2. Values(form).rules \in Rules
    BY ValuesTyped DEF Basic, Typed, Policies
  <1>3. entry \in Entries /\ BroughtBy(entry)
    BY <1>1, <1>2 DEF Entries, BroughtBy, AddModel
  <1>4. /\ at < MaxHistory /\ Goes(Pushed(entry), at + 1, draft, user, call, action)
        /\ UNCHANGED <<kind, server, layout>>
    BY <1>1 DEF AddModel, Push
  <1>5. user \in Users
    BY DEF Basic, Typed
  <1> QED
    BY <1>1, <1>3, <1>4, <1>5, PushMoves

LEMMA PickBackMoves ==
    ASSUME Basic, PickBack
    PROVE  /\ Moves(Replaced(None), at, draft, user, call, action) /\ kind # "plan"
           /\ Replaced(None)[at] = [page |-> "form", rules |-> None]
  <1>1. kind # "plan"
    BY DEF PickBack, Basic, Brought, BroughtBy, Shown, Typed
  <1>2. /\ Goes(Replaced(None), at, draft, user, call, action)
        /\ UNCHANGED <<kind, server, layout>>
    BY DEF PickBack
  <1>3. user \in Users
    BY DEF Basic, Typed
  <1> QED
    BY <1>1, <1>2, <1>3, ReplaceMoves

\* The selection and the models it started from.
LEMMA PickedTyped ==
    ASSUME NEW selected \in SUBSET Models, NEW initial \in Rules
    PROVE  /\ BuildPickedModels(selected, initial) \in Rules
           /\ DOMAIN BuildPickedModels(selected, initial) = selected
  <1>1. PICK rules : rules = BuildPickedModels(selected, initial)
    OBVIOUS
  <1>2. rules = [m \in selected |-> IF m \in DOMAIN initial THEN initial[m] ELSE NewRow]
    BY <1>1 DEF BuildPickedModels
  <1>3. rules \in [selected -> Rows]
    BY <1>2, NewRowTyped, RuleTyped
  <1> QED
    BY <1>1, <1>3, RulesMade

LEMMA PickDoneMoves ==
    ASSUME Basic, PickDone
    PROVE  LET selected == pickers["page"].selected
               rules == BuildPickedModels(selected, Shown.rules)
               meant == BuildPickedModels(selected, user.meant.rules)
           IN  /\ kind # "plan" /\ rules \in Rules /\ meant \in Rules
               /\ Moves(Replaced(rules), at, draft, [user EXCEPT !.meant.rules = meant],
                        call, action)
               /\ Replaced(rules)[at] = [page |-> "form", rules |-> rules]
  <1>1. PICK selected : selected = pickers["page"].selected
    OBVIOUS
  <1>2. PICK rules : rules = BuildPickedModels(selected, Shown.rules)
    OBVIOUS
  <1>3. PICK meant : meant = BuildPickedModels(selected, user.meant.rules)
    OBVIOUS
  <1>4. PICK u : u = [user EXCEPT !.meant.rules = meant]
    OBVIOUS
  <1>5. kind # "plan" /\ Shown.rules \in Rules /\ user \in Users /\ user.meant \in Policies
    BY ShownTyped DEF PickDone, Basic, Brought, BroughtBy, Shown, Typed, Entries, Users
  <1>6. selected \in SUBSET Models
    BY <1>1 DEF Basic, Typed, Pickers
  <1>7. user.meant.rules \in Rules
    BY <1>5 DEF Policies
  <1>8. rules \in Rules /\ meant \in Rules
    BY <1>2, <1>3, <1>5, <1>6, <1>7, PickedTyped
  <1>9. u \in Users /\ u.secret = user.secret /\ u.lost = user.lost /\ u.fresh = user.fresh
    BY <1>4, <1>5, <1>8 DEF Users, Policies
  <1>10. /\ Goes(Replaced(rules), at, draft, u, call, action)
         /\ UNCHANGED <<kind, server, layout>>
    <2>1. u = [user EXCEPT !.meant.rules =
                  [m \in selected |-> IF m \in DOMAIN @ THEN @[m] ELSE NewRow]]
      BY <1>3, <1>4, <1>5 DEF Users, Policies, BuildPickedModels
    <2> QED
      BY <1>1, <1>2, <2>1 DEF PickDone
  <1> QED
    BY <1>1, <1>2, <1>3, <1>4, <1>5, <1>8, <1>9, <1>10, ReplaceMoves

LEMMA ClosePlainMoves ==
    ASSUME Basic, ClosePlain
    PROVE  /\ Moves(Pushed(List), at + 1, draft, user, call, action)
           /\ Pushed(List)[at + 1] = List
  <1>1. BroughtBy(List) /\ user \in Users
    BY ListTyped DEF BroughtBy, Basic, Typed
  <1>2. /\ at < MaxHistory /\ Goes(Pushed(List), at + 1, draft, user, call, action)
        /\ UNCHANGED <<kind, server, layout>>
    BY DEF ClosePlain, Push
  <1> QED
    BY <1>1, <1>2, ListTyped, PushMoves

LEMMA SavedMoves ==
    ASSUME Basic, Saved
    PROVE  /\ Moves(Pushed(List), at + 1, None, Answered(call), NoCall, action)
           /\ Pushed(List)[at + 1] = List
  <1>1. BroughtBy(List)
    BY ListTyped DEF BroughtBy
  <1>2. call.here \in BOOLEAN
    BY DEF Basic, Typed, Calls
  <1>3. /\ Answered(call) \in Users /\ user.lost \subseteq Answered(call).lost
        /\ Answered(call).secret = user.secret /\ (user.fresh => Answered(call).fresh)
    BY <1>2, AnsweredTyped DEF Basic
  <1>4. /\ at < MaxHistory /\ Goes(Pushed(List), at + 1, None, Answered(call), NoCall, action)
        /\ UNCHANGED <<kind, server, layout>>
    BY DEF Saved
  <1> QED
    BY <1>1, <1>3, <1>4, ListTyped, PushMoves

LEMMA DeletedMoves ==
    ASSUME Basic, Deleted
    PROVE  /\ Moves(Pushed(List), at + 1, None, Answered(action), call, NoAction)
           /\ Pushed(List)[at + 1] = List
  <1>1. BroughtBy(List)
    BY ListTyped DEF BroughtBy
  <1>2. action.here \in BOOLEAN
    BY DEF Basic, Typed, Actions
  <1>3. /\ Answered(action) \in Users /\ user.lost \subseteq Answered(action).lost
        /\ Answered(action).secret = user.secret /\ (user.fresh => Answered(action).fresh)
    BY <1>2, AnsweredTyped DEF Basic
  <1>4. /\ at < MaxHistory /\ Goes(Pushed(List), at + 1, None, Answered(action), call, NoAction)
        /\ UNCHANGED <<kind, server, layout>> /\ action.op = "delete"
    BY DEF Deleted
  <1> QED
    BY <1>1, <1>3, <1>4, ListTyped, PushMoves

LEMMA InitBasic == Init => Basic
  <1> SUFFICES ASSUME Init PROVE Basic
    OBVIOUS
  <1>1. PICK chosen \in SUBSET Models, planned \in BOOLEAN :
           server = [own |-> IF kind = "new" THEN Blank ELSE SetPolicy(chosen),
                     exists |-> TRUE, planned |-> planned]
    BY DEF Init
  <1>2. PICK own : own = IF kind = "new" THEN Blank ELSE SetPolicy(chosen)
    OBVIOUS
  <1>3. own \in Policies
    BY <1>2, BlankTyped, SetPolicyTyped
  <1>4. server \in [own : Policies, exists : BOOLEAN, planned : BOOLEAN]
    BY <1>1, <1>2, <1>3
  <1>5. List \in Entries /\ hist = <<List>> /\ at = 1
    BY ListTyped DEF Init
  <1>6. /\ hist \in Seq(Entries) /\ at \in DOMAIN hist /\ Len(hist) <= MaxHistory
        /\ DOMAIN hist = {1} /\ Shown = List
    BY <1>5 DEF Shown
  <1>7. Unloaded \in Pickers
    BY DEF Unloaded, Pickers
  <1>8. user \in Users
    BY BlankTyped DEF Init, Users
  <1>9. Typed
    BY <1>4, <1>6, <1>7, <1>8, NoFormTyped, CallsTyped, ActionsTyped DEF Init, Typed
  <1>10. Placed
    BY <1>6, ListTyped, CallsTyped, ActionsTyped DEF Init, Placed
  <1>11. Brought
    BY <1>5, <1>6, ListTyped DEF Brought, BroughtBy
  <1> QED
    BY <1>9, <1>10, <1>11 DEF Basic

\* Wherever the router goes, types and places are kept.
LEMMA MovesBasic ==
    ASSUME Basic, NEW h, NEW i, NEW kept, NEW u, NEW c, NEW a, Moves(h, i, kept, u, c, a)
    PROVE  Basic'
  <1>1. Typed /\ Placed /\ Brought
    BY DEF Basic
  <1>2. /\ h \in Seq(Entries) /\ Len(h) <= MaxHistory /\ i \in DOMAIN h
        /\ \A j \in DOMAIN h : BroughtBy(h[j])
        /\ c \in {call, NoCall} /\ (a = action \/ a = NoAction)
        /\ u \in Users /\ UNCHANGED <<kind, server, layout>>
    BY DEF Moves
  <1>3. /\ hist' = h /\ at' = i /\ h[i] \in Entries /\ kept \in Policies \cup {None}
        /\ sync' = IF h[i].page = Shown.page THEN sync ELSE None
    BY <1>1, Gone
  <1>4. Brought' /\ Shown' = h[i]
    BY <1>2, <1>3 DEF Brought, BroughtBy, Shown
  <1>5. c \in Calls /\ a \in Actions
    BY <1>1, <1>2, CallsTyped, ActionsTyped DEF Typed
  <1>6. CASE h[i].page = Shown.page
    <2>1. /\ call' = c /\ action' = a /\ draft' = kept /\ user' = u
          /\ UNCHANGED <<view, form, pickers>>
      BY <1>1, <1>6, Gone
    <2>2. Typed'
      BY <1>1, <1>2, <1>3, <1>5, <1>6, <2>1 DEF Typed
    <2>3. Placed'
      BY <1>1, <1>2, <1>3, <1>4, <1>6, <2>1, CallsTyped, ActionsTyped DEF Placed
    <2> QED
      BY <1>4, <2>2, <2>3 DEF Basic
  <1>7. CASE h[i].page # Shown.page
    <2>1. /\ call' \in Calls /\ ~call'.here /\ action' \in Actions /\ ~action'.here
          /\ action'.phase # "idle" => action'.op = a.op /\ a.phase # "idle"
          /\ sync' = None
      BY <1>1, <1>3, <1>7, Gone
    <2>2. /\ form' \in Forms /\ draft' \in Policies \cup {None} /\ user' \in Users
          /\ pickers' \in [Layouts \cup {"page"} -> Pickers]
          /\ view' \in {"closed", "loading", "open"}
          /\ (view' = "closed") <=> (h[i].page # "form")
      <3>1. CASE h[i].page = "form" /\ kind = "new"
        <4>1. Opens(h[i], kept, Blank, u)
          BY <1>1, <1>7, <3>1, Gone
        <4>2. PICK initial : initial = Initial(h[i], kept, Blank)
          OBVIOUS
        <4>3. initial \in Policies
          BY <1>3, <4>2, BlankTyped, InitialTyped
        <4>4. /\ view' = "open" /\ form' \in Forms
              /\ draft' = IF kind = "plan" THEN None ELSE initial
              /\ pickers' \in [Layouts \cup {"page"} -> Pickers] /\ user' \in Users
          BY <1>1, <1>2, <1>3, <4>1, <4>2, BlankTyped, Opened
        <4> QED
          BY <3>1, <4>3, <4>4
      <3>2. CASE h[i].page = "form" /\ kind # "new"
        <4>1. /\ view' = "loading" /\ draft' = kept /\ user' = u /\ form' = form
              /\ pickers' \in [Layouts \cup {"page"} -> Pickers]
          BY <1>1, <1>7, <3>2, Gone
        <4> QED
          BY <1>1, <1>2, <1>3, <3>2, <4>1 DEF Typed
      <3>3. CASE h[i].page # "form"
        <4>1. /\ view' = "closed" /\ form' = NoForm /\ draft' = kept
              /\ pickers' \in [Layouts \cup {"page"} -> Pickers] /\ user' \in Users
          BY <1>1, <1>7, <3>3, Gone
        <4> QED
          BY <1>3, <3>3, <4>1, NoFormTyped
      <3> QED
        BY <3>1, <3>2, <3>3
    <2>3. Typed'
      BY <1>1, <1>2, <1>3, <2>1, <2>2 DEF Typed
    <2>4. Placed'
      BY <1>1, <1>2, <1>4, <2>1, <2>2, ActionsTyped DEF Placed
    <2> QED
      BY <1>4, <2>3, <2>4 DEF Basic
  <1> QED
    BY <1>6, <1>7

\* What writing on the form does to the rest.
Written ==
    /\ form' \in Forms /\ form'.fields \in {form.fields, "typed"}
    /\ draft' = IF kind = "plan" THEN None ELSE Values(form')
    /\ pickers' \in [Layouts \cup {"page"} -> Pickers]
    /\ user' \in Users /\ user'.secret = user.secret
    /\ user'.fresh = user.fresh /\ user.lost \subseteq user'.lost
    /\ sync' \in {sync, None}
    /\ UNCHANGED <<kind, server, hist, at, view, layout, call, action>>
    /\ Open \/ user'.lost # {}
    \* The form is as meant if it was, and ticked are the models it lists.
    /\ Values(form) = user.meant /\ user'.lost = {} => Values(form') = user'.meant
    /\ kind = "plan" /\ pickers[layout].selected = form.models /\ "picker" \notin user'.lost
          => pickers'[layout].selected = form'.models

LEMMA WrittenBasic ==
    ASSUME Basic, Written
    PROVE  Basic'
  <1>1. /\ form' \in Forms /\ draft' = IF kind = "plan" THEN None ELSE Values(form')
        /\ pickers' \in [Layouts \cup {"page"} -> Pickers] /\ user' \in Users
        /\ sync' \in {sync, None}
        /\ UNCHANGED <<kind, server, hist, at, view, layout, call, action>>
    BY DEF Written
  <1>2. draft' \in Policies \cup {None}
    BY <1>1, ValuesTyped
  <1>3. Typed'
    BY <1>1, <1>2 DEF Basic, Typed
  <1>4. Placed' /\ Brought'
    BY <1>1 DEF Basic, Placed, Brought, BroughtBy, Shown
  <1> QED
    BY <1>3, <1>4 DEF Basic

LEMMA EditFieldWrites ==
    ASSUME Basic, EditField
    PROVE  Written
  <1>1. form' \in Forms /\ form'.fields = "typed"
    BY FieldTyped DEF Basic, Typed, EditField, Edits
  <1>2. PICK u : u = [user EXCEPT !.meant.fields = "typed"]
    OBVIOUS
  <1>3. user' = u
    BY <1>2 DEF EditField, Edits
  <1>4. /\ user'.secret = user.secret /\ user' \in Users /\ user'.fresh = user.fresh
        /\ user'.lost = user.lost /\ user'.meant.fields = "typed"
        /\ user'.meant.rules = user.meant.rules /\ user'.meant \in Policies
    BY <1>2, <1>3 DEF Basic, Typed, Users, Policies, Fields
  <1>5. form'.models = form.models /\ form'.prices = form.prices
    BY FieldTyped DEF Basic, Typed, EditField, Edits
  <1>6. ASSUME Values(form) = user.meant PROVE Values(form') = user'.meant
    <2>1. Values(form').rules = Values(form).rules
      BY <1>5 DEF Values
    <2>2. Values(form') \in Policies /\ Values(form').fields = "typed"
      BY <1>1, ValuesTyped
    <2> QED
      BY <1>4, <1>6, <2>1, <2>2, SamePolicy
  <1> QED
    BY <1>1, <1>4, <1>5, <1>6 DEF Written, EditField, Edits, page, Basic, Typed

LEMMA SetPriceWrites ==
    ASSUME Basic, SetPrice
    PROVE  Written
  <1>0. PICK m \in form.models : \E row \in Offered(m, form.prices[m]) :
           Edits([form EXCEPT !.prices[m] = row], Touching({m}, [form EXCEPT !.prices[m] = row]))
    BY DEF SetPrice
  <1>1. PICK row \in Offered(m, form.prices[m]) :
           Edits([form EXCEPT !.prices[m] = row], Touching({m}, [form EXCEPT !.prices[m] = row]))
    BY <1>0
  <1>2. PICK f : f = [form EXCEPT !.prices[m] = row]
    OBVIOUS
  <1>3. form \in Forms /\ user \in Users /\ {m} \in SUBSET Models
    BY DEF Basic, Typed, Forms
  <1>4. /\ f \in Forms /\ f.fields = form.fields /\ f.models = form.models
        /\ \A k \in form.models \ {m} : f.prices[k] = form.prices[k]
    BY <1>2, <1>3, PriceSet
  <1>5. PICK u : u = Touching({m}, f)
    OBVIOUS
  <1>6. u \in Users /\ u.secret = user.secret /\ u.fresh = user.fresh /\ u.lost = user.lost
    BY <1>3, <1>4, <1>5, Touched
  <1>8. Values(form) = user.meant => Values(f) = u.meant
    BY <1>3, <1>4, <1>5, StillMeant
  <1>7. Edits(f, u) /\ UNCHANGED <<pickers, sync>>
    BY <1>1, <1>2, <1>5 DEF SetPrice
  <1> QED
    BY <1>4, <1>6, <1>7, <1>8 DEF Written, SetPrice, Edits, page, Basic, Typed

LEMMA RemoveChipWrites ==
    ASSUME Basic, RemoveChip
    PROVE  Written
  <1>1. PICK m \in form.models :
           Edits([form EXCEPT !.models = @ \ {m}], Touching({m}, [form EXCEPT !.models = @ \ {m}]))
    BY DEF RemoveChip
  <1>2. PICK f : f = [form EXCEPT !.models = @ \ {m}]
    OBVIOUS
  <1>3. form \in Forms /\ user \in Users /\ {m} \in SUBSET Models
    BY DEF Basic, Typed, Forms
  <1>4. /\ f \in Forms /\ f.fields = form.fields /\ f.models = form.models \ {m}
        /\ f.prices = form.prices
    BY <1>2, <1>3, ChipRemoved
  <1>5. PICK u : u = Touching({m}, f)
    OBVIOUS
  <1>6. u \in Users /\ u.secret = user.secret /\ u.fresh = user.fresh /\ u.lost = user.lost
    BY <1>3, <1>4, <1>5, Touched
  <1>8. Values(form) = user.meant => Values(f) = u.meant
    BY <1>3, <1>4, <1>5, StillMeant
  <1>7. Edits(f, u) /\ UNCHANGED <<pickers, sync>>
    BY <1>1, <1>2, <1>5 DEF RemoveChip
  <1> QED
    BY <1>4, <1>6, <1>7, <1>8 DEF Written, RemoveChip, Edits, page, Basic, Typed

LEMMA SyncAnswersWrites ==
    ASSUME Basic, SyncAnswers
    PROVE  Written
  <1>1. form \in Forms /\ user \in Users /\ sync \in SUBSET Models
    BY DEF Basic, Typed, SyncAnswers
  <1>2. /\ Synced \in Forms /\ Synced.fields = form.fields /\ Synced.models = form.models
        /\ \A m \in form.models \ (sync \cap Priced) : Synced.prices[m] = form.prices[m]
    BY <1>1, SyncedForm
  <1>3. PICK u : u = IF Open THEN Touching(sync \cap Priced \cap form.models, Synced)
                     ELSE [user EXCEPT !.lost = @ \cup {"sync"}]
    OBVIOUS
  <1>4. /\ u \in Users /\ u.secret = user.secret /\ u.fresh = user.fresh
        /\ user.lost \subseteq u.lost /\ (Open \/ u.lost # {})
        /\ Open /\ Values(form) = user.meant => Values(Synced) = u.meant
    <2>1. CASE Open
      <3>1. PICK S \in SUBSET Models : S = sync \cap Priced \cap form.models
        BY <1>1
      <3>2. u = Touching(S, Synced)
        BY <1>3, <2>1, <3>1
      <3>3. /\ u \in Users /\ u.secret = user.secret /\ u.fresh = user.fresh
            /\ u.lost = user.lost
        BY <1>1, <1>2, <3>2, Touched
      <3>4. \A m \in form.models \ S : Synced.prices[m] = form.prices[m]
        BY <1>2, <3>1
      <3>5. PICK f : f = Synced
        OBVIOUS
      <3>6. Values(form) = user.meant => Values(f) = Touching(S, f).meant
        BY <1>1, <1>2, <3>4, <3>5, StillMeant
      <3> QED
        BY <2>1, <3>2, <3>3, <3>5, <3>6
    <2>2. CASE ~Open
      BY <1>1, <1>3, <2>2 DEF Users
    <2> QED
      BY <2>1, <2>2
  <1>5. Edits(Synced, u) /\ UNCHANGED pickers /\ sync' = None
    BY <1>3 DEF SyncAnswers
  <1> QED
    BY <1>2, <1>4, <1>5 DEF Written, Edits, page, Basic, Typed

LEMMA PickerLoadedWrites ==
    ASSUME Basic, PickerLoaded
    PROVE  Written
  <1>1. PICK p \in Layouts, how \in {"ready", "failed"} :
           /\ pickers' = [pickers EXCEPT ![p].catalog = how]
           /\ Edits(HandleModelsChange(pickers[p].selected),
                    IF pickers[p].selected = form.models THEN user
                    ELSE [user EXCEPT !.lost = @ \cup {"picker"}])
    BY DEF PickerLoaded
  <1>2. /\ form \in Forms /\ user \in Users /\ pickers[p].selected \in SUBSET Models
        /\ pickers' \in [Layouts \cup {"page"} -> Pickers]
    BY <1>1 DEF Basic, Typed, Pickers
  <1>3. PICK f : f = HandleModelsChange(pickers[p].selected)
    OBVIOUS
  <1>4. /\ f \in Forms /\ f.fields = form.fields /\ f.models = pickers[p].selected
        /\ \A m \in pickers[p].selected \cap form.models : f.prices[m] = form.prices[m]
    BY <1>2, <1>3, ModelsChanged
  <1>5. PICK u : u = IF pickers[p].selected = form.models THEN user
                     ELSE [user EXCEPT !.lost = @ \cup {"picker"}]
    OBVIOUS
  <1>6. /\ u \in Users /\ u.secret = user.secret /\ u.fresh = user.fresh
        /\ user.lost \subseteq u.lost
        /\ pickers[p].selected # form.models => "picker" \in u.lost
        /\ pickers[p].selected = form.models => u = user
    BY <1>2, <1>5 DEF Users
  <1>7. Edits(f, u) /\ UNCHANGED sync
    BY <1>1, <1>3, <1>5 DEF PickerLoaded
  <1>8. ASSUME Values(form) = user.meant, u.lost = {} PROVE Values(f) = u.meant
    <2>1. pickers[p].selected = form.models /\ u = user
      BY <1>6, <1>8
    <2>2. /\ Values(f) \in Policies /\ Values(form) \in Policies
          /\ Values(f).fields = Values(form).fields
          /\ DOMAIN Values(f).rules = DOMAIN Values(form).rules
          /\ \A m \in DOMAIN Values(f).rules : Values(f).rules[m] = Values(form).rules[m]
      BY <1>2, <1>4, <2>1, ValuesTyped
    <2> QED
      BY <1>8, <2>1, <2>2, SamePolicy
  <1>9. layout \in Layouts /\ pickers'[layout].selected = pickers[layout].selected
    BY <1>1 DEF Basic, Typed, Pickers
  <1> QED
    BY <1>2, <1>4, <1>6, <1>7, <1>8, <1>9 DEF Written, PickerLoaded, Edits, page, Basic, Typed

LEMMA FlippedTyped ==
    ASSUME NEW selected \in SUBSET Models, NEW next \in Flipped(selected)
    PROVE  next \in SUBSET Models
  BY DEF Flipped

LEMMA PickerToggleWrites ==
    ASSUME Basic, PickerToggle
    PROVE  Written
  <1>1. PICK next \in Flipped(pickers[layout].selected) :
           /\ pickers' = [pickers EXCEPT ![layout].selected = next]
           /\ Edits(HandleModelsChange(next),
                    Touching((next \ form.models) \cup (form.models \ next),
                             HandleModelsChange(next)))
    BY DEF PickerToggle
  <1>2. form \in Forms /\ user \in Users /\ pickers[layout].selected \in SUBSET Models
    BY DEF Basic, Typed, Pickers
  <1>3. next \in SUBSET Models
    BY <1>2, FlippedTyped
  <1>4. pickers' \in [Layouts \cup {"page"} -> Pickers]
    BY <1>1, <1>3 DEF Basic, Typed, Pickers
  <1>5. PICK f : f = HandleModelsChange(next)
    OBVIOUS
  <1>6. /\ f \in Forms /\ f.fields = form.fields /\ f.models = next
        /\ \A m \in next \cap form.models : f.prices[m] = form.prices[m]
    BY <1>2, <1>3, <1>5, ModelsChanged
  <1>7. PICK touched : touched = (next \ form.models) \cup (form.models \ next)
    OBVIOUS
  <1>8. touched \in SUBSET Models
    BY <1>2, <1>3, <1>7 DEF Forms
  <1>9. PICK u : u = Touching(touched, f)
    OBVIOUS
  <1>10. u \in Users /\ u.secret = user.secret /\ u.fresh = user.fresh /\ u.lost = user.lost
    BY <1>2, <1>6, <1>8, <1>9, Touched
  <1>12. Values(form) = user.meant => Values(f) = u.meant
    <2>1. /\ f.models \ touched = form.models \ touched
          /\ \A m \in form.models \ touched : f.prices[m] = form.prices[m]
      BY <1>6, <1>7
    <2> QED
      BY <1>2, <1>6, <1>8, <1>9, <2>1, StillMeant
  <1>13. pickers'[layout].selected = next
    BY <1>1 DEF Basic, Typed, Pickers
  <1>11. Edits(f, u) /\ UNCHANGED sync
    BY <1>1, <1>5, <1>7, <1>9 DEF PickerToggle
  <1> QED
    BY <1>4, <1>6, <1>10, <1>11, <1>12, <1>13
    DEF Written, PickerToggle, Edits, page, Basic, Typed

LEMMA LoadAnswersBasic ==
    ASSUME Basic, LoadAnswers
    PROVE  Basic'
  <1>1. /\ view = "loading" /\ Opens(Shown, draft, Base, user)
        /\ UNCHANGED <<kind, server, hist, at, layout, sync, call, action>>
    BY DEF LoadAnswers
  <1>2. /\ Shown \in Entries /\ draft \in Policies \cup {None} /\ user \in Users
        /\ Base \in Policies
    BY ShownTyped, BaseIsOwn DEF Basic, Typed
  <1>3. PICK initial : initial = Initial(Shown, draft, Base)
    OBVIOUS
  <1>4. initial \in Policies
    BY <1>2, <1>3, InitialTyped
  <1>5. /\ view' = "open" /\ form' \in Forms
        /\ draft' = IF kind = "plan" THEN None ELSE initial
        /\ pickers' \in [Layouts \cup {"page"} -> Pickers] /\ user' \in Users
    BY <1>1, <1>2, <1>3, Opened DEF Basic
  <1>6. draft' \in Policies \cup {None}
    BY <1>4, <1>5
  <1>7. Typed'
    BY <1>1, <1>5, <1>6 DEF Basic, Typed
  <1>8. Placed' /\ Brought'
    BY <1>1, <1>5 DEF Basic, Placed, Brought, BroughtBy, Shown
  <1> QED
    BY <1>7, <1>8 DEF Basic

\* What changes neither the history nor what the form holds.
LEMMA PickersBasic ==
    ASSUME Basic, LoadFails \/ PickLoaded \/ PickToggle \/ Resize
    PROVE  Basic'
  <1>1. CASE LoadFails
    BY <1>1 DEF LoadFails, Basic, Typed, Placed, Brought, BroughtBy, Shown
  <1>2. CASE PickLoaded
    <2>1. pickers' \in [Layouts \cup {"page"} -> Pickers]
      BY <1>2 DEF PickLoaded, Basic, Typed, Pickers
    <2> QED
      BY <1>2, <2>1 DEF PickLoaded, page, Basic, Typed, Placed, Brought, BroughtBy, Shown
  <1>3. CASE PickToggle
    <2>1. PICK next \in Flipped(pickers["page"].selected) :
             pickers' = [pickers EXCEPT !["page"].selected = next]
      BY <1>3 DEF PickToggle
    <2>2. next \in SUBSET Models
      BY FlippedTyped DEF Basic, Typed, Pickers
    <2>3. pickers' \in [Layouts \cup {"page"} -> Pickers]
      BY <2>1, <2>2 DEF Basic, Typed, Pickers
    <2> QED
      BY <1>3, <2>3 DEF PickToggle, page, Basic, Typed, Placed, Brought, BroughtBy, Shown
  <1>4. CASE Resize
    <2>1. PICK other \in Layouts \ {layout} :
             /\ layout' = other
             /\ user' = IF pickers[other].selected = form.models THEN user
                        ELSE [user EXCEPT !.lost = @ \cup {"picker"}]
      BY <1>4 DEF Resize
    <2>2. user' \in Users
      BY <2>1 DEF Basic, Typed, Users
    <2> QED
      BY <1>4, <2>1, <2>2 DEF Resize, page, Basic, Typed, Placed, Brought, BroughtBy, Shown
  <1> QED
    BY <1>1, <1>2, <1>3, <1>4

LEMMA CallsBasic ==
    ASSUME Basic, \/ SyncPrices \/ SyncFails
                  \/ Submit \/ ServerSaves \/ ServerRefuses \/ Refused \/ Created
    PROVE  Basic'
  <1>1. CASE SyncPrices
    BY <1>1 DEF SyncPrices, Open, page, Basic, Typed, Forms, Placed, Brought, BroughtBy, Shown
  <1>2. CASE SyncFails
    BY <1>2 DEF SyncFails, page, Basic, Typed, Placed, Brought, BroughtBy, Shown
  <1>3. CASE Submit
    <2>1. Values(form) \in Policies
      BY ValuesTyped DEF Basic, Typed
    <2>2. call' \in Calls /\ call'.here
      BY <1>3, <2>1 DEF Submit, Calls
    <2> QED
      BY <1>3, <2>2 DEF Submit, Open, page, Basic, Typed, Placed, Brought, BroughtBy, Shown
  <1>4. CASE ServerSaves
    <2>1. call' \in Calls /\ call'.here = call.here
      BY <1>4 DEF ServerSaves, Basic, Typed, Calls
    <2>2. server' \in [own : Policies, exists : BOOLEAN, planned : BOOLEAN]
      BY <1>4 DEF ServerSaves, Basic, Typed, Calls
    <2> QED
      BY <1>4, <2>1, <2>2 DEF ServerSaves, page, Basic, Typed, Placed, Brought, BroughtBy, Shown
  <1>5. CASE ServerRefuses
    <2>1. call' \in Calls /\ call'.here = call.here
      BY <1>5 DEF ServerRefuses, Basic, Typed, Calls
    <2> QED
      BY <1>5, <2>1 DEF ServerRefuses, page, Basic, Typed, Placed, Brought, BroughtBy, Shown
  <1>6. CASE Refused
    BY <1>6, CallsTyped DEF Refused, page, Basic, Typed, Placed, Brought, BroughtBy, Shown
  <1>7. CASE Created
    <2>1. user' \in Users
      BY <1>7, AnsweredTyped DEF Created, Basic, Typed, Calls
    <2>2. view' \in {view, "plain"} /\ (view' # view => view = "open")
      BY <1>7 DEF Created, Basic, Placed
    <2>3. /\ call' = NoCall /\ draft' = None /\ kind = "new"
          /\ UNCHANGED <<kind, server, hist, at, form, pickers, layout, sync, action, clicks>>
      BY <1>7 DEF Created
    <2>4. Typed'
      BY <2>1, <2>2, <2>3, CallsTyped DEF Basic, Typed
    <2>5. Placed' /\ Brought'
      BY <2>2, <2>3, CallsTyped DEF Basic, Placed, Brought, BroughtBy, Shown, Typed
    <2> QED
      BY <2>4, <2>5 DEF Basic
  <1> QED
    BY <1>1, <1>2, <1>3, <1>4, <1>5, <1>6, <1>7

LEMMA DialogBasic ==
    ASSUME Basic, \/ Ask \/ Dismiss \/ Confirm \/ ServerActs \/ ActionFails \/ Rotated
                  \/ CloseSecret
    PROVE  Basic'
  <1>1. CASE Ask
    <2>1. /\ action' \in Actions /\ action'.here /\ action'.phase # "idle"
          /\ action'.op # "none" /\ view = "open" /\ kind = "edit"
      BY <1>1 DEF Ask, Open, Actions
    <2> QED
      BY <1>1, <2>1 DEF Ask, page, Basic, Typed, Placed, Brought, BroughtBy, Shown
  <1>2. CASE Dismiss
    BY <1>2, ActionsTyped DEF Dismiss, page, Basic, Typed, Placed, Brought, BroughtBy, Shown
  <1>3. CASE Confirm
    <2>1. /\ action' \in Actions /\ action'.here = action.here /\ action'.op = action.op
          /\ action.phase # "idle" /\ action'.phase # "idle"
      BY <1>3 DEF Confirm, Basic, Typed, Actions
    <2> QED
      BY <1>3, <2>1 DEF Confirm, page, Basic, Typed, Placed, Brought, BroughtBy, Shown
  <1>4. CASE ServerActs
    <2>1. /\ action' \in Actions /\ action'.here = action.here /\ action'.op = action.op
          /\ action.phase # "idle" /\ action'.phase # "idle"
      BY <1>4 DEF ServerActs, Basic, Typed, Actions
    <2>2. server' \in [own : Policies, exists : BOOLEAN, planned : BOOLEAN]
      BY <1>4 DEF ServerActs, Basic, Typed
    <2>3. user' \in Users
      BY <1>4 DEF ServerActs, Basic, Typed, Users
    <2> QED
      BY <1>4, <2>1, <2>2, <2>3
      DEF ServerActs, page, Basic, Typed, Placed, Brought, BroughtBy, Shown
  <1>5. CASE ActionFails
    BY <1>5, ActionsTyped DEF ActionFails, page, Basic, Typed, Placed, Brought, BroughtBy, Shown
  <1>6. CASE Rotated
    <2>1. /\ action' \in Actions /\ (action'.here => action.here /\ action'.phase # "idle")
          /\ (action'.phase # "idle" => action'.op = action.op /\ action.phase # "idle")
      BY <1>6, ActionsTyped DEF Rotated, Basic, Typed, Actions
    <2> QED
      BY <1>6, <2>1 DEF Rotated, page, Basic, Typed, Placed, Brought, BroughtBy, Shown
  <1>7. CASE CloseSecret
    <2>1. user' \in Users
      BY <1>7 DEF CloseSecret, Basic, Typed, Users
    <2> QED
      BY <1>7, <2>1, ActionsTyped
      DEF CloseSecret, page, Basic, Typed, Placed, Brought, BroughtBy, Shown
  <1> QED
    BY <1>1, <1>2, <1>3, <1>4, <1>5, <1>6, <1>7

LEMMA ServerChangesBasic ==
    ASSUME Basic, ServerChanges
    PROVE  Basic'
  <1>1. server \in [own : Policies, exists : BOOLEAN, planned : BOOLEAN]
    BY DEF Basic, Typed
  <1>2. server' \in [own : Policies, exists : BOOLEAN, planned : BOOLEAN]
    <2>1. CASE server' = [server EXCEPT !.own.fields = "other"]
      <3>1. PICK own : own = [server.own EXCEPT !.fields = "other"]
        OBVIOUS
      <3>2. own \in Policies
        BY <1>1, <3>1 DEF Policies, Fields
      <3>3. server' = [server EXCEPT !.own = own]
        BY <1>1, <2>1, <3>1
      <3> QED
        BY <1>1, <3>2, <3>3
    <2>2. CASE server' = [server EXCEPT !.exists = FALSE, !.planned = FALSE]
      BY <1>1, <2>2
    <2>3. CASE server' = [server EXCEPT !.planned = ~@]
      BY <1>1, <2>3
    <2>4. CASE server' = [server EXCEPT !.exists = TRUE, !.own = SetPolicy({})]
      <3>1. SetPolicy({}) \in Policies
        BY SetPolicyTyped
      <3> QED
        BY <1>1, <2>4, <3>1
    <2> QED
      BY <2>1, <2>2, <2>3, <2>4 DEF ServerChanges
  <1> QED
    BY <1>2 DEF ServerChanges, page, Basic, Typed, Placed, Brought, BroughtBy, Shown

\* The actions on which the router goes somewhere, and those that write on the form.
Routes == \/ OpenForm \/ Leave \/ Traverse \/ Cancel \/ AddModel \/ PickBack \/ PickDone
          \/ ClosePlain \/ Saved \/ Deleted
Writes == \/ EditField \/ SetPrice \/ RemoveChip \/ SyncAnswers \/ PickerLoaded
          \/ PickerToggle

LEMMA RoutesMove ==
    ASSUME Basic, Routes
    PROVE  \E h, i, kept, u, c, a : Moves(h, i, kept, u, c, a)
  <1>1. CASE OpenForm
    BY <1>1, OpenFormMoves
  <1>2. CASE Leave
    BY <1>2, LeaveMoves
  <1>3. CASE Traverse
    BY <1>3, TraverseMoves
  <1>4. CASE Cancel
    BY <1>4, CancelMoves
  <1>5. CASE AddModel
    BY <1>5, AddModelMoves
  <1>6. CASE PickBack
    BY <1>6, PickBackMoves
  <1>7. CASE PickDone
    BY <1>7, PickDoneMoves
  <1>8. CASE ClosePlain
    BY <1>8, ClosePlainMoves
  <1>9. CASE Saved
    BY <1>9, SavedMoves
  <1>10. CASE Deleted
    BY <1>10, DeletedMoves
  <1> QED
    BY <1>1, <1>2, <1>3, <1>4, <1>5, <1>6, <1>7, <1>8, <1>9, <1>10 DEF Routes

LEMMA WritesWrite ==
    ASSUME Basic, Writes
    PROVE  Written
  BY EditFieldWrites, SetPriceWrites, RemoveChipWrites, SyncAnswersWrites,
     PickerLoadedWrites, PickerToggleWrites DEF Writes

LEMMA StepBasic == Basic /\ [Next]_vars => Basic'
  <1> SUFFICES ASSUME Basic, [Next]_vars PROVE Basic'
    OBVIOUS
  <1>1. CASE Routes
    BY <1>1, RoutesMove, MovesBasic
  <1>2. CASE Writes
    BY <1>2, WritesWrite, WrittenBasic
  <1>3. CASE LoadAnswers
    BY <1>3, LoadAnswersBasic
  <1>4. CASE LoadFails \/ PickLoaded \/ PickToggle \/ Resize
    BY <1>4, PickersBasic
  <1>5. CASE \/ SyncPrices \/ SyncFails
             \/ Submit \/ ServerSaves \/ ServerRefuses \/ Refused \/ Created
    BY <1>5, CallsBasic
  <1>6. CASE \/ Ask \/ Dismiss \/ Confirm \/ ServerActs \/ ActionFails \/ Rotated \/ CloseSecret
    BY <1>6, DialogBasic
  <1>7. CASE ServerChanges
    BY <1>7, ServerChangesBasic
  <1>8. CASE UNCHANGED vars
    BY <1>8 DEF vars, page, Basic, Typed, Placed, Brought, BroughtBy, Shown
  <1> QED
    BY <1>1, <1>2, <1>3, <1>4, <1>5, <1>6, <1>7, <1>8 DEF Next, Routes, Writes

LEMMA AlwaysBasic == Spec => []Basic
  <1>1. Init => Basic
    BY InitBasic
  <1>2. Basic /\ [Next]_vars => Basic'
    BY StepBasic
  <1> QED
    BY <1>1, <1>2, PTL DEF Spec

LEMMA BasicTypeOK == Basic => TypeOK
  <1> SUFFICES ASSUME Basic PROVE TypeOK
    OBVIOUS
  <1>1. \A i \in DOMAIN hist : /\ hist[i].page \in {"list", "form", "pick"}
                               /\ hist[i].rules \in Rules \cup {None}
    <2>1. \A i \in DOMAIN hist : hist[i] \in Entries
      BY DEF Basic, Typed
    <2> QED
      BY <2>1 DEF Entries
  <1>2. \A p \in DOMAIN pickers : /\ pickers[p].catalog \in {"loading", "ready", "failed"}
                                  /\ pickers[p].selected \subseteq Models
    BY DEF Basic, Typed, Pickers
  <1>3. /\ form.fields \in Fields /\ form.models \subseteq DOMAIN form.prices
        /\ form.prices \in Rules
    BY DEF Basic, Typed, Forms
  <1>4. /\ call.phase \in {"idle", "sent", "saved", "refused"} /\ call.values \in Policies
        /\ action.op \in {"none", "rotate", "delete"}
        /\ action.phase \in {"idle", "asked", "sent", "done", "shown"}
    BY DEF Basic, Typed, Calls, Actions
  <1>5. /\ user.meant \in Policies /\ user.fresh \in BOOLEAN
        /\ user.lost \subseteq {"history", "sync", "picker", "answer"}
        /\ user.secret \in {"held", "due", "lost"}
    BY DEF Basic, Typed, Users
  <1> QED
    BY <1>1, <1>2, <1>3, <1>4, <1>5 DEF Basic, Typed, Placed, TypeOK

\* Every variable keeps its type; a form under way has a row for each of its
\* models, and what is asked for it is asked while it is shown.
THEOREM FormTyped == Spec => []TypeOK
  BY AlwaysBasic, BasicTypeOK, PTL

--------------------------------------------------------------------------------
(* What a plan says is never written as the key's own.                       *)

LEMMA NoPlansStep ==
    ASSUME Basic, NoPlans, [Next]_vars
    PROVE  NoPlans'
  <1>1. /\ server.own.fields # "plan" /\ form.fields # "plan" /\ call.values.fields # "plan"
        /\ draft # None => draft.fields # "plan"
    BY DEF NoPlans
  <1>2. Typed /\ Blank \in Policies /\ Blank.fields = "blank" /\ NoCall.values.fields = "blank"
    BY BlankTyped, CallsTyped DEF Basic
  <1>3. CASE Routes
    <2>1. PICK h, i, kept, u, c, a : Moves(h, i, kept, u, c, a)
      BY <1>3, RoutesMove
    <2>2. /\ kept \in {draft, None} /\ c \in {call, NoCall} /\ u \in Users /\ server' = server
      BY <2>1 DEF Moves
    <2>3. server'.own.fields # "plan" /\ c.values.fields # "plan"
      BY <1>1, <1>2, <2>2
    <2>4. call'.values.fields # "plan"
      BY <1>2, <2>1, <2>3, Gone
    <2>5. CASE h[i].page = Shown.page \/ (h[i].page = "form" /\ kind # "new")
      <3>1. draft' = kept /\ form' = form
        BY <1>2, <2>1, <2>5, Gone
      <3> QED
        BY <1>1, <2>2, <2>3, <2>4, <3>1 DEF NoPlans
    <2>6. CASE h[i].page # Shown.page /\ h[i].page = "form" /\ kind = "new"
      <3>1. Opens(h[i], kept, Blank, u) /\ h[i] \in Entries /\ kept \in Policies \cup {None}
        BY <1>2, <2>1, <2>6, Gone
      <3>2. PICK initial : initial = Initial(h[i], kept, Blank)
        OBVIOUS
      <3>3. initial.fields = (IF kept # None THEN kept ELSE Blank).fields
        BY <1>2, <3>1, <3>2, InitialTyped
      <3>4. initial.fields # "plan"
        BY <1>1, <1>2, <2>2, <3>3
      <3>5. form'.fields = initial.fields /\ draft' = IF kind = "plan" THEN None ELSE initial
        BY <1>2, <2>2, <3>1, <3>2, Opened
      <3> QED
        BY <2>3, <2>4, <3>4, <3>5 DEF NoPlans
    <2>7. CASE h[i].page # Shown.page /\ h[i].page # "form"
      <3>1. draft' = kept /\ form' = NoForm
        BY <1>2, <2>1, <2>7, Gone
      <3> QED
        BY <1>1, <2>2, <2>3, <2>4, <3>1, NoFormTyped DEF NoPlans
    <2> QED
      BY <2>5, <2>6, <2>7
  <1>4. CASE Writes
    <2>1. Written
      BY <1>4, WritesWrite
    <2>2. /\ form' \in Forms /\ form'.fields # "plan" /\ UNCHANGED <<server, call>>
          /\ draft' = IF kind = "plan" THEN None ELSE Values(form')
      BY <1>1, <2>1 DEF Written
    <2>3. draft' # None => draft'.fields # "plan"
      BY <2>2, ValuesTyped
    <2> QED
      BY <1>1, <2>2, <2>3 DEF NoPlans
  <1>5. CASE LoadAnswers
    <2>1. Opens(Shown, draft, Base, user) /\ UNCHANGED <<server, call>>
      BY <1>5 DEF LoadAnswers
    <2>2. /\ Shown \in Entries /\ draft \in Policies \cup {None} /\ user \in Users
          /\ Base \in Policies /\ Base.fields # "plan"
      BY <1>1, <1>2, ShownTyped, BaseIsOwn DEF Typed
    <2>3. PICK initial : initial = Initial(Shown, draft, Base)
      OBVIOUS
    <2>4. initial.fields = (IF draft # None THEN draft ELSE Base).fields
      BY <2>2, <2>3, InitialTyped
    <2>5. form'.fields = initial.fields /\ draft' = IF kind = "plan" THEN None ELSE initial
      BY <1>2, <2>1, <2>2, <2>3, Opened
    <2> QED
      BY <1>1, <2>1, <2>2, <2>4, <2>5 DEF NoPlans
  <1>6. CASE Submit
    <2>1. call'.values = Values(form) /\ UNCHANGED <<server, form, draft>>
      BY <1>6 DEF Submit
    <2>2. Values(form).fields = form.fields
      BY <1>2, ValuesTyped DEF Typed
    <2> QED
      BY <1>1, <2>1, <2>2 DEF NoPlans
  <1>7. CASE ServerSaves
    <2>1. /\ call'.values = call.values /\ UNCHANGED <<form, draft>>
          /\ server'.own \in {server.own, call.values}
      BY <1>2, <1>7 DEF ServerSaves, Typed, Calls
    <2> QED
      BY <1>1, <2>1 DEF NoPlans
  <1>8. CASE ServerChanges
    <2>1. UNCHANGED <<form, draft, call>>
      BY <1>8 DEF ServerChanges
    <2>2. SetPolicy({}).fields = "set"
      BY SetPolicyTyped
    <2>3. server'.own = server.own \/ server'.own.fields \in {"other", "set"}
      <3>1. server.own \in Policies /\ server \in [own : Policies, exists : BOOLEAN, planned : BOOLEAN]
        BY <1>2 DEF Typed
      <3>2. CASE server' = [server EXCEPT !.own.fields = "other"]
        BY <3>1, <3>2 DEF Policies
      <3>3. CASE server' = [server EXCEPT !.exists = FALSE, !.planned = FALSE]
        BY <3>1, <3>3
      <3>4. CASE server' = [server EXCEPT !.planned = ~@]
        BY <3>1, <3>4
      <3>5. CASE server' = [server EXCEPT !.exists = TRUE, !.own = SetPolicy({})]
        BY <2>2, <3>1, <3>5
      <3> QED
        BY <1>8, <3>2, <3>3, <3>4, <3>5 DEF ServerChanges
    <2> QED
      BY <1>1, <2>1, <2>3 DEF NoPlans
  <1>9. CASE Created \/ Refused
    <2>1. call' = NoCall /\ UNCHANGED <<server, form>> /\ draft' \in {draft, None}
      BY <1>9 DEF Created, Refused
    <2> QED
      BY <1>1, <1>2, <2>1 DEF NoPlans
  <1>10. CASE ServerRefuses
    <2>1. call'.values = call.values /\ UNCHANGED <<server, form, draft>>
      BY <1>2, <1>10 DEF ServerRefuses, Typed, Calls
    <2> QED
      BY <1>1, <2>1 DEF NoPlans
  <1>11. CASE ServerActs
    <2>1. server'.own = server.own /\ UNCHANGED <<form, draft, call>>
      BY <1>2, <1>11 DEF ServerActs, Typed
    <2> QED
      BY <1>1, <2>1 DEF NoPlans
  <1>12. CASE \/ LoadFails \/ PickLoaded \/ PickToggle \/ Resize \/ SyncPrices \/ SyncFails
              \/ Ask \/ Dismiss \/ Confirm \/ ActionFails \/ Rotated \/ CloseSecret
              \/ UNCHANGED vars
    <2>1. UNCHANGED <<server, form, draft, call>>
      BY <1>12 DEF LoadFails, PickLoaded, PickToggle, Resize, SyncPrices, SyncFails, Ask,
         Dismiss, Confirm, ActionFails, Rotated, CloseSecret, vars
    <2> QED
      BY <1>1, <2>1 DEF NoPlans
  <1> QED
    BY <1>3, <1>4, <1>5, <1>6, <1>7, <1>8, <1>9, <1>10, <1>11, <1>12
    DEF Next, Routes, Writes

\* A plan that covers a key overrides its policy and is never written back as
\* the key's own (KeyEdit.tsx:51).
THEOREM OwnStaysOwn == Spec => []PlanNotWrittenBack
  <1>1. Init => NoPlans
    <2> SUFFICES ASSUME Init PROVE NoPlans
      OBVIOUS
    <2>1. PICK chosen \in SUBSET Models, planned \in BOOLEAN :
             server = [own |-> IF kind = "new" THEN Blank ELSE SetPolicy(chosen),
                       exists |-> TRUE, planned |-> planned]
      BY DEF Init
    <2>2. server.own.fields \in {"blank", "set"}
      BY <2>1, BlankTyped, SetPolicyTyped
    <2> QED
      BY <2>2, NoFormTyped, CallsTyped DEF Init, NoPlans
  <1>2. Basic /\ NoPlans /\ [Next]_vars => NoPlans'
    BY NoPlansStep
  <1>3. NoPlans => PlanNotWrittenBack
    BY DEF NoPlans, PlanNotWrittenBack
  <1> QED
    BY <1>1, <1>2, <1>3, AlwaysBasic, PTL DEF Spec

--------------------------------------------------------------------------------
(* A secret that was made is shown.                                          *)

LEMMA SecretStep ==
    ASSUME Basic, SecretIsShown, [Next]_vars
    PROVE  SecretIsShown'
  <1>1. /\ Typed /\ Placed /\ action \in Actions /\ user \in Users
        /\ user.secret = "due" => /\ action.op = "rotate" /\ action.here
                                  /\ action.phase \in {"done", "shown"}
    BY DEF Basic, Typed, SecretIsShown
  <1>2. NoAction.phase = "idle" /\ NoAction.op = "none" /\ ~NoAction.here
    BY ActionsTyped
  <1>3. CASE Routes
    <2>1. PICK h, i, kept, u, c, a : Moves(h, i, kept, u, c, a)
      BY <1>3, RoutesMove
    <2>2. /\ u \in Users /\ u.secret = user.secret
          /\ a = action \/ (a = NoAction /\ action.op = "delete")
      BY <2>1 DEF Moves
    <2>3. CASE h[i].page = Shown.page
      BY <1>1, <2>1, <2>2, <2>3, Gone DEF SecretIsShown
    <2>4. CASE h[i].page # Shown.page /\ h[i].page # "form"
      <3>1. user'.secret # "due"
        BY <1>1, <2>1, <2>4, Gone
      <3> QED
        BY <3>1 DEF SecretIsShown
    <2>5. CASE h[i].page # Shown.page /\ h[i].page = "form"
      <3>1. user.secret # "due"
        BY <1>1, <2>5 DEF Placed
      <3>2. CASE kind = "new"
        <4>1. /\ Opens(h[i], kept, Blank, u) /\ h[i] \in Entries
              /\ kept \in Policies \cup {None}
          BY <1>1, <2>1, <2>5, <3>2, Gone
        <4>2. user'.secret = u.secret
          BY <1>1, <2>2, <4>1, BlankTyped, Opened
        <4> QED
          BY <2>2, <3>1, <4>2 DEF SecretIsShown
      <3>3. CASE kind # "new"
        <4>1. user' = u
          BY <1>1, <2>1, <2>5, <3>3, Gone
        <4> QED
          BY <2>2, <3>1, <4>1 DEF SecretIsShown
      <3> QED
        BY <3>2, <3>3
    <2> QED
      BY <2>3, <2>4, <2>5
  <1>4. CASE Writes
    BY <1>4, <1>1, WritesWrite DEF Written, SecretIsShown
  <1>5. CASE LoadAnswers
    <2>1. /\ Shown \in Entries /\ draft \in Policies \cup {None} /\ Base \in Policies
      BY <1>1, ShownTyped, BaseIsOwn DEF Typed
    <2>2. user'.secret = user.secret /\ action' = action
      BY <1>1, <1>5, <2>1, Opened DEF LoadAnswers
    <2> QED
      BY <1>1, <2>2 DEF SecretIsShown
  <1>6. CASE Created
    <2>1. user'.secret = user.secret /\ action' = action
      BY <1>1, <1>6, AnsweredTyped DEF Created, Typed, Calls
    <2> QED
      BY <1>1, <2>1 DEF SecretIsShown
  <1>7. CASE Resize
    BY <1>1, <1>7 DEF Resize, Users, SecretIsShown
  <1>8. CASE Ask \/ Dismiss \/ Confirm \/ ActionFails
    <2>1. user.secret # "due" /\ user' = user
      BY <1>1, <1>2, <1>8 DEF Ask, Dismiss, Confirm, ActionFails
    <2> QED
      BY <2>1 DEF SecretIsShown
  <1>9. CASE ServerActs
    <2>1. user.secret # "due" /\ action.op \in {"rotate", "delete"}
      BY <1>1, <1>9 DEF ServerActs, Placed, Actions
    <2>2. CASE action.op = "delete"
      BY <1>9, <2>1, <2>2 DEF ServerActs, SecretIsShown
    <2>3. CASE action.op = "rotate"
      <3>1. /\ action' = [action EXCEPT !.phase = "done"]
            /\ user' = [user EXCEPT !.secret = IF action.here THEN "due" ELSE "lost"]
        BY <1>9, <2>3 DEF ServerActs
      <3>2. action'.phase = "done" /\ action'.op = "rotate" /\ action'.here = action.here
        BY <1>1, <2>3, <3>1 DEF Actions
      <3>3. user'.secret = IF action.here THEN "due" ELSE "lost"
        BY <1>1, <3>1 DEF Users
      <3> QED
        BY <3>2, <3>3 DEF SecretIsShown
    <2> QED
      BY <2>1, <2>2, <2>3
  <1>10. CASE Rotated
    <2>1. user' = user /\ (action.here => action' = [action EXCEPT !.phase = "shown"])
      BY <1>10 DEF Rotated
    <2>2. action.here => action'.phase = "shown" /\ action'.op = action.op /\ action'.here
      BY <1>1, <2>1 DEF Actions
    <2> QED
      BY <1>1, <2>1, <2>2 DEF SecretIsShown
  <1>11. CASE CloseSecret
    BY <1>1, <1>11 DEF CloseSecret, Users, SecretIsShown
  <1>12. CASE \/ LoadFails \/ PickLoaded \/ PickToggle \/ SyncPrices \/ SyncFails \/ Submit
              \/ ServerSaves \/ ServerRefuses \/ Refused \/ ServerChanges \/ UNCHANGED vars
    <2>1. UNCHANGED <<user, action>>
      BY <1>12 DEF LoadFails, PickLoaded, PickToggle, SyncPrices, SyncFails, Submit,
         ServerSaves, ServerRefuses, Refused, ServerChanges, vars
    <2> QED
      BY <1>1, <2>1 DEF SecretIsShown
  <1> QED
    BY <1>3, <1>4, <1>5, <1>6, <1>7, <1>8, <1>9, <1>10, <1>11, <1>12
    DEF Next, Routes, Writes

\* A secret that a rotation made comes to the user whose page asked for it,
\* and stays on display until it is closed or the page is gone.
THEOREM SecretStaysShown == Spec => []SecretIsShown
  <1>1. Init => SecretIsShown
    BY DEF Init, SecretIsShown
  <1>2. Basic /\ SecretIsShown /\ [Next]_vars => SecretIsShown'
    BY SecretStep
  <1> QED
    BY <1>1, <1>2, AlwaysBasic, PTL DEF Spec

--------------------------------------------------------------------------------
(* What a plan's picker has ticked is what its form lists.                   *)

LEMMA TickedStep ==
    ASSUME Basic, TickedIsListed, [Next]_vars
    PROVE  TickedIsListed'
  <1>1. /\ Typed /\ Placed /\ user \in Users /\ layout \in Layouts
        /\ Open /\ kind = "plan" /\ "picker" \notin user.lost
              => pickers[layout].selected = form.models
    BY DEF Basic, Typed, TickedIsListed
  <1>2. CASE Routes
    <2>1. PICK h, i, kept, u, c, a : Moves(h, i, kept, u, c, a)
      BY <1>2, RoutesMove
    <2>2. u \in Users /\ user.lost \subseteq u.lost /\ UNCHANGED <<kind, layout>>
      BY <2>1 DEF Moves
    <2>3. CASE h[i].page = Shown.page
      <3>1. user' = u /\ UNCHANGED <<view, form, pickers>>
        BY <1>1, <2>1, <2>3, Gone
      <3> QED
        BY <1>1, <2>2, <3>1 DEF TickedIsListed, Open
    <2>4. CASE h[i].page # Shown.page /\ kind = "plan"
      <3>1. view' \in {"closed", "loading"}
        BY <1>1, <2>1, <2>4, Gone
      <3> QED
        BY <3>1 DEF TickedIsListed, Open
    <2> QED
      BY <2>2, <2>3, <2>4 DEF TickedIsListed
  <1>3. CASE Writes
    <2>1. Written
      BY <1>3, WritesWrite
    <2> QED
      BY <1>1, <2>1 DEF Written, TickedIsListed, Open
  <1>4. CASE LoadAnswers
    <2>1. /\ Shown \in Entries /\ draft \in Policies \cup {None} /\ Base \in Policies
      BY <1>1, ShownTyped, BaseIsOwn DEF Typed
    <2>2. kind = "plan" => \A p \in Layouts : pickers'[p].selected = form'.models
      BY <1>1, <1>4, <2>1, Opened DEF LoadAnswers
    <2>3. UNCHANGED <<kind, layout>>
      BY <1>4 DEF LoadAnswers
    <2> QED
      BY <1>1, <2>2, <2>3 DEF TickedIsListed
  <1>5. CASE Created \/ PickToggle \/ PickLoaded
    <2>1. kind # "plan" /\ kind' = kind
      BY <1>1, <1>5
      DEF Created, PickToggle, PickLoaded, Basic, Brought, BroughtBy, Shown, Typed
    <2> QED
      BY <2>1 DEF TickedIsListed
  <1>6. CASE Resize
    <2>1. PICK other \in Layouts \ {layout} :
             /\ layout' = other
             /\ user' = IF pickers[other].selected = form.models THEN user
                        ELSE [user EXCEPT !.lost = @ \cup {"picker"}]
      BY <1>6 DEF Resize
    <2>2. UNCHANGED <<form, pickers>>
      BY <1>6 DEF Resize
    <2>3. pickers[other].selected # form.models => "picker" \in user'.lost
      BY <1>1, <2>1 DEF Users
    <2> QED
      BY <2>1, <2>2, <2>3 DEF TickedIsListed
  <1>7. CASE LoadFails
    BY <1>7 DEF LoadFails, TickedIsListed, Open
  <1>8. CASE ServerActs \/ CloseSecret
    <2>1. user'.lost = user.lost /\ UNCHANGED <<kind, view, form, pickers, layout>>
      BY <1>1, <1>8 DEF ServerActs, CloseSecret, Users, page
    <2> QED
      BY <1>1, <2>1 DEF TickedIsListed, Open
  <1>9. CASE \/ SyncPrices \/ SyncFails \/ Submit \/ ServerSaves \/ ServerRefuses \/ Refused
             \/ Ask \/ Dismiss \/ Confirm \/ ActionFails \/ Rotated \/ ServerChanges
             \/ UNCHANGED vars
    <2>1. UNCHANGED <<kind, view, form, pickers, layout, user>>
      BY <1>9 DEF SyncPrices, SyncFails, Submit, ServerSaves, ServerRefuses, Refused, Ask,
         Dismiss, Confirm, ActionFails, Rotated, ServerChanges, vars, page
    <2> QED
      BY <1>1, <2>1 DEF TickedIsListed, Open
  <1> QED
    BY <1>2, <1>3, <1>4, <1>5, <1>6, <1>7, <1>8, <1>9 DEF Next, Routes, Writes

\* The picker of a plan's form that the window shows has ticked the models that
\* are listed and priced below it, unless the other picker came between.
THEOREM TickedStaysListed == Spec => []TickedIsListed
  <1>1. Init => TickedIsListed
    BY DEF Init, TickedIsListed, Open
  <1>2. Basic /\ TickedIsListed /\ [Next]_vars => TickedIsListed'
    BY TickedStep
  <1> QED
    BY <1>1, <1>2, AlwaysBasic, PTL DEF Spec

--------------------------------------------------------------------------------
(* The form shows the policy as the user has made it.                        *)

Meant == Staged /\ CleanStart /\ KeptAway /\ KeptOpen

\* What a user of the mind u takes to an entry, on the draft kept.
Carried(entry, kept, u) ==
    u.lost = {} =>
        IF u.fresh THEN kept = None /\ entry.rules = None
        ELSE /\ kept # None /\ kept.fields = u.meant.fields
             /\ (IF entry.page = "form" /\ entry.rules # None THEN entry ELSE kept).rules
                    = u.meant.rules
             /\ entry.page = "pick" => entry.rules = u.meant.rules

LEMMA CarriedOn ==
    ASSUME Basic, Meant, kind # "plan", NEW entry, BroughtBy(entry),
           user.lost = {} =>
               /\ ~Waits
               /\ entry.rules = None \/ (~user.fresh /\ entry.rules = user.meant.rules)
    PROVE  Carried(entry, draft, user)
  <1> SUFFICES ASSUME user.lost = {} PROVE Carried(entry, draft, user)
    BY DEF Carried
  <1>1. CASE user.fresh
    BY <1>1 DEF Meant, CleanStart, Carried
  <1>2. CASE ~user.fresh
    <2>1. /\ draft # None /\ draft.fields = user.meant.fields
          /\ draft.rules = user.meant.rules
      <3>1. CASE Open
        <4>1. draft = user.meant
          BY <3>1 DEF Meant, KeptOpen
        <4>2. user.meant \in Policies
          BY DEF Basic, Typed, Users
        <4> QED
          BY <4>1, <4>2
      <3>2. CASE ~Open
        BY <1>2, <3>2 DEF Meant, KeptAway
      <3> QED
        BY <3>1, <3>2
    <2> QED
      BY <1>2, <2>1 DEF Carried, BroughtBy
  <1> QED
    BY <1>1, <1>2

\* A user who moves on, by link, Back or Forward, with nothing lost.
LEMMA CarriedMoved ==
    ASSUME Basic, Meant, kind # "plan", NEW entry, BroughtBy(entry)
    PROVE  Carried(entry, draft, Moved(entry))
  <1> SUFFICES ASSUME Moved(entry).lost = {} PROVE Carried(entry, draft, Moved(entry))
    BY DEF Carried
  <1>1. ~NotTakenUp /\ ~Stale(entry) /\ Moved(entry) = user
    BY MovedTyped DEF Basic
  <1>2. ~Waits
    BY <1>1 DEF NotTakenUp, Waits
  <1>3. entry.rules = None \/ (~user.fresh /\ entry.rules = user.meant.rules)
    BY <1>1 DEF Stale
  <1> QED
    BY <1>1, <1>2, <1>3, CarriedOn

\* Wherever the router goes, what the user has made is kept, if it is carried.
LEMMA MovesMeant ==
    ASSUME Basic, Meant,
           NEW h, NEW i, NEW kept, NEW u, NEW c, NEW a, Moves(h, i, kept, u, c, a),
           kind # "plan" => Carried(h[i], kept, u),
           Open /\ h[i].page = "form" => ~u.fresh /\ (u.lost = {} => kept = draft /\ u = user)
    PROVE  Meant'
  <1>1. /\ Typed /\ Placed /\ Brought /\ kind' = kind
        /\ Staged /\ CleanStart /\ KeptAway /\ KeptOpen
    BY DEF Basic, Moves, Meant
  <1>2. /\ u \in Users /\ (user.fresh => u.fresh) /\ kept \in {draft, None}
        /\ BroughtBy(h[i]) /\ user.lost \subseteq u.lost
    BY DEF Moves
  <1>3. /\ hist' = h /\ at' = i /\ h[i] \in Entries /\ kept \in Policies \cup {None}
        /\ Shown' = h[i]
    BY <1>1, Gone DEF Shown
  <1>4. kind = "plan" => kept = None /\ h[i].rules = None /\ h[i].page # "pick"
    BY <1>1, <1>2 DEF Staged, BroughtBy
  <1>5. CASE Open /\ h[i].page = Shown.page
    <2>1. /\ draft' = kept /\ user' = u /\ UNCHANGED <<view, form>>
      BY <1>1, <1>5, Gone
    <2>2. h[i].page = "form" /\ Open' /\ view' = "open"
      BY <1>1, <1>5, <2>1 DEF Placed, Open
    <2>3. ~u.fresh /\ (u.lost = {} => kept = draft /\ u = user)
      BY <1>5, <2>2
    <2>4. Staged'
      BY <1>1, <1>4, <2>1, <2>2, <2>3 DEF Staged
    <2>5. CleanStart'
      BY <2>1, <2>3 DEF CleanStart
    <2>6. KeptAway'
      BY <2>2 DEF KeptAway
    <2>7. KeptOpen'
      BY <1>1, <1>5, <2>1, <2>3 DEF KeptOpen
    <2> QED
      BY <2>4, <2>5, <2>6, <2>7 DEF Meant
  <1>6. CASE h[i].page # Shown.page /\ h[i].page = "form" /\ kind = "new"
    <2>1. Opens(h[i], kept, Blank, u) /\ Blank \in Policies
      BY <1>1, <1>6, BlankTyped, Gone
    <2>2. PICK initial : initial = Initial(h[i], kept, Blank)
      OBVIOUS
    <2>3. /\ view' = "open" /\ Values(form') = initial /\ draft' = initial /\ ~user'.fresh
          /\ user'.meant = IF u.fresh THEN Blank ELSE u.meant
          /\ user'.lost = IF u.fresh /\ h[i].rules = None /\ kept = None THEN {} ELSE u.lost
      BY <1>1, <1>2, <1>3, <1>6, <2>1, <2>2, Opened
    <2>4. user'.lost = {} => initial = user'.meant
      <3> SUFFICES ASSUME user'.lost = {} PROVE initial = user'.meant
        OBVIOUS
      <3>1. /\ initial \in Policies
            /\ initial.fields = (IF kept # None THEN kept ELSE Blank).fields
            /\ initial.rules = IF h[i].rules # None THEN h[i].rules
                               ELSE (IF kept # None THEN kept ELSE Blank).rules
        BY <1>3, <2>1, <2>2, InitialTyped
      <3>2. CASE u.fresh
        <4>1. h[i].rules = None /\ kept = None
          BY <1>6, <2>3, <3>2 DEF Carried
        <4>2. initial.fields = Blank.fields /\ initial.rules = Blank.rules
          BY <3>1, <4>1
        <4>3. initial = Blank
          BY <2>1, <3>1, <4>2 DEF Policies
        <4> QED
          BY <2>3, <3>2, <4>3
      <3>3. CASE ~u.fresh
        <4>1. u.lost = {} /\ user'.meant = u.meant /\ u.meant \in Policies
          BY <1>2, <2>3, <3>3 DEF Users
        <4>2. /\ kept # None /\ kept.fields = u.meant.fields
              /\ (IF h[i].rules # None THEN h[i] ELSE kept).rules = u.meant.rules
          BY <1>6, <3>3, <4>1 DEF Carried
        <4>3. initial.fields = u.meant.fields /\ initial.rules = u.meant.rules
          BY <3>1, <4>2
        <4>4. initial = u.meant
          BY <3>1, <4>1, <4>3 DEF Policies
        <4> QED
          BY <4>1, <4>4
      <3> QED
        BY <3>2, <3>3
    <2>5. Staged' /\ CleanStart' /\ KeptAway'
      BY <1>1, <1>6, <2>3 DEF Staged, CleanStart, KeptAway, Open
    <2>6. KeptOpen'
      BY <2>3, <2>4 DEF KeptOpen
    <2> QED
      BY <2>5, <2>6 DEF Meant
  <1>7. CASE ~Open /\ h[i].page = Shown.page
    <2>1. /\ draft' = kept /\ user' = u /\ UNCHANGED <<view, form>>
      BY <1>1, <1>7, Gone
    <2>2. Staged'
      BY <1>1, <1>2, <1>4, <1>7, <2>1 DEF Staged, Open
    <2>3. CleanStart'
      <3>1. ASSUME u.fresh, u.lost = {}, kind # "plan"
            PROVE  kept = None /\ h[i].rules = None
        BY <3>1 DEF Carried
      <3> QED
        BY <1>1, <1>3, <1>4, <2>1, <3>1 DEF CleanStart
    <2>4. KeptAway'
      <3> SUFFICES ASSUME ~u.fresh, u.lost = {}
                   PROVE  /\ kept # None /\ kept.fields = u.meant.fields
                          /\ (IF Waits' THEN h[i] ELSE kept).rules = u.meant.rules
                          /\ h[i].page = "pick" => h[i].rules = u.meant.rules
        BY <1>3, <2>1 DEF KeptAway
      <3>1. kind # "plan"
        BY <1>1, <1>2, <1>7 DEF Staged
      <3>2. view # "plain"
        BY <1>1, <1>2 DEF Staged
      <3>3. h[i].page = "form" <=> view \in {"loading", "failed"}
        BY <1>1, <1>7, <3>2 DEF Placed, Typed, Open
      <3>4. Waits' <=> h[i].page = "form" /\ h[i].rules # None
        BY <1>3, <2>1, <3>3 DEF Waits
      <3> QED
        BY <3>1, <3>4 DEF Carried
    <2>5. KeptOpen'
      BY <1>7, <2>1 DEF KeptOpen, Open
    <2> QED
      BY <2>2, <2>3, <2>4, <2>5 DEF Meant
  <1>8. CASE h[i].page # Shown.page /\ ~(h[i].page = "form" /\ kind = "new")
    <2>1. /\ view' = IF h[i].page = "form" THEN "loading" ELSE "closed"
          /\ draft' = kept /\ user'.meant = u.meant /\ user'.lost = u.lost
          /\ user'.fresh <=> u.fresh \/ (kind = "plan" /\ h[i].page # "form")
      BY <1>1, <1>8, Gone
    <2>2. h[i].page = "form" => view = "closed"
      BY <1>1, <1>8 DEF Placed
    <2>3. kind = "plan" => user'.fresh
      BY <1>1, <1>2, <2>1, <2>2 DEF Staged, Open
    <2>4. Staged'
      BY <1>1, <1>4, <1>8, <2>1, <2>3 DEF Staged, Open
    <2>5. CleanStart'
      <3>1. ASSUME u.fresh, u.lost = {}, kind # "plan"
            PROVE  kept = None /\ h[i].rules = None
        BY <3>1 DEF Carried
      <3> QED
        BY <1>3, <1>4, <2>1, <3>1 DEF CleanStart
    <2>6. KeptAway'
      <3> SUFFICES ASSUME ~user'.fresh, u.lost = {}
                   PROVE  /\ kept # None /\ kept.fields = u.meant.fields
                          /\ (IF Waits' THEN h[i] ELSE kept).rules = u.meant.rules
                          /\ h[i].page = "pick" => h[i].rules = u.meant.rules
        BY <1>3, <2>1 DEF KeptAway
      <3>1. kind # "plan" /\ ~u.fresh
        BY <2>1, <2>3
      <3>2. Waits' <=> h[i].page = "form" /\ h[i].rules # None
        BY <1>3, <2>1 DEF Waits
      <3> QED
        BY <3>1, <3>2 DEF Carried
    <2>7. KeptOpen'
      BY <2>1 DEF KeptOpen, Open
    <2> QED
      BY <2>4, <2>5, <2>6, <2>7 DEF Meant
  <1> QED
    BY <1>5, <1>6, <1>7, <1>8

LEMMA RoutesMeant ==
    ASSUME Basic, Meant, Routes
    PROVE  Meant'
  <1>1. /\ Typed /\ Placed /\ Brought /\ user \in Users
        /\ Staged /\ CleanStart /\ KeptAway /\ KeptOpen
    BY DEF Basic, Typed, Meant
  <1>2. BroughtBy(List) /\ List.page = "list" /\ List.rules = None
    BY ListTyped DEF BroughtBy
  <1>3. CASE OpenForm
    <2>1. PICK entry : entry = [page |-> "form", rules |-> None]
      OBVIOUS
    <2>2. /\ Moves(Pushed(entry), at + 1, draft, user, call, action)
          /\ Pushed(entry)[at + 1] = entry
      BY <1>3, <2>1, OpenFormMoves
    <2>3. view = "closed"
      BY <1>1, <1>3 DEF OpenForm, Placed
    <2>4. BroughtBy(entry) /\ entry.rules = None /\ ~Waits /\ ~Open
      BY <2>1, <2>3 DEF BroughtBy, Waits, Open
    <2>5. kind # "plan" => Carried(entry, draft, user)
      BY <2>4, CarriedOn
    <2> QED
      BY <2>2, <2>4, <2>5, MovesMeant
  <1>4. CASE Leave
    <2>1. /\ Moves(Pushed(List), at + 1, draft, Moved(List), call, action)
          /\ Pushed(List)[at + 1] = List
      BY <1>4, LeaveMoves
    <2>2. kind # "plan" => Carried(List, draft, Moved(List))
      BY <1>2, CarriedMoved
    <2> QED
      BY <1>2, <2>1, <2>2, MovesMeant
  <1>5. CASE Traverse
    <2>1. PICK i \in DOMAIN hist : Moves(hist, i, draft, Moved(hist[i]), call, action)
      BY <1>5, TraverseMoves
    <2>2. BroughtBy(hist[i])
      BY <1>1 DEF Brought
    <2>3. kind # "plan" => Carried(hist[i], draft, Moved(hist[i]))
      BY <2>2, CarriedMoved
    <2>4. PICK u : u = Moved(hist[i])
      OBVIOUS
    <2>5. u = [user EXCEPT !.lost = u.lost] /\ (u.lost = {} => u = user)
      BY <1>1, <2>4, MovedTyped
    <2>6. u.fresh = user.fresh
      BY <1>1, <2>5 DEF Users
    <2>7. Open => ~u.fresh
      BY <1>1, <2>6 DEF Staged
    <2> QED
      BY <2>1, <2>3, <2>4, <2>5, <2>7, MovesMeant
  <1>6. CASE Cancel
    <2>1. PICK u : u = [user EXCEPT !.fresh = TRUE]
      OBVIOUS
    <2>2. /\ Moves(Pushed(List), at + 1, None, u, call, action)
          /\ Pushed(List)[at + 1] = List
      BY <1>6, <2>1, CancelMoves
    <2>3. Carried(List, None, u)
      BY <1>1, <1>2, <2>1 DEF Carried, Users
    <2> QED
      BY <1>2, <2>2, <2>3, MovesMeant
  <1>7. CASE AddModel
    <2>1. PICK entry : entry = [page |-> "pick", rules |-> Values(form).rules]
      OBVIOUS
    <2>2. /\ Moves(Pushed(entry), at + 1, draft, user, call, action)
          /\ Pushed(entry)[at + 1] = entry
      BY <1>7, <2>1, AddModelMoves
    <2>3. Open /\ kind # "plan" /\ BroughtBy(entry)
      BY <1>7, <2>2 DEF AddModel, Moves
    <2>4. user.lost = {} => entry.rules = user.meant.rules /\ ~user.fresh /\ ~Waits
      BY <1>1, <2>1, <2>3 DEF KeptOpen, Staged, Waits, Open
    <2>5. Carried(entry, draft, user)
      BY <2>3, <2>4, CarriedOn
    <2> QED
      BY <2>1, <2>2, <2>5, MovesMeant
  <1>8. CASE PickBack
    <2>1. PICK entry : entry = [page |-> "form", rules |-> None]
      OBVIOUS
    <2>2. /\ Moves(Replaced(None), at, draft, user, call, action) /\ kind # "plan"
          /\ Replaced(None)[at] = entry
      BY <1>8, <2>1, PickBackMoves
    <2>3. view = "closed"
      BY <1>1, <1>8 DEF PickBack, Placed
    <2>4. BroughtBy(entry) /\ entry.rules = None /\ ~Waits /\ ~Open
      BY <2>1, <2>2, <2>3 DEF BroughtBy, Waits, Open
    <2>5. Carried(entry, draft, user)
      BY <2>2, <2>4, CarriedOn
    <2> QED
      BY <2>2, <2>4, <2>5, MovesMeant
  <1>9. CASE PickDone
    <2>1. PICK rules : rules = BuildPickedModels(pickers["page"].selected, Shown.rules)
      OBVIOUS
    <2>2. PICK meant : meant = BuildPickedModels(pickers["page"].selected, user.meant.rules)
      OBVIOUS
    <2>3. PICK u : u = [user EXCEPT !.meant.rules = meant]
      OBVIOUS
    <2>4. PICK entry : entry = [page |-> "form", rules |-> rules]
      OBVIOUS
    <2>5. /\ kind # "plan" /\ rules \in Rules /\ meant \in Rules
          /\ Moves(Replaced(rules), at, draft, u, call, action)
          /\ Replaced(rules)[at] = entry
      BY <1>9, <2>1, <2>2, <2>3, <2>4, PickDoneMoves
    <2>6. view = "closed" /\ Shown.page = "pick"
      BY <1>1, <1>9 DEF PickDone, Placed
    <2>7. Shown.rules # None /\ ~Open
      BY <1>1, <2>6 DEF Typed, Brought, BroughtBy, Shown, Open
    <2>8. /\ u.fresh = user.fresh /\ u.lost = user.lost /\ u.meant.rules = meant
          /\ u.meant.fields = user.meant.fields
      BY <1>1, <2>3 DEF Users, Policies
    <2>9. Carried(entry, draft, u)
      <3> SUFFICES ASSUME user.lost = {} PROVE Carried(entry, draft, u)
        BY <2>8 DEF Carried
      <3>1. ~user.fresh
        BY <1>1, <2>6, <2>7 DEF CleanStart
      <3>2. /\ draft # None /\ draft.fields = user.meant.fields
            /\ Shown.rules = user.meant.rules
        BY <1>1, <2>6, <2>7, <3>1 DEF KeptAway
      <3>3. rules = meant /\ rules # None
        BY <2>1, <2>2, <2>5, <3>2
      <3> QED
        BY <2>4, <2>8, <3>1, <3>2, <3>3 DEF Carried
    <2> QED
      BY <2>5, <2>7, <2>9, MovesMeant
  <1>10. CASE ClosePlain
    <2>1. /\ Moves(Pushed(List), at + 1, draft, user, call, action)
          /\ Pushed(List)[at + 1] = List
      BY <1>10, ClosePlainMoves
    <2>2. ~Waits
      BY <1>10 DEF ClosePlain, Waits
    <2>3. kind # "plan" => Carried(List, draft, user)
      BY <1>2, <2>2, CarriedOn
    <2> QED
      BY <1>2, <2>1, <2>3, MovesMeant
  <1>11. ASSUME NEW c, c.here \in BOOLEAN, c.here => Open
         PROVE  kind # "plan" => Carried(List, None, Answered(c))
    <2> SUFFICES ASSUME kind # "plan", Answered(c).lost = {}, ~Answered(c).fresh PROVE FALSE
      BY <1>2 DEF Carried
    <2>1. user.lost = {} /\ ~user.fresh /\ ~c.here /\ draft = None /\ Shown.page = "list"
      BY <1>1, <1>11, AnsweredTyped
    <2>2. ~Open
      BY <1>1, <2>1 DEF Placed, Open
    <2> QED
      BY <1>1, <2>1, <2>2 DEF KeptAway
  <1>12. CASE Saved
    <2>1. /\ Moves(Pushed(List), at + 1, None, Answered(call), NoCall, action)
          /\ Pushed(List)[at + 1] = List
      BY <1>12, SavedMoves
    <2>2. call.here \in BOOLEAN /\ (call.here => Open)
      BY <1>1 DEF Typed, Calls, Placed, Open
    <2>3. kind # "plan" => Carried(List, None, Answered(call))
      BY <1>11, <2>2
    <2> QED
      BY <1>2, <2>1, <2>3, MovesMeant
  <1>13. CASE Deleted
    <2>1. /\ Moves(Pushed(List), at + 1, None, Answered(action), call, NoAction)
          /\ Pushed(List)[at + 1] = List
      BY <1>13, DeletedMoves
    <2>2. action.here \in BOOLEAN /\ (action.here => Open)
      BY <1>1 DEF Typed, Actions, Placed, Open
    <2>3. kind # "plan" => Carried(List, None, Answered(action))
      BY <1>11, <2>2
    <2> QED
      BY <1>2, <2>1, <2>3, MovesMeant
  <1> QED
    BY <1>3, <1>4, <1>5, <1>6, <1>7, <1>8, <1>9, <1>10, <1>12, <1>13 DEF Routes

LEMMA MeantStep ==
    ASSUME Basic, Meant, [Next]_vars
    PROVE  Meant'
  <1>1. /\ Typed /\ Placed /\ Brought /\ user \in Users
        /\ Staged /\ CleanStart /\ KeptAway /\ KeptOpen
    BY DEF Basic, Typed, Meant
  <1>2. CASE Routes
    BY <1>2, RoutesMeant
  <1>3. CASE Writes
    <2>1. Written
      BY <1>3, WritesWrite
    <2>2. /\ UNCHANGED <<kind, view, hist, at>> /\ user'.fresh = user.fresh
          /\ draft' = IF kind = "plan" THEN None ELSE Values(form')
          /\ user.lost \subseteq user'.lost /\ (Open \/ user'.lost # {})
          /\ Values(form) = user.meant /\ user'.lost = {} => Values(form') = user'.meant
      BY <2>1 DEF Written
    <2>3. Staged'
      BY <1>1, <2>2 DEF Staged, Open
    <2>4. CleanStart' /\ KeptAway'
      BY <1>1, <2>2 DEF Staged, CleanStart, KeptAway, Open
    <2>5. KeptOpen'
      BY <1>1, <2>2 DEF KeptOpen, Open
    <2> QED
      BY <2>3, <2>4, <2>5 DEF Meant
  <1>4. CASE LoadAnswers
    <2>1. /\ view = "loading" /\ Opens(Shown, draft, Base, user)
          /\ UNCHANGED <<kind, hist, at>>
      BY <1>4 DEF LoadAnswers
    <2>2. Shown \in Entries /\ draft \in Policies \cup {None} /\ Base \in Policies
      BY <1>1, ShownTyped, BaseIsOwn DEF Typed
    <2>3. PICK initial : initial = Initial(Shown, draft, Base)
      OBVIOUS
    <2>4. /\ view' = "open" /\ Values(form') = initial /\ ~user'.fresh
          /\ draft' = IF kind = "plan" THEN None ELSE initial
          /\ user'.meant = IF user.fresh THEN Base ELSE user.meant
          /\ user'.lost = IF user.fresh /\ Shown.rules = None /\ draft = None THEN {}
                          ELSE user.lost
      BY <1>1, <2>1, <2>2, <2>3, Opened
    <2>5. user'.lost = {} => initial = user'.meant
      <3> SUFFICES ASSUME user'.lost = {} PROVE initial = user'.meant
        OBVIOUS
      <3>1. /\ initial \in Policies
            /\ initial.fields = (IF draft # None THEN draft ELSE Base).fields
            /\ initial.rules = IF Shown.rules # None THEN Shown.rules
                               ELSE (IF draft # None THEN draft ELSE Base).rules
        BY <2>2, <2>3, InitialTyped
      <3>2. CASE user.fresh
        <4>1. Shown.rules = None /\ draft = None
          BY <1>1, <2>1, <2>4, <3>2 DEF CleanStart
        <4>2. initial.fields = Base.fields /\ initial.rules = Base.rules
          BY <3>1, <4>1
        <4>3. initial = Base
          BY <2>2, <3>1, <4>2 DEF Policies
        <4> QED
          BY <2>4, <3>2, <4>3
      <3>3. CASE ~user.fresh
        <4>1. user.lost = {} /\ user'.meant = user.meant /\ user.meant \in Policies
          BY <1>1, <2>4, <3>3 DEF Users
        <4>2. /\ draft # None /\ draft.fields = user.meant.fields
              /\ (IF Shown.rules # None THEN Shown ELSE draft).rules = user.meant.rules
          BY <1>1, <2>1, <3>3, <4>1 DEF KeptAway, Waits, Open
        <4>3. initial.fields = user.meant.fields /\ initial.rules = user.meant.rules
          BY <3>1, <4>2
        <4>4. initial = user.meant
          BY <3>1, <4>1, <4>3 DEF Policies
        <4> QED
          BY <4>1, <4>4
      <3> QED
        BY <3>2, <3>3
    <2>6. Staged' /\ CleanStart' /\ KeptAway'
      BY <1>1, <2>1, <2>4 DEF Staged, CleanStart, KeptAway, Open
    <2>7. KeptOpen'
      BY <2>1, <2>4, <2>5 DEF KeptOpen
    <2> QED
      BY <2>6, <2>7 DEF Meant
  <1>5. CASE LoadFails
    <2>1. /\ view = "loading" /\ view' = "failed"
          /\ UNCHANGED <<kind, hist, at, form, draft, user>>
      BY <1>5 DEF LoadFails
    <2> QED
      BY <1>1, <2>1 DEF Meant, Staged, CleanStart, KeptAway, KeptOpen, Open, Waits, Shown
  <1>6. CASE Created
    <2>1. /\ kind = "new" /\ draft' = None /\ view' = IF call.here THEN "plain" ELSE view
          /\ user' = Answered(call) /\ UNCHANGED <<kind, hist, at, form>>
      BY <1>6 DEF Created
    <2>2. call.here \in BOOLEAN /\ (call.here => Open)
      BY <1>1 DEF Typed, Calls, Placed, Open
    <2>3. /\ user'.fresh <=> user.fresh \/ call.here
          /\ user'.meant = user.meant
          /\ user'.lost = {} => /\ user.lost = {}
                                /\ call.here \/ (draft = None /\ Shown.page = "list")
      BY <1>1, <2>1, <2>2, AnsweredTyped
    <2>4. CASE call.here
      BY <1>1, <2>1, <2>2, <2>3, <2>4
      DEF Meant, Staged, CleanStart, KeptAway, KeptOpen, Open, Waits
    <2>5. CASE ~call.here
      <3>1. Staged'
        BY <1>1, <2>1, <2>3, <2>5 DEF Staged, Open
      <3>2. user'.lost = {} => user.lost = {} /\ draft = None /\ view = "closed"
        BY <1>1, <2>3, <2>5 DEF Placed
      <3>3. user'.lost = {} => user.fresh
        BY <1>1, <3>2 DEF KeptAway, Open
      <3>4. CleanStart' /\ KeptAway' /\ KeptOpen'
        BY <1>1, <2>1, <2>3, <2>5, <3>2, <3>3
        DEF CleanStart, KeptAway, KeptOpen, Open, Shown
      <3> QED
        BY <3>1, <3>4 DEF Meant
    <2> QED
      BY <2>4, <2>5
  <1>7. CASE ServerActs \/ CloseSecret \/ Resize
    <2>1. /\ UNCHANGED <<kind, view, hist, at, form, draft>>
          /\ user'.fresh = user.fresh /\ user'.meant = user.meant
          /\ user'.lost = {} => user.lost = {}
      BY <1>1, <1>7 DEF ServerActs, CloseSecret, Resize, Users, page
    <2> QED
      BY <1>1, <2>1 DEF Meant, Staged, CleanStart, KeptAway, KeptOpen, Open, Waits, Shown
  <1>8. CASE \/ PickLoaded \/ PickToggle \/ SyncPrices \/ SyncFails \/ Submit
             \/ ServerSaves \/ ServerRefuses \/ Refused \/ Ask \/ Dismiss \/ Confirm
             \/ ActionFails \/ Rotated \/ ServerChanges \/ UNCHANGED vars
    <2>1. UNCHANGED <<kind, view, hist, at, form, draft, user>>
      BY <1>8 DEF PickLoaded, PickToggle, SyncPrices, SyncFails, Submit,
         ServerSaves, ServerRefuses, Refused, Ask, Dismiss, Confirm, ActionFails, Rotated,
         ServerChanges, vars, page
    <2> QED
      BY <1>1, <2>1 DEF Meant, Staged, CleanStart, KeptAway, KeptOpen, Open, Waits, Shown, Values
  <1> QED
    BY <1>2, <1>3, <1>4, <1>5, <1>6, <1>7, <1>8 DEF Next, Routes, Writes

\* The form shows the policy as the user has made it, over every way of leaving
\* it and coming back, unless one of the four things came between that AsMeant
\* names (KeyNew.tsx:35, KeyForm.tsx:134).
THEOREM FormIsAsMeant == Spec => []AsMeant
  <1>1. Init => Meant
    BY ListTyped DEF Init, Meant, Staged, CleanStart, KeptAway, KeptOpen, Open, Shown
  <1>2. Basic /\ Meant /\ [Next]_vars => Meant'
    BY MeantStep
  <1>3. Meant => AsMeant
    BY DEF Meant, KeptOpen, AsMeant
  <1> QED
    BY <1>1, <1>2, <1>3, AlwaysBasic, PTL DEF Spec

================================================================================
