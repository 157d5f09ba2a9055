-------------------------------- MODULE KeyStore --------------------------------
(***************************************************************************)
(* Keys and subscription plans: the Store's maps in memory, the tables     *)
(* key_configs and subscription_plans, and the management operations that  *)
(* change both while other management calls and requests run.              *)
(*                                                                         *)
(* Every operation holds updateMu from start to end, so its steps do not   *)
(* mix with another operation's.  What does mix: the patch handler, which  *)
(* reads what it will write back before it holds any lock, the requests    *)
(* that learn a key's preview, and a crash between two steps.  Usage is    *)
(* UsageStore's business.                                                  *)
(***************************************************************************)
EXTENDS Naturals, FiniteSets

CONSTANTS
    Ids,            \* key ids, numbered as they sort
    Secrets,        \* API keys; a hash stands for its secret
    Plans,          \* subscription plan ids
    Policies,       \* what else a key carries: enabled, limits, models
    None,           \* no key, no plan, no preview
    Patches,        \* threads that serve PATCH requests on keys
    Learners        \* request threads whose key has no preview yet

\* A stored key.
Key == [secret : Secrets, preview : Secrets \cup {None}, policy : Policies,
        plan : Plans \cup {None}]

ASSUME IdsAssumption == Ids \subseteq Nat
ASSUME NoneAssumption == None \notin Ids \cup Secrets \cup Plans \cup Key

VARIABLES
    keys,           \* s.keys
    plans,          \* s.plans: the ids, the rest does not matter here
    diskKeys,       \* table key_configs
    diskPlans,      \* table subscription_plans
    phase,          \* what the holder of updateMu has still to do
    patch,          \* what each PATCH request has read
    learner,        \* what each request knows of the key it learns about
    unsaved,        \* history: keys changed in memory and not saved since
    revoked,        \* history: secrets an operation removed for good
    overwritten     \* history: keys a patch wrote back over a later change

vars == <<keys, plans, diskKeys, diskPlans, phase, patch, learner, unsaved, revoked, overwritten>>

memory == <<keys, plans>>
disk == <<diskKeys, diskPlans>>
history == <<unsaved, revoked, overwritten>>

--------------------------------------------------------------------------------
(* What the state is made of.                                                *)

Phases == {"idle", "saving", "publishing", "learning"}

KeyTable == [Ids -> Key \cup {None}]

NoPatch == [id |-> None, read |-> None]

NoLearner == [id |-> None, secret |-> None, saved |-> FALSE]

TypeOK ==
    /\ keys \in KeyTable
    /\ plans \subseteq Plans
    /\ diskKeys \in KeyTable
    /\ diskPlans \subseteq Plans
    /\ phase \in Phases
    /\ patch \in [Patches -> {NoPatch} \cup [id : Ids, read : Key]]
    /\ learner \in [Learners -> {NoLearner} \cup [id : Ids, secret : Secrets, saved : BOOLEAN]]
    /\ unsaved \subseteq Ids
    /\ revoked \subseteq Secrets
    /\ overwritten \subseteq Ids

Present(table) == {k \in Ids : table[k] # None}

SecretsOf(table) == {table[k].secret : k \in Present(table)}

\* A new key, as createKey builds it.
NewKey(secret, policy) ==
    [secret |-> secret, preview |-> secret, policy |-> policy, plan |-> None]

\* A key with another secret, and the preview that goes with it.
Resecreted(key, secret) ==
    [secret |-> secret, preview |-> secret, policy |-> key.policy, plan |-> key.plan]

\* The keys a configuration file may list, some without their preview, bound
\* to plans it lists.
Configured(listed) ==
    {key \in Key : key.preview \in {None, key.secret} /\ key.plan \in listed \cup {None}}

\* A first start seeds the database from the configuration file.
Init ==
    /\ plans \in SUBSET Plans
    /\ keys \in [Ids -> Configured(plans) \cup {None}]
    /\ diskKeys = keys
    /\ diskPlans = plans
    /\ phase = "idle"
    /\ patch = [h \in Patches |-> NoPatch]
    /\ learner = [t \in Learners |-> NoLearner]
    /\ unsaved = {}
    /\ revoked = {}
    /\ overwritten = {}

--------------------------------------------------------------------------------
(* Saving.                                                                   *)

\* The two tables are replaced in one transaction, and the secrets that are
\* stored no more were revoked.
Store(nextKeys, nextPlans) ==
    /\ diskKeys' = nextKeys
    /\ diskPlans' = nextPlans
    /\ revoked' = revoked \cup (SecretsOf(diskKeys) \ SecretsOf(nextKeys))
    /\ unsaved' = {}

\* saveConfigurationState, at the end of UpsertKey, DeleteKey and RotateKey.
Save ==
    /\ phase = "saving"
    /\ Store(keys, plans)
    /\ phase' = "idle"
    /\ UNCHANGED <<memory, patch, learner, overwritten>>

\* The operation answers with an error; memory keeps what it changed.
SaveFails ==
    /\ phase = "saving"
    /\ phase' = "idle"
    /\ UNCHANGED <<memory, disk, patch, learner, history>>

--------------------------------------------------------------------------------
(* Operations on keys: memory first, then the database.                      *)

\* A secret that GenerateKey has never returned and nobody has chosen.
Fresh(s) ==
    /\ s \notin revoked \cup SecretsOf(keys) \cup SecretsOf(diskKeys)
    /\ \A h \in Patches : patch[h] # NoPatch => patch[h].read.secret # s

\* createKey: a key under a new id, or over the key that has the id.  The
\* operator may choose the secret.
CreateKey(k, s) ==
    /\ phase = "idle"
    /\ \E policy \in Policies : keys' = [keys EXCEPT ![k] = NewKey(s, policy)]
    /\ revoked' = revoked \ {s}
    /\ unsaved' = unsaved \cup {k}
    /\ phase' = "saving"
    /\ UNCHANGED <<plans, disk, patch, learner, overwritten>>

DeleteKey(k) ==
    /\ phase = "idle"
    /\ keys[k] # None
    /\ keys' = [keys EXCEPT ![k] = None]
    /\ unsaved' = unsaved \cup {k}
    /\ phase' = "saving"
    /\ UNCHANGED <<plans, disk, patch, learner, revoked, overwritten>>

RotateKey(k) ==
    /\ phase = "idle"
    /\ keys[k] # None
    /\ \E s \in Secrets :
          /\ Fresh(s)
          /\ keys' = [keys EXCEPT ![k] = Resecreted(keys[k], s)]
    /\ unsaved' = unsaved \cup {k}
    /\ phase' = "saving"
    /\ UNCHANGED <<plans, disk, patch, learner, revoked, overwritten>>

\* patchKey reads the whole key, under mu alone.
PatchReads(h, k) ==
    /\ patch[h] = NoPatch
    /\ keys[k] # None
    /\ patch' = [patch EXCEPT ![h] = [id |-> k, read |-> keys[k]]]
    /\ UNCHANGED <<memory, disk, phase, learner, history>>

\* What a patch may make of what it read: another policy, another secret, both.
Patched(read, secrets) ==
    {[key EXCEPT !.policy = policy] :
        key \in {read} \cup {Resecreted(read, s) : s \in secrets}, policy \in Policies}

\* UpsertKey puts back all of it, whatever has become of the key.
PatchWrites(h) ==
    /\ phase = "idle"
    /\ patch[h] # NoPatch
    /\ LET k == patch[h].id
       IN  \E written \in Patched(patch[h].read, Secrets) :
              /\ keys' = [keys EXCEPT ![k] = written]
              /\ revoked' = IF written.secret = patch[h].read.secret THEN revoked
                            ELSE revoked \ {written.secret}
              /\ overwritten' = IF keys[k] = patch[h].read THEN overwritten
                                ELSE overwritten \cup {k}
              /\ unsaved' = unsaved \cup {k}
    /\ patch' = [patch EXCEPT ![h] = NoPatch]
    /\ phase' = "saving"
    /\ UNCHANGED <<plans, disk, learner>>

\* Mutant of PatchEnds: what was read stays.
PatchForgets(h) ==
    /\ patch[h] # NoPatch
    /\ patch' = [patch EXCEPT ![h].id = None]
    /\ UNCHANGED <<memory, disk, phase, learner, history>>

\* A PATCH request that is refused.
PatchEnds(h) ==
    /\ patch[h] # NoPatch
    /\ patch' = [patch EXCEPT ![h] = NoPatch]
    /\ UNCHANGED <<memory, disk, phase, learner, history>>

--------------------------------------------------------------------------------
(* Operations on plans: the database first, then memory.  One that is        *)
(* refused or cannot be saved changes nothing and is no step.                *)

\* Mutant of Publish: the keys keep the bindings they had.
PublishPlans ==
    /\ phase = "publishing"
    /\ plans' = diskPlans
    /\ phase' = "idle"
    /\ UNCHANGED <<keys, disk, patch, learner, history>>

\* replaceConfigurationState: memory takes what was saved.
Publish ==
    /\ phase = "publishing"
    /\ keys' = diskKeys
    /\ plans' = diskPlans
    /\ phase' = "idle"
    /\ UNCHANGED <<disk, patch, learner, history>>

\* The keys once exactly the members of bound are bound to p.
Rebound(p, bound) ==
    [k \in Ids |->
        IF keys[k] = None THEN None
        ELSE IF k \in bound THEN [keys[k] EXCEPT !.plan = p]
        ELSE IF keys[k].plan = p THEN [keys[k] EXCEPT !.plan = None]
        ELSE keys[k]]

\* Only keys that exist and have no other plan may be bound.
MayBind(p, bound) == \A k \in bound : keys[k] # None /\ keys[k].plan \in {None, p}

CreatePlan(p, bound) ==
    /\ phase = "idle"
    /\ p \notin plans
    /\ MayBind(p, bound)
    /\ Store(Rebound(p, bound), plans \cup {p})
    /\ phase' = "publishing"
    /\ UNCHANGED <<memory, patch, learner, overwritten>>

\* patchSubscriptionPlan on a plan that is still there: its fields, and its
\* bindings only on demand.
UpdatePlan(p) ==
    /\ phase = "idle"
    /\ p \in plans
    /\ \/ Store(keys, plans)
       \/ \E bound \in SUBSET Ids : MayBind(p, bound) /\ Store(Rebound(p, bound), plans)
    /\ phase' = "publishing"
    /\ UNCHANGED <<memory, patch, learner, overwritten>>

\* Mutant of DeletePlan: the plan goes and its keys stay bound.
DeletePlanOnly(p) ==
    /\ phase = "idle"
    /\ p \in plans
    /\ Store(keys, plans \ {p})
    /\ phase' = "publishing"
    /\ UNCHANGED <<memory, patch, learner, overwritten>>

DeletePlan(p) ==
    /\ phase = "idle"
    /\ p \in plans
    /\ Store(Rebound(p, {}), plans \ {p})
    /\ phase' = "publishing"
    /\ UNCHANGED <<memory, patch, learner, overwritten>>

\* SetKeySubscriptionPlan, with p = None to unbind.
SetPlan(k, p) ==
    /\ phase = "idle"
    /\ keys[k] # None
    /\ p \in plans \cup {None}
    /\ keys[k].plan # p
    /\ Store([keys EXCEPT ![k].plan = p], plans)
    /\ phase' = "publishing"
    /\ UNCHANGED <<memory, patch, learner, overwritten>>

--------------------------------------------------------------------------------
(* Previews of keys that came without one, learnt from requests.             *)

\* rebuildKeysByHashLocked: of the keys with one secret the first is found.
Found(s) ==
    LET found == {k \in Present(keys) : keys[k].secret = s}
    IN  {k \in found : \A other \in found : k <= other}

\* The request finds its key, under mu alone.
LearnerReads(t) ==
    /\ learner[t] = NoLearner
    /\ \E s \in Secrets, k \in Ids :
          /\ k \in Found(s)
          /\ keys[k].preview = None
          /\ learner' = [learner EXCEPT ![t] = [id |-> k, secret |-> s, saved |-> FALSE]]
    /\ UNCHANGED <<memory, disk, phase, patch, history>>

\* The key in table is still the one the learner knows, and has no preview.
Learnable(table, t) ==
    /\ table[learner[t].id] # None
    /\ table[learner[t].id].secret = learner[t].secret
    /\ table[learner[t].id].preview = None

\* Mutant of LearnerSaves: the key is not looked up again.
LearnerSavesBlindly(t) ==
    /\ phase = "idle"
    /\ learner[t] # NoLearner
    /\ diskKeys[learner[t].id] # None
    /\ diskKeys' = [diskKeys EXCEPT ![learner[t].id].preview = learner[t].secret]
    /\ learner' = [learner EXCEPT ![t].saved = TRUE]
    /\ phase' = "learning"
    /\ UNCHANGED <<memory, diskPlans, patch, history>>

\* Mutant of LearnerSaves: the row becomes the key as it was read.
LearnerRestores(t) ==
    /\ phase = "idle"
    /\ learner[t] # NoLearner
    /\ diskKeys[learner[t].id] # None
    /\ diskKeys' = [diskKeys EXCEPT ![learner[t].id] =
                        Resecreted(diskKeys[learner[t].id], learner[t].secret)]
    /\ learner' = [learner EXCEPT ![t].saved = TRUE]
    /\ phase' = "learning"
    /\ UNCHANGED <<memory, diskPlans, patch, history>>

\* With updateMu it looks again, in memory and in the database, and updates
\* the row.
LearnerSaves(t) ==
    /\ phase = "idle"
    /\ learner[t] # NoLearner
    /\ Learnable(keys, t)
    /\ Learnable(diskKeys, t)
    /\ diskKeys' = [diskKeys EXCEPT ![learner[t].id].preview = learner[t].secret]
    /\ learner' = [learner EXCEPT ![t].saved = TRUE]
    /\ phase' = "learning"
    /\ UNCHANGED <<memory, diskPlans, patch, history>>

\* The key has changed, in memory or in the database, or the update failed.
LearnerGivesUp(t) ==
    /\ phase = "idle"
    /\ learner[t] # NoLearner
    /\ learner' = [learner EXCEPT ![t] = NoLearner]
    /\ UNCHANGED <<memory, disk, phase, patch, history>>

LearnerPublishes(t) ==
    /\ learner[t].saved
    /\ keys' = IF Learnable(keys, t)
               THEN [keys EXCEPT ![learner[t].id].preview = learner[t].secret]
               ELSE keys
    /\ learner' = [learner EXCEPT ![t] = NoLearner]
    /\ phase' = "idle"
    /\ UNCHANGED <<plans, disk, patch, history>>

--------------------------------------------------------------------------------

\* Configure on the same database, without the process dying: what could not
\* be saved is lost, and requests go on with what they have read.
Reconfigure ==
    /\ phase = "idle"
    /\ keys' = diskKeys
    /\ plans' = diskPlans
    /\ unsaved' = {}
    /\ UNCHANGED <<disk, phase, patch, learner, revoked, overwritten>>

\* The process dies and Configure loads the database.
Restart ==
    /\ keys' = diskKeys
    /\ plans' = diskPlans
    /\ phase' = "idle"
    /\ patch' = [h \in Patches |-> NoPatch]
    /\ learner' = [t \in Learners |-> NoLearner]
    /\ unsaved' = {}
    /\ UNCHANGED <<disk, revoked, overwritten>>

KeyOperation ==
    \/ \E k \in Ids : DeleteKey(k) \/ RotateKey(k) \/ \E s \in Secrets : CreateKey(k, s)
    \/ \E h \in Patches : PatchWrites(h)
    \/ Save \/ SaveFails

PlanOperation ==
    \/ \E p \in Plans : UpdatePlan(p) \/ DeletePlan(p) \/ \E bound \in SUBSET Ids : CreatePlan(p, bound)
    \/ \E k \in Ids, p \in Plans \cup {None} : SetPlan(k, p)
    \/ Publish

PatchStep(h) == PatchEnds(h) \/ \E k \in Ids : PatchReads(h, k)

LearnerStep(t) ==
    LearnerReads(t) \/ LearnerSaves(t) \/ LearnerGivesUp(t) \/ LearnerPublishes(t)

Next ==
    \/ KeyOperation
    \/ PlanOperation
    \/ \E h \in Patches : PatchStep(h)
    \/ \E t \in Learners : LearnerStep(t)
    \/ Reconfigure
    \/ Restart

Spec == Init /\ [][Next]_vars

--------------------------------------------------------------------------------
(* Properties.                                                               *)

\* Between operations the database holds the plans and every key that is in
\* memory, but for keys whose last change could not be saved: what an operation
\* reported as done survives a restart (saveConfigurationState, store.go 866;
\* replaceConfigurationState; learnKeyPreview).
MemorySaved ==
    phase = "idle" =>
        /\ plans = diskPlans
        /\ \A k \in Ids \ unsaved : keys[k] = diskKeys[k]

\* The preview shown for a key is that of the key's own secret, in memory and
\* in the database, however a rotation, a patch and a request that learns the
\* preview overlap (learnKeyPreview, store.go 593-640; updateKeyPreview).
PreviewHonest ==
    \A table \in {keys, diskKeys} :
        \A k \in Present(table) : table[k].preview \in {None, table[k].secret}

\* A secret that was rotated out, replaced or deleted authenticates nobody, now
\* or after a restart, until an operator chooses it again; only a patch that
\* was under way when its key changed can bring one back (app.go 518, 554).
RevokedStaysDead ==
    \A table \in {keys, diskKeys} :
        \A k \in Present(table) \ overwritten : table[k].secret \notin revoked

\* A key is bound to a plan that exists, or to none, in memory and in the
\* database alike, with the same exception (DeleteSubscriptionPlan,
\* SetKeySubscriptionPlan, UpsertSubscriptionPlan).
BoundToPlans(keyTable, planTable, exempt) ==
    \A k \in Present(keyTable) \ exempt :
        keyTable[k].plan \in planTable \cup {None}

BindingsKept ==
    /\ BoundToPlans(keys, plans, overwritten)
    /\ BoundToPlans(diskKeys, diskPlans, overwritten)

\* What the console tells the operator: after a rotation the old key becomes
\* invalid immediately, and a deletion cannot be undone (en.json 64, 65).
RevokedInvalid ==
    \A k \in Present(keys) : keys[k].secret \notin revoked

================================================================================
