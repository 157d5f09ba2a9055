---------------------------- MODULE KeyStore_proofs ----------------------------
(***************************************************************************)
(* What KeyStore guarantees for any numbers of keys, plans, secrets and    *)
(* threads.                                                                *)
(***************************************************************************)
EXTENDS KeyStore, TLAPS

USE NoneAssumption

--------------------------------------------------------------------------------
(* Type correctness.                                                         *)

\* The fields of what a thread has read: of the patch, once there is one.
LEMMA PatchRead ==
    ASSUME TypeOK, NEW h \in Patches, patch[h] # NoPatch
    PROVE  patch[h] \in [id : Ids, read : Key] /\ patch[h].id \in Ids /\ patch[h].read \in Key
  BY DEF TypeOK, NoPatch

\* The same of a learner.
LEMMA LearnerRead ==
    ASSUME TypeOK, NEW t \in Learners, learner[t] # NoLearner
    PROVE  /\ learner[t] \in [id : Ids, secret : Secrets, saved : BOOLEAN]
           /\ learner[t].id \in Ids
           /\ learner[t].secret \in Secrets
  BY DEF TypeOK, NoLearner

\* A key with another secret is a key.
LEMMA ResecretedType ==
    ASSUME NEW key \in Key, NEW s \in Secrets
    PROVE  Resecreted(key, s) \in Key
  BY DEF Key, Resecreted

\* A patched key is a key.
LEMMA PatchedType ==
    ASSUME NEW read \in Key, NEW written \in Patched(read, Secrets)
    PROVE  written \in Key
  <1>1. PICK key \in {read} \cup {Resecreted(read, s) : s \in Secrets}, policy \in Policies :
          written = [key EXCEPT !.policy = policy]
    BY DEF Patched
  <1>2. key \in Key
    BY ResecretedType
  <1> QED
    BY <1>1, <1>2 DEF Key

\* Rebinding the keys of a table gives a table.
LEMMA ReboundType ==
    ASSUME TypeOK, NEW p \in Plans, NEW bound \in SUBSET Ids
    PROVE  Rebound(p, bound) \in KeyTable
  BY DEF TypeOK, Rebound, KeyTable, Key

\* What a transaction writes has the types of the tables.
LEMMA StoreType ==
    ASSUME TypeOK, NEW nextKeys \in KeyTable, NEW nextPlans \in SUBSET Plans,
           Store(nextKeys, nextPlans)
    PROVE  /\ diskKeys' \in KeyTable
           /\ diskPlans' \subseteq Plans
           /\ revoked' \subseteq Secrets
           /\ unsaved' \subseteq Ids
  BY DEF TypeOK, Store, SecretsOf, Present, KeyTable, Key

\* Every step keeps the types.
LEMMA TypeStep ==
    ASSUME TypeOK, [Next]_vars
    PROVE  TypeOK'
  <1> USE DEF memory, disk, history
  <1>1. ASSUME NEW k \in Ids, NEW s \in Secrets, CreateKey(k, s)
        PROVE  TypeOK'
    BY <1>1 DEF CreateKey, NewKey, TypeOK, KeyTable, Key, Phases
  <1>2. ASSUME NEW k \in Ids, DeleteKey(k)
        PROVE  TypeOK'
    BY <1>2 DEF DeleteKey, TypeOK, KeyTable, Phases
  <1>3. ASSUME NEW k \in Ids, RotateKey(k)
        PROVE  TypeOK'
    <2>1. PICK s \in Secrets : keys' = [keys EXCEPT ![k] = Resecreted(keys[k], s)]
      BY <1>3 DEF RotateKey
    <2>2. Resecreted(keys[k], s) \in Key
      BY <1>3, ResecretedType DEF RotateKey, TypeOK, KeyTable
    <2> QED
      BY <1>3, <2>1, <2>2 DEF RotateKey, TypeOK, KeyTable, Phases
  <1>4. ASSUME NEW h \in Patches, PatchWrites(h)
        PROVE  TypeOK'
    <2>1. patch[h].id \in Ids /\ patch[h].read \in Key
      BY <1>4, PatchRead DEF PatchWrites
    <2>2. PICK written \in Patched(patch[h].read, Secrets) :
              /\ keys' = [keys EXCEPT ![patch[h].id] = written]
              /\ revoked' = IF written.secret = patch[h].read.secret THEN revoked
                            ELSE revoked \ {written.secret}
              /\ overwritten' = IF keys[patch[h].id] = patch[h].read THEN overwritten
                                ELSE overwritten \cup {patch[h].id}
              /\ unsaved' = unsaved \cup {patch[h].id}
      BY <1>4 DEF PatchWrites
    <2>3. written \in Key
      BY <2>1, <2>2, PatchedType
    <2> QED
      BY <1>4, <2>1, <2>2, <2>3 DEF PatchWrites, TypeOK, KeyTable, Phases
  <1>5. CASE Save
    BY <1>5, StoreType DEF Save, TypeOK, Phases
  <1>6. CASE SaveFails
    BY <1>6 DEF SaveFails, TypeOK, Phases
  <1>7. ASSUME NEW p \in Plans, NEW bound \in SUBSET Ids, CreatePlan(p, bound)
        PROVE  TypeOK'
    BY <1>7, ReboundType, StoreType, plans \cup {p} \in SUBSET Plans DEF CreatePlan, TypeOK, Phases
  <1>8. ASSUME NEW p \in Plans, UpdatePlan(p)
        PROVE  TypeOK'
    BY <1>8, ReboundType, StoreType DEF UpdatePlan, TypeOK, Phases
  <1>9. ASSUME NEW p \in Plans, DeletePlan(p)
        PROVE  TypeOK'
    BY <1>9, ReboundType, StoreType, plans \ {p} \in SUBSET Plans DEF DeletePlan, TypeOK, Phases
  <1>10. ASSUME NEW k \in Ids, NEW p \in Plans \cup {None}, SetPlan(k, p)
         PROVE  TypeOK'
    <2>1. [keys EXCEPT ![k].plan = p] \in KeyTable
      BY <1>10 DEF SetPlan, TypeOK, KeyTable, Key
    <2> QED
      BY <1>10, <2>1, StoreType DEF SetPlan, TypeOK, Phases
  <1>11. CASE Publish
    BY <1>11 DEF Publish, TypeOK, Phases
  <1>12. ASSUME NEW h \in Patches, PatchStep(h)
         PROVE  TypeOK'
    BY <1>12 DEF PatchStep, PatchEnds, PatchReads, TypeOK, KeyTable, Phases
  <1>13. ASSUME NEW t \in Learners, LearnerReads(t)
         PROVE  TypeOK'
    BY <1>13 DEF LearnerReads, TypeOK, Phases
  <1>14. ASSUME NEW t \in Learners, LearnerSaves(t)
         PROVE  TypeOK'
    <2>1. diskKeys[learner[t].id] \in Key
      BY <1>14, LearnerRead DEF LearnerSaves, Learnable, TypeOK, KeyTable
    <2>2. [diskKeys EXCEPT ![learner[t].id].preview = learner[t].secret] \in KeyTable
      BY <1>14, <2>1, LearnerRead DEF LearnerSaves, TypeOK, KeyTable, Key
    <2> QED
      BY <1>14, <2>2, LearnerRead DEF LearnerSaves, TypeOK, Phases
  <1>15. ASSUME NEW t \in Learners, LearnerGivesUp(t)
         PROVE  TypeOK'
    BY <1>15 DEF LearnerGivesUp, TypeOK, Phases
  <1>16. ASSUME NEW t \in Learners, LearnerPublishes(t)
         PROVE  TypeOK'
    <2>1. learner[t] # NoLearner
      BY <1>16 DEF LearnerPublishes, NoLearner
    <2>2. Learnable(keys, t) => [keys EXCEPT ![learner[t].id].preview = learner[t].secret] \in KeyTable
      BY <2>1, LearnerRead DEF Learnable, TypeOK, KeyTable, Key
    <2> QED
      BY <1>16, <2>2 DEF LearnerPublishes, TypeOK, Phases
  <1>17. CASE Reconfigure
    BY <1>17 DEF Reconfigure, TypeOK, Phases
  <1>18. CASE Restart
    BY <1>18 DEF Restart, TypeOK, Phases
  <1>19. CASE UNCHANGED vars
    BY <1>19 DEF vars, TypeOK
  <1> QED
    BY <1>1, <1>2, <1>3, <1>4, <1>5, <1>6, <1>7, <1>8, <1>9, <1>10, <1>11, <1>12, <1>13, <1>14,
       <1>15, <1>16, <1>17, <1>18, <1>19
       DEF Next, KeyOperation, PlanOperation, LearnerStep

LEMMA TypeInit ==
    ASSUME Init
    PROVE  TypeOK
  BY DEF Init, TypeOK, KeyTable, Configured, Phases

\* Every variable keeps its type.
THEOREM KeysTyped == Spec => []TypeOK
  BY TypeInit, TypeStep, PTL DEF Spec

--------------------------------------------------------------------------------
(* Previews.                                                                 *)

Honest(key) == key.preview \in {None, key.secret}

HonestTable(table) == \A k \in Present(table) : Honest(table[k])

\* Neither table, nor anything a patch may write back, shows another key's
\* preview.
PreviewInv ==
    /\ HonestTable(keys)
    /\ HonestTable(diskKeys)
    /\ \A h \in Patches : patch[h] # NoPatch => Honest(patch[h].read)

\* A patch keeps preview and secret together.
LEMMA PatchedHonest ==
    ASSUME NEW read \in Key, Honest(read), NEW written \in Patched(read, Secrets)
    PROVE  Honest(written)
  BY DEF Patched, Resecreted, Honest, Key

\* Binding keys does not touch their previews.
LEMMA ReboundHonest ==
    ASSUME TypeOK, HonestTable(keys), NEW p, NEW bound
    PROVE  HonestTable(Rebound(p, bound))
  BY DEF TypeOK, Rebound, HonestTable, Honest, Present, KeyTable, Key

LEMMA PreviewInit ==
    ASSUME Init
    PROVE  PreviewInv
  BY DEF Init, PreviewInv, HonestTable, Honest, Present, Configured

LEMMA PreviewStep ==
    ASSUME TypeOK, PreviewInv, [Next]_vars
    PROVE  PreviewInv'
  <1> USE DEF memory, disk, history
  <1>1. ASSUME NEW k \in Ids, NEW s \in Secrets, CreateKey(k, s)
        PROVE  PreviewInv'
    BY <1>1 DEF CreateKey, NewKey, PreviewInv, HonestTable, Honest, Present, TypeOK, KeyTable
  <1>2. ASSUME NEW k \in Ids, DeleteKey(k)
        PROVE  PreviewInv'
    BY <1>2 DEF DeleteKey, PreviewInv, HonestTable, Honest, Present, TypeOK, KeyTable
  <1>3. ASSUME NEW k \in Ids, RotateKey(k)
        PROVE  PreviewInv'
    BY <1>3 DEF RotateKey, Resecreted, PreviewInv, HonestTable, Honest, Present, TypeOK, KeyTable
  <1>4. ASSUME NEW h \in Patches, PatchWrites(h)
        PROVE  PreviewInv'
    <2>1. patch[h].id \in Ids /\ patch[h].read \in Key /\ Honest(patch[h].read)
      BY <1>4, PatchRead DEF PatchWrites, PreviewInv
    <2>2. PICK written \in Patched(patch[h].read, Secrets) :
              keys' = [keys EXCEPT ![patch[h].id] = written]
      BY <1>4 DEF PatchWrites
    <2>3. Honest(written)
      BY <2>1, <2>2, PatchedHonest
    <2>4. HonestTable(keys')
      BY <2>1, <2>2, <2>3 DEF PreviewInv, HonestTable, Present, TypeOK, KeyTable
    <2> QED
      BY <1>4, <2>4 DEF PatchWrites, PreviewInv, TypeOK
  <1>5. CASE Save
    BY <1>5 DEF Save, Store, PreviewInv
  <1>6. ASSUME NEW p \in Plans, NEW bound \in SUBSET Ids, CreatePlan(p, bound)
        PROVE  PreviewInv'
    BY <1>6, ReboundHonest DEF CreatePlan, Store, PreviewInv
  <1>7. ASSUME NEW p \in Plans, UpdatePlan(p)
        PROVE  PreviewInv'
    BY <1>7, ReboundHonest DEF UpdatePlan, Store, PreviewInv
  <1>8. ASSUME NEW p \in Plans, DeletePlan(p)
        PROVE  PreviewInv'
    BY <1>8, ReboundHonest DEF DeletePlan, Store, PreviewInv
  <1>9. ASSUME NEW k \in Ids, NEW p \in Plans \cup {None}, SetPlan(k, p)
        PROVE  PreviewInv'
    <2>1. HonestTable([keys EXCEPT ![k].plan = p])
      BY <1>9 DEF SetPlan, PreviewInv, HonestTable, Honest, Present, TypeOK, KeyTable, Key
    <2> QED
      BY <1>9, <2>1 DEF SetPlan, Store, PreviewInv
  <1>10. CASE Publish \/ Reconfigure \/ Restart
    BY <1>10 DEF Publish, Reconfigure, Restart, PreviewInv, NoPatch
  <1>11. ASSUME NEW h \in Patches, PatchStep(h)
         PROVE  PreviewInv'
    BY <1>11 DEF PatchStep, PatchEnds, PatchReads, PreviewInv, HonestTable, Present, TypeOK
  <1>12. ASSUME NEW t \in Learners, LearnerSaves(t)
         PROVE  PreviewInv'
    <2>1. learner[t].id \in Ids /\ diskKeys[learner[t].id] \in Key
      BY <1>12, LearnerRead DEF LearnerSaves, Learnable, TypeOK, KeyTable
    <2>2. HonestTable(diskKeys')
      BY <1>12, <2>1 DEF LearnerSaves, Learnable, PreviewInv, HonestTable, Honest, Present, TypeOK, KeyTable, Key
    <2> QED
      BY <1>12, <2>2 DEF LearnerSaves, PreviewInv
  <1>13. ASSUME NEW t \in Learners, LearnerPublishes(t)
         PROVE  PreviewInv'
    <2>1. CASE Learnable(keys, t)
      <3>1. learner[t].id \in Ids /\ keys[learner[t].id] \in Key
        BY <1>13, <2>1, LearnerRead DEF LearnerPublishes, NoLearner, Learnable, TypeOK, KeyTable
      <3>2. HonestTable(keys')
        BY <1>13, <2>1, <3>1 DEF LearnerPublishes, Learnable, PreviewInv, HonestTable, Honest, Present, TypeOK, KeyTable, Key
      <3> QED
        BY <1>13, <3>2 DEF LearnerPublishes, PreviewInv
    <2>2. CASE ~Learnable(keys, t)
      BY <1>13, <2>2 DEF LearnerPublishes, PreviewInv
    <2> QED
      BY <2>1, <2>2
  <1>14. CASE SaveFails \/ (\E t \in Learners : LearnerReads(t) \/ LearnerGivesUp(t)) \/ UNCHANGED vars
    BY <1>14 DEF SaveFails, LearnerReads, LearnerGivesUp, vars, PreviewInv
  <1> QED
    BY <1>1, <1>2, <1>3, <1>4, <1>5, <1>6, <1>7, <1>8, <1>9, <1>10, <1>11, <1>12, <1>13, <1>14
       DEF Next, KeyOperation, PlanOperation, LearnerStep

\* A preview shown is that of the key's own secret.
THEOREM PreviewsHonest == Spec => []PreviewHonest
  <1>1. Init => TypeOK /\ PreviewInv
    BY TypeInit, PreviewInit
  <1>2. TypeOK /\ PreviewInv /\ [Next]_vars => TypeOK' /\ PreviewInv'
    BY TypeStep, PreviewStep
  <1>3. PreviewInv => PreviewHonest
    BY DEF PreviewInv, HonestTable, Honest, PreviewHonest
  <1> QED
    BY <1>1, <1>2, <1>3, PTL DEF Spec

--------------------------------------------------------------------------------
(* Bindings.                                                                 *)

\* Binding exactly the keys in bound to p leaves every binding to a plan that
\* existed, or to p if a key is in bound.
LEMMA ReboundBinds ==
    ASSUME TypeOK, BoundToPlans(keys, plans, overwritten), NEW p \in Plans, NEW bound \in SUBSET Ids,
           NEW nextPlans, plans \ {p} \subseteq nextPlans, bound # {} => p \in nextPlans
    PROVE  BoundToPlans(Rebound(p, bound), nextPlans, overwritten)
  <1> SUFFICES ASSUME NEW k \in Present(Rebound(p, bound)) \ overwritten
               PROVE  Rebound(p, bound)[k].plan \in nextPlans \cup {None}
    BY DEF BoundToPlans
  <1>1. k \in Ids /\ keys[k] \in Key /\ keys[k].plan \in plans \cup {None}
    BY DEF Present, Rebound, BoundToPlans, TypeOK, KeyTable
  <1>2. CASE k \in bound
    <2>1. Rebound(p, bound)[k] = [keys[k] EXCEPT !.plan = p]
      BY <1>1, <1>2 DEF Rebound
    <2> QED
      BY <1>1, <1>2, <2>1 DEF Key
  <1>3. CASE k \notin bound /\ keys[k].plan = p
    <2>1. Rebound(p, bound)[k] = [keys[k] EXCEPT !.plan = None]
      BY <1>1, <1>3 DEF Rebound
    <2> QED
      BY <1>1, <2>1 DEF Key
  <1>4. CASE k \notin bound /\ keys[k].plan # p
    BY <1>1, <1>4 DEF Rebound
  <1> QED
    BY <1>2, <1>3, <1>4

LEMMA BindingsInit ==
    ASSUME Init
    PROVE  BindingsKept
  BY DEF Init, BindingsKept, BoundToPlans, Present, Configured

LEMMA BindingsStep ==
    ASSUME TypeOK, BindingsKept, [Next]_vars
    PROVE  BindingsKept'
  <1> USE DEF memory, disk, history
  <1>1. ASSUME NEW k \in Ids, NEW s \in Secrets, CreateKey(k, s)
        PROVE  BindingsKept'
    BY <1>1 DEF CreateKey, NewKey, BindingsKept, BoundToPlans, Present, TypeOK, KeyTable
  <1>2. ASSUME NEW k \in Ids, DeleteKey(k)
        PROVE  BindingsKept'
    BY <1>2 DEF DeleteKey, BindingsKept, BoundToPlans, Present, TypeOK, KeyTable
  <1>3. ASSUME NEW k \in Ids, RotateKey(k)
        PROVE  BindingsKept'
    BY <1>3 DEF RotateKey, Resecreted, BindingsKept, BoundToPlans, Present, TypeOK, KeyTable
  <1>4. ASSUME NEW h \in Patches, PatchWrites(h)
        PROVE  BindingsKept'
    <2>1. patch[h].id \in Ids /\ patch[h].read \in Key
      BY <1>4, PatchRead DEF PatchWrites
    <2>2. PICK written \in Patched(patch[h].read, Secrets) :
              /\ keys' = [keys EXCEPT ![patch[h].id] = written]
              /\ overwritten' = IF keys[patch[h].id] = patch[h].read THEN overwritten
                                ELSE overwritten \cup {patch[h].id}
      BY <1>4 DEF PatchWrites
    <2>3. written.plan = patch[h].read.plan
      BY <2>1, <2>2 DEF Patched, Resecreted, Key
    <2>4. ASSUME NEW k \in Present(keys') \ overwritten'
          PROVE  keys'[k].plan \in plans \cup {None}
      <3>1. CASE k = patch[h].id
        BY <2>1, <2>2, <2>3, <2>4, <3>1 DEF BindingsKept, BoundToPlans, Present, TypeOK, KeyTable
      <3>2. CASE k # patch[h].id
        BY <2>1, <2>2, <2>4, <3>2 DEF BindingsKept, BoundToPlans, Present, TypeOK, KeyTable
      <3> QED
        BY <3>1, <3>2
    <2>5. UNCHANGED <<plans, diskKeys, diskPlans>> /\ overwritten \subseteq overwritten'
      BY <1>4, <2>2 DEF PatchWrites
    <2> QED
      BY <2>4, <2>5 DEF BindingsKept, BoundToPlans, Present
  <1>5. CASE Save
    BY <1>5 DEF Save, Store, BindingsKept, BoundToPlans, Present
  <1>6. ASSUME NEW p \in Plans, NEW bound \in SUBSET Ids, CreatePlan(p, bound)
        PROVE  BindingsKept'
    <2>1. BoundToPlans(Rebound(p, bound), plans \cup {p}, overwritten)
      BY ReboundBinds DEF BindingsKept
    <2> QED
      BY <1>6, <2>1 DEF CreatePlan, Store, BindingsKept, BoundToPlans, Present
  <1>7. ASSUME NEW p \in Plans, UpdatePlan(p)
        PROVE  BindingsKept'
    <2>1. ASSUME NEW bound \in SUBSET Ids
          PROVE  BoundToPlans(Rebound(p, bound), plans, overwritten)
      BY <1>7, ReboundBinds DEF UpdatePlan, BindingsKept
    <2> QED
      BY <1>7, <2>1 DEF UpdatePlan, Store, BindingsKept, BoundToPlans, Present
  <1>8. ASSUME NEW p \in Plans, DeletePlan(p)
        PROVE  BindingsKept'
    <2>1. BoundToPlans(Rebound(p, {}), plans \ {p}, overwritten)
      BY ReboundBinds DEF BindingsKept
    <2> QED
      BY <1>8, <2>1 DEF DeletePlan, Store, BindingsKept, BoundToPlans, Present
  <1>9. ASSUME NEW k \in Ids, NEW p \in Plans \cup {None}, SetPlan(k, p)
        PROVE  BindingsKept'
    <2>1. BoundToPlans([keys EXCEPT ![k].plan = p], plans, overwritten)
      BY <1>9 DEF SetPlan, BindingsKept, BoundToPlans, Present, TypeOK, KeyTable, Key
    <2> QED
      BY <1>9, <2>1 DEF SetPlan, Store, BindingsKept, BoundToPlans, Present
  <1>10. CASE Publish \/ Reconfigure \/ Restart
    BY <1>10 DEF Publish, Reconfigure, Restart, BindingsKept, BoundToPlans, Present
  <1>11. ASSUME NEW t \in Learners, LearnerSaves(t)
         PROVE  BindingsKept'
    <2>1. learner[t].id \in Ids /\ diskKeys[learner[t].id] \in Key
      BY <1>11, LearnerRead DEF LearnerSaves, Learnable, TypeOK, KeyTable
    <2> QED
      BY <1>11, <2>1 DEF LearnerSaves, BindingsKept, BoundToPlans, Present, TypeOK, KeyTable, Key
  <1>12. ASSUME NEW t \in Learners, LearnerPublishes(t)
         PROVE  BindingsKept'
    <2>1. Learnable(keys, t) => learner[t].id \in Ids /\ keys[learner[t].id] \in Key
      BY <1>12, LearnerRead DEF LearnerPublishes, NoLearner, Learnable, TypeOK, KeyTable
    <2> QED
      BY <1>12, <2>1 DEF LearnerPublishes, BindingsKept, BoundToPlans, Present, TypeOK, KeyTable, Key
  <1>13. CASE \/ SaveFails
              \/ \E h \in Patches : PatchStep(h)
              \/ \E t \in Learners : LearnerReads(t) \/ LearnerGivesUp(t)
              \/ UNCHANGED vars
    BY <1>13 DEF SaveFails, PatchStep, PatchReads, PatchEnds, LearnerReads, LearnerGivesUp, vars,
                 BindingsKept, BoundToPlans, Present
  <1> QED
    BY <1>1, <1>2, <1>3, <1>4, <1>5, <1>6, <1>7, <1>8, <1>9, <1>10, <1>11, <1>12, <1>13
       DEF Next, KeyOperation, PlanOperation, LearnerStep

\* A key is bound to a plan that exists, unless a patch under way overwrote
\* a later change of the key.
THEOREM BindingsHold == Spec => []BindingsKept
  <1>1. Init => TypeOK /\ BindingsKept
    BY TypeInit, BindingsInit
  <1>2. TypeOK /\ BindingsKept /\ [Next]_vars => TypeOK' /\ BindingsKept'
    BY TypeStep, BindingsStep
  <1> QED
    BY <1>1, <1>2, PTL DEF Spec

--------------------------------------------------------------------------------
(* Revoked secrets.                                                          *)

\* A table without revoked secrets, but for overwritten keys.
Clean(table) == \A k \in Present(table) \ overwritten : table[k].secret \notin revoked

\* A transaction revokes only what it does not write.
LEMMA StoreClean ==
    ASSUME NEW nextKeys, NEW nextPlans, Store(nextKeys, nextPlans), UNCHANGED overwritten,
           Clean(nextKeys), NEW table, Clean(table),
           \A k \in Present(table) : table[k].secret \in SecretsOf(nextKeys)
    PROVE  \A k \in Present(table) \ overwritten' : table[k].secret \notin revoked'
  BY DEF Store, Clean

\* The secrets and the keys present are the same after binding.
LEMMA ReboundSecrets ==
    ASSUME TypeOK, NEW p \in Plans, NEW bound
    PROVE  /\ Present(Rebound(p, bound)) = Present(keys)
           /\ \A k \in Present(keys) : Rebound(p, bound)[k].secret = keys[k].secret
  <1>1. ASSUME NEW k \in Ids, keys[k] # None, NEW to \in Plans \cup {None}
        PROVE  [keys[k] EXCEPT !.plan = to] # None /\ [keys[k] EXCEPT !.plan = to].secret = keys[k].secret
    <2>1. keys[k] \in Key
      BY <1>1 DEF TypeOK, KeyTable
    <2>2. [keys[k] EXCEPT !.plan = to].secret = keys[k].secret
      BY <2>1 DEF Key
    <2> QED
      BY <2>1, <2>2 DEF Key
  <1>2. ASSUME NEW k \in Ids
        PROVE  /\ Rebound(p, bound)[k] # None <=> keys[k] # None
               /\ keys[k] # None => Rebound(p, bound)[k].secret = keys[k].secret
    BY <1>1 DEF Rebound
  <1> QED
    BY <1>2 DEF Present

\* A transaction that stores the present secrets, after which memory is the
\* same or takes what was stored.
LEMMA StoreRevokes ==
    ASSUME NEW nextKeys, NEW nextPlans, Store(nextKeys, nextPlans),
           RevokedStaysDead, UNCHANGED <<keys, overwritten>>,
           Present(nextKeys) = Present(keys),
           \A k \in Present(keys) : nextKeys[k].secret = keys[k].secret
    PROVE  RevokedStaysDead'
  <1>1. Clean(keys)
    BY DEF RevokedStaysDead, Clean
  <1>2. Clean(nextKeys)
    BY <1>1 DEF Clean
  <1>3. \A k \in Present(keys) : keys[k].secret \in SecretsOf(nextKeys)
    BY DEF SecretsOf
  <1>4. \A k \in Present(nextKeys) : nextKeys[k].secret \in SecretsOf(nextKeys)
    BY DEF SecretsOf
  <1>5. \A k \in Present(keys) \ overwritten' : keys[k].secret \notin revoked'
    BY <1>1, <1>2, <1>3, StoreClean
  <1>6. \A k \in Present(nextKeys) \ overwritten' : nextKeys[k].secret \notin revoked'
    BY <1>2, <1>4, StoreClean
  <1>7. keys' = keys /\ diskKeys' = nextKeys
    BY DEF Store
  <1> QED
    BY <1>5, <1>6, <1>7 DEF RevokedStaysDead, Present

LEMMA RevokedStep ==
    ASSUME TypeOK, RevokedStaysDead, [Next]_vars
    PROVE  RevokedStaysDead'
  <1> USE DEF memory, disk, history
  <1>1. ASSUME NEW k \in Ids, NEW s \in Secrets, CreateKey(k, s)
        PROVE  RevokedStaysDead'
    BY <1>1 DEF CreateKey, NewKey, RevokedStaysDead, Present, TypeOK, KeyTable
  <1>2. ASSUME NEW k \in Ids, DeleteKey(k)
        PROVE  RevokedStaysDead'
    BY <1>2 DEF DeleteKey, RevokedStaysDead, Present, TypeOK, KeyTable
  <1>3. ASSUME NEW k \in Ids, RotateKey(k)
        PROVE  RevokedStaysDead'
    BY <1>3 DEF RotateKey, Fresh, Resecreted, RevokedStaysDead, Present, TypeOK, KeyTable
  <1>4. ASSUME NEW h \in Patches, PatchWrites(h)
        PROVE  RevokedStaysDead'
    <2>1. patch[h].id \in Ids /\ patch[h].read \in Key
      BY <1>4, PatchRead DEF PatchWrites
    <2>2. PICK written \in Patched(patch[h].read, Secrets) :
              /\ keys' = [keys EXCEPT ![patch[h].id] = written]
              /\ revoked' = IF written.secret = patch[h].read.secret THEN revoked
                            ELSE revoked \ {written.secret}
              /\ overwritten' = IF keys[patch[h].id] = patch[h].read THEN overwritten
                                ELSE overwritten \cup {patch[h].id}
      BY <1>4 DEF PatchWrites
    <2>3. UNCHANGED diskKeys /\ overwritten \subseteq overwritten' /\ revoked' \subseteq revoked
      BY <1>4, <2>2 DEF PatchWrites
    <2>4. ASSUME NEW k \in Present(keys') \ overwritten'
          PROVE  keys'[k].secret \notin revoked'
      <3>1. CASE k = patch[h].id
        BY <2>1, <2>2, <2>4, <3>1 DEF RevokedStaysDead, Present, TypeOK, KeyTable
      <3>2. CASE k # patch[h].id
        BY <2>1, <2>2, <2>3, <2>4, <3>2 DEF RevokedStaysDead, Present, TypeOK, KeyTable
      <3> QED
        BY <3>1, <3>2
    <2> QED
      BY <2>3, <2>4 DEF RevokedStaysDead, Present
  <1>5. CASE Save
    BY <1>5, StoreRevokes DEF Save
  <1>6. ASSUME NEW p \in Plans, NEW bound \in SUBSET Ids, CreatePlan(p, bound)
        PROVE  RevokedStaysDead'
    BY <1>6, ReboundSecrets, StoreRevokes DEF CreatePlan
  <1>7. ASSUME NEW p \in Plans, UpdatePlan(p)
        PROVE  RevokedStaysDead'
    BY <1>7, ReboundSecrets, StoreRevokes DEF UpdatePlan
  <1>8. ASSUME NEW p \in Plans, DeletePlan(p)
        PROVE  RevokedStaysDead'
    BY <1>8, ReboundSecrets, StoreRevokes DEF DeletePlan
  <1>9. ASSUME NEW k \in Ids, NEW p \in Plans \cup {None}, SetPlan(k, p)
        PROVE  RevokedStaysDead'
    <2> DEFINE next == [keys EXCEPT ![k].plan = p]
    <2>1. Store(next, plans) /\ UNCHANGED <<keys, overwritten>> /\ keys[k] # None
      BY <1>9 DEF SetPlan
    <2>2. /\ Present(next) = Present(keys)
          /\ \A other \in Present(keys) : next[other].secret = keys[other].secret
      BY <2>1 DEF Present, TypeOK, KeyTable, Key
    <2> HIDE DEF next
    <2> QED
      BY <2>1, <2>2, StoreRevokes
  <1>10. CASE Publish \/ Reconfigure \/ Restart
    BY <1>10 DEF Publish, Reconfigure, Restart, RevokedStaysDead, Present
  <1>11. ASSUME NEW t \in Learners, LearnerSaves(t)
         PROVE  RevokedStaysDead'
    <2>1. learner[t].id \in Ids /\ diskKeys[learner[t].id] \in Key
      BY <1>11, LearnerRead DEF LearnerSaves, Learnable, TypeOK, KeyTable
    <2> QED
      BY <1>11, <2>1 DEF LearnerSaves, RevokedStaysDead, Present, TypeOK, KeyTable, Key
  <1>12. ASSUME NEW t \in Learners, LearnerPublishes(t)
         PROVE  RevokedStaysDead'
    <2>1. Learnable(keys, t) => learner[t].id \in Ids /\ keys[learner[t].id] \in Key
      BY <1>12, LearnerRead DEF LearnerPublishes, NoLearner, Learnable, TypeOK, KeyTable
    <2> QED
      BY <1>12, <2>1 DEF LearnerPublishes, RevokedStaysDead, Present, TypeOK, KeyTable, Key
  <1>13. CASE \/ SaveFails
              \/ \E h \in Patches : PatchStep(h)
              \/ \E t \in Learners : LearnerReads(t) \/ LearnerGivesUp(t)
              \/ UNCHANGED vars
    BY <1>13 DEF SaveFails, PatchStep, PatchReads, PatchEnds, LearnerReads, LearnerGivesUp, vars,
                 RevokedStaysDead, Present
  <1> QED
    BY <1>1, <1>2, <1>3, <1>4, <1>5, <1>6, <1>7, <1>8, <1>9, <1>10, <1>11, <1>12, <1>13
       DEF Next, KeyOperation, PlanOperation, LearnerStep

\* A secret that was rotated out, replaced or deleted authenticates nobody, with
\* the same exception.
THEOREM RevokedDead == Spec => []RevokedStaysDead
  <1>1. Init => TypeOK /\ RevokedStaysDead
    BY TypeInit DEF Init, RevokedStaysDead
  <1>2. TypeOK /\ RevokedStaysDead /\ [Next]_vars => TypeOK' /\ RevokedStaysDead'
    BY TypeStep, RevokedStep
  <1> QED
    BY <1>1, <1>2, PTL DEF Spec

--------------------------------------------------------------------------------
(* Memory and database.                                                      *)

\* But for unsaved keys, and one whose preview is known to the database only,
\* memory is what the database holds unless a transaction has still to be
\* published; then nothing is unsaved.
SavedInv ==
    /\ phase # "publishing" => plans = diskPlans
    /\ phase \in {"idle", "saving"} => \A k \in Ids \ unsaved : keys[k] = diskKeys[k]
    /\ phase = "publishing" => unsaved = {}
    /\ \A t \in Learners : learner[t].saved =>
          /\ phase = "learning"
          /\ Learnable(keys, t)
          /\ \A k \in Ids \ unsaved :
                diskKeys[k] = IF k = learner[t].id
                              THEN [keys[k] EXCEPT !.preview = learner[t].secret]
                              ELSE keys[k]
    /\ \A t, other \in Learners : learner[t].saved /\ learner[other].saved => t = other

LEMMA SavedInit ==
    ASSUME Init
    PROVE  SavedInv
  BY DEF Init, SavedInv, NoLearner

LEMMA SavedStep ==
    ASSUME TypeOK, SavedInv, [Next]_vars
    PROVE  SavedInv'
  <1> USE DEF memory, disk, history
  <1>1. ASSUME NEW k \in Ids, NEW s \in Secrets, CreateKey(k, s)
        PROVE  SavedInv'
    BY <1>1 DEF CreateKey, SavedInv, TypeOK, KeyTable
  <1>2. ASSUME NEW k \in Ids, DeleteKey(k)
        PROVE  SavedInv'
    BY <1>2 DEF DeleteKey, SavedInv, TypeOK, KeyTable
  <1>3. ASSUME NEW k \in Ids, RotateKey(k)
        PROVE  SavedInv'
    BY <1>3 DEF RotateKey, SavedInv, TypeOK, KeyTable
  <1>4. ASSUME NEW h \in Patches, PatchWrites(h)
        PROVE  SavedInv'
    BY <1>4, PatchRead DEF PatchWrites, SavedInv, TypeOK, KeyTable
  <1>5. CASE Save \/ SaveFails
    BY <1>5 DEF Save, SaveFails, Store, SavedInv
  <1>6. CASE PlanOperation /\ ~Publish
    <2>1. phase = "idle" /\ phase' = "publishing" /\ unsaved' = {} /\ learner' = learner
      BY <1>6 DEF PlanOperation, CreatePlan, UpdatePlan, DeletePlan, SetPlan, Store
    <2> QED
      BY <2>1 DEF SavedInv
  <1>7. CASE Publish
    BY <1>7 DEF Publish, SavedInv
  <1>8. CASE Reconfigure \/ Restart
    BY <1>8 DEF Reconfigure, Restart, SavedInv, NoLearner
  <1>9. ASSUME NEW h \in Patches, PatchStep(h)
        PROVE  SavedInv'
    BY <1>9 DEF PatchStep, PatchEnds, PatchReads, SavedInv, Learnable
  <1>10. ASSUME NEW t \in Learners, LearnerReads(t)
         PROVE  SavedInv'
    <2>1. PICK s \in Secrets, k \in Ids :
              learner' = [learner EXCEPT ![t] = [id |-> k, secret |-> s, saved |-> FALSE]]
      BY <1>10 DEF LearnerReads
    <2>2. ~learner'[t].saved /\ \A other \in Learners \ {t} : learner'[other] = learner[other]
      BY <2>1 DEF TypeOK
    <2> QED
      BY <1>10, <2>2 DEF LearnerReads, SavedInv, Learnable
  <1>11. ASSUME NEW t \in Learners, LearnerSaves(t)
         PROVE  SavedInv'
    <2>1. learner[t].id \in Ids /\ learner[t] \in [id : Ids, secret : Secrets, saved : BOOLEAN]
      BY <1>11, LearnerRead DEF LearnerSaves
    <2>2. learner' = [learner EXCEPT ![t] = [learner[t] EXCEPT !.saved = TRUE]]
      BY <1>11 DEF LearnerSaves, TypeOK
    <2>3. /\ learner'[t].saved /\ learner'[t].id = learner[t].id /\ learner'[t].secret = learner[t].secret
          /\ \A other \in Learners \ {t} : learner'[other] = learner[other]
      BY <2>1, <2>2 DEF TypeOK
    <2>4. \A other \in Learners \ {t} : ~learner'[other].saved
      BY <1>11, <2>3 DEF LearnerSaves, SavedInv
    <2>5. Learnable(keys, t)'
      BY <1>11, <2>3 DEF LearnerSaves, Learnable
    <2>6. \A k \in Ids \ unsaved :
             diskKeys'[k] = IF k = learner[t].id
                            THEN [keys[k] EXCEPT !.preview = learner[t].secret]
                            ELSE keys[k]
      BY <1>11, <2>1 DEF LearnerSaves, SavedInv, TypeOK, KeyTable
    <2>7. /\ phase = "idle" /\ phase' = "learning"
          /\ UNCHANGED <<keys, plans, diskPlans, unsaved>>
      BY <1>11 DEF LearnerSaves
    <2> QED
      BY <2>3, <2>4, <2>5, <2>6, <2>7 DEF SavedInv
  <1>12. ASSUME NEW t \in Learners, LearnerGivesUp(t)
         PROVE  SavedInv'
    BY <1>12 DEF LearnerGivesUp, SavedInv, Learnable, NoLearner, TypeOK
  <1>13. ASSUME NEW t \in Learners, LearnerPublishes(t)
         PROVE  SavedInv'
    <2>1. learner[t].saved /\ phase = "learning" /\ Learnable(keys, t)
      BY <1>13 DEF LearnerPublishes, SavedInv
    <2>2. learner[t].id \in Ids
      BY <2>1, LearnerRead DEF NoLearner
    <2>3. keys' = [keys EXCEPT ![learner[t].id].preview = learner[t].secret]
      BY <1>13, <2>1 DEF LearnerPublishes
    <2>4. \A k \in Ids \ unsaved : keys'[k] = diskKeys[k]
      BY <2>1, <2>2, <2>3 DEF SavedInv, TypeOK, KeyTable
    <2>5. /\ learner' = [learner EXCEPT ![t] = NoLearner] /\ phase' = "idle"
          /\ UNCHANGED <<plans, diskKeys, diskPlans, unsaved>>
      BY <1>13 DEF LearnerPublishes
    <2>6. \A other \in Learners : ~learner'[other].saved
      BY <2>1, <2>5 DEF SavedInv, NoLearner, TypeOK
    <2> QED
      BY <2>1, <2>4, <2>5, <2>6 DEF SavedInv
  <1>14. CASE UNCHANGED vars
    BY <1>14 DEF vars, SavedInv, Learnable
  <1> QED
    BY <1>1, <1>2, <1>3, <1>4, <1>5, <1>6, <1>7, <1>8, <1>9, <1>10, <1>11, <1>12, <1>13, <1>14
       DEF Next, KeyOperation, LearnerStep

\* Between operations memory is what the database holds, but for keys whose last
\* change could not be saved.
THEOREM ConfigurationSaved == Spec => []MemorySaved
  <1>1. Init => TypeOK /\ SavedInv
    BY TypeInit, SavedInit
  <1>2. TypeOK /\ SavedInv /\ [Next]_vars => TypeOK' /\ SavedInv'
    BY TypeStep, SavedStep
  <1>3. SavedInv => MemorySaved
    BY DEF SavedInv, MemorySaved
  <1> QED
    BY <1>1, <1>2, <1>3, PTL DEF Spec

================================================================================
